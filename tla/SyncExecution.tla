---------------------------- MODULE SyncExecution ----------------------------
(***************************************************************************)
(* Synchronization of provider connections: the scheduler's workers, the   *)
(* queue of sync jobs, manual requests and disconnects, over the rows of   *)
(* ConnectionStore and next to the handlers of ConnectionService.  Every   *)
(* database call of a worker is a step, so anything may happen between two *)
(* of them; an error reply or a crash may happen at each.                  *)
(*                                                                         *)
(* Time is abstracted: a retry delay or a sync interval may have elapsed   *)
(* whenever the scheduler looks, and leases, claims and idempotency keys   *)
(* expire by steps of their own.                                           *)
(***************************************************************************)
EXTENDS ConnectionService

CONSTANTS
  Worker,       \* goroutines of the scheduler, over all replicas
  Job,          \* slots for sync jobs; a slot is reused once nobody knows it
  Key,          \* idempotency keys of manual requests
  Policy,       \* BOOLEAN or a subset: may a failed sync purge facts?
  MaxAttempts,  \* the retry policy's MaxAttempts
  MaxFaults     \* bound: errors, crashes and early expiries in a behaviour

ASSUME SyncAssumption ==
  /\ Policy \subseteq BOOLEAN
  /\ MaxAttempts \in Nat \ {0}
  /\ MaxFaults \in Nat
  /\ None \notin Conn
  /\ None \notin Job
  /\ None \notin Key

VARIABLES
  job,          \* provider_sync_jobs
  worker,       \* what each worker is doing, and the values it remembers
  faults        \* faults so far

syncVars == <<job, worker, faults>>
vars == <<storeVars, serviceVars, syncVars>>

NoJob == [status |-> "unused", conn |-> None, attempt |-> 0, purge |-> FALSE,
          key |-> None, keyLive |-> FALSE, token |-> None, live |-> FALSE]

\* live is "lease_expires_at > now()", keyLive "idempotency_expires_at > now()".
JobRow ==
  [status : {"unused", "pending", "running", "succeeded", "failed"},
   conn : Conn \cup {None}, attempt : 0..MaxAttempts, purge : BOOLEAN,
   key : Key \cup {None}, keyLive : BOOLEAN,
   token : Token \cup {None}, live : BOOLEAN]

IdleWorker == [pc |-> "idle", conn |-> None, job |-> None, exec |-> None,
               claim |-> None, status |-> "absent", failures |-> 0,
               attempt |-> 0, purge |-> FALSE]

(***************************************************************************)
(* exec is the execution claim and claim the job's claim token; status and *)
(* failures are the row as it was loaded ("absent": the load failed), and  *)
(* attempt and purge belong to the job in memory.                          *)
(***************************************************************************)
PC == {"idle", "due", "picked", "acquired", "reread", "loaded", "ready",
       "marking", "fetching", "publishing", "purging", "recording",
       "confirming", "compensating", "succeeded", "failed", "releasing"}

WorkerState ==
  [pc : PC, conn : Conn \cup {None}, job : Job \cup {None},
   exec : Token \cup {None}, claim : Token \cup {None},
   status : Status, failures : 0..MaxAttempts,
   attempt : 0..MaxAttempts, purge : BOOLEAN]

Init ==
  /\ StoreInit
  /\ ServiceInit
  /\ job = [j \in Job |-> NoJob]
  /\ worker = [w \in Worker |-> IdleWorker]
  /\ faults = 0

-----------------------------------------------------------------------------

TokensInUse ==
  {lease[c].token : c \in Conn} \cup {job[j].token : j \in Job}
    \cup {worker[w].exec : w \in Worker} \cup {worker[w].claim : w \in Worker}

FreshTokens == Token \ TokensInUse

\* gen_random_uuid(): some token that nothing mentions.
FreshToken == CHOOSE t \in FreshTokens : TRUE

\* A slot whose row does not exist and whose id no worker remembers.
FreeJobs == {j \in Job : job[j].status = "unused"
                         /\ \A w \in Worker : worker[w].job # j}

FreeJob == CHOOSE j \in FreeJobs : TRUE

Settled(j) == job[j].status \in {"succeeded", "failed"}

ClaimableQueued(j) == job[j].status = "pending"   \* mutant: no reclaiming

Claimable(j) ==
  \/ job[j].status = "pending"
  \/ job[j].status = "running" /\ ~job[j].live

\* The worker is past acquireExecution and has not yet released.
Executing(w) == worker[w].pc \notin {"idle", "due", "picked"}

\* The lease is this worker's and has not run out.
HoldsLease(w) ==
  /\ Executing(w)
  /\ lease[worker[w].conn] = [token |-> worker[w].exec, live |-> TRUE]

\* Counts saturate at MaxAttempts: NextRetry treats all larger ones alike.
NextAttempt(failures) == IF failures < MaxAttempts THEN failures + 1
                         ELSE MaxAttempts

\* Mutant: one retry too many.
RetryOnceMore(attempt) == attempt > 0 /\ attempt <= MaxAttempts

NextRetry(attempt) == attempt > 0 /\ attempt < MaxAttempts

NewJob(c, attempt, purge, key) ==
  [NoJob EXCEPT !.status = "pending", !.conn = c, !.attempt = attempt,
                !.purge = purge, !.key = key, !.keyLive = key # None]

\* The worker has claimed its job and has not yet given it up.
Claimed == {"marking", "fetching", "publishing", "purging", "recording",
            "confirming", "compensating", "succeeded", "failed"}

Eligible(w) == worker[w].status \in {"active", "error"}

Go(w, pc) == worker' = [worker EXCEPT ![w].pc = pc]

\* Where a failed attempt continues: the purge policy first.
FailurePC(w) == IF worker[w].purge THEN "purging" ELSE "recording"

-----------------------------------------------------------------------------
(***************************************************************************)
(* Choosing what to do.  RunOnce runs the claimable jobs, then the due     *)
(* connections; both lists may be stale when their entries are executed.   *)
(***************************************************************************)
Due(c) == \/ row[c].status = "active"
          \/ row[c].status = "error" /\ row[c].retry

SelectDue(w, c, purge) ==
  /\ worker[w].pc = "idle"
  /\ Due(c)
  /\ worker' = [worker EXCEPT ![w] = [IdleWorker EXCEPT
                  !.pc = "due", !.conn = c, !.purge = purge]]
  /\ UNCHANGED <<storeVars, serviceVars, job, faults>>

SelectClaimable(w, j) ==
  /\ worker[w].pc = "idle"
  /\ Claimable(j)
  /\ worker' = [worker EXCEPT ![w] = [IdleWorker EXCEPT
                  !.pc = "picked", !.conn = job[j].conn, !.job = j]]
  /\ UNCHANGED <<storeVars, serviceVars, job, faults>>

AcquireExecution(w) ==
  /\ worker[w].pc \in {"due", "picked"}
  /\ FreshTokens # {}
  /\ TryAcquireSyncExecution(worker[w].conn, FreshToken)
  /\ worker' = [worker EXCEPT
       ![w].pc = IF worker[w].job = None THEN "reread" ELSE "acquired",
       ![w].exec = lease'[worker[w].conn].token]
  /\ UNCHANGED <<row, facts, revocations, serviceVars, job, faults>>

\* ErrSyncAlreadyRunning: another execution holds the connection, or the
\* connection stopped being syncable.
SkipBusy(w) ==
  /\ worker[w].pc \in {"due", "picked"}
  /\ ~CanAcquire(worker[w].conn)
  /\ worker' = [worker EXCEPT ![w] = IdleWorker]
  /\ UNCHANGED <<storeVars, serviceVars, job, faults>>

-----------------------------------------------------------------------------
(***************************************************************************)
(* executePending and sync, up to executeAcquired.                         *)
(***************************************************************************)

\* The queued job is read again under the execution lease.
ReadJob(w) ==
  /\ worker[w].pc = "acquired"
  /\ LET j == worker[w].job IN
       worker' = IF job[j].status \in {"pending", "running"}
                 THEN [worker EXCEPT ![w].pc = "reread",
                                     ![w].attempt = job[j].attempt,
                                     ![w].purge = job[j].purge]
                 ELSE [worker EXCEPT ![w].pc = "releasing"]
  /\ UNCHANGED <<storeVars, serviceVars, job, faults>>

LoadConnection(w) ==
  /\ worker[w].pc = "reread"
  /\ LET c == worker[w].conn
         fresh == worker[w].job = None
     IN worker' = [worker EXCEPT
          ![w].pc = IF fresh THEN "loaded" ELSE "ready",
          ![w].status = row[c].status,
          ![w].failures = row[c].failures,
          ![w].attempt = IF fresh THEN NextAttempt(row[c].failures) ELSE @]
  /\ UNCHANGED <<storeVars, serviceVars, job, faults>>

\* A scheduled sync records its job only now.  The INSERT asks that the
\* connection exists, not that it is still syncable.
SaveJob(w) ==
  /\ worker[w].pc = "loaded"
  /\ FreeJobs # {}
  /\ job' = [job EXCEPT ![FreeJob] = NewJob(worker[w].conn, worker[w].attempt,
                                            worker[w].purge, None)]
  /\ worker' = [worker EXCEPT ![w].pc = "ready", ![w].job = FreeJob]
  /\ UNCHANGED <<storeVars, serviceVars, faults>>

ClaimJob(w) ==
  /\ worker[w].pc = "ready"
  /\ LET j == worker[w].job IN
       IF Claimable(j)
       THEN /\ FreshTokens # {}
            /\ job' = [job EXCEPT ![j].status = "running",
                                  ![j].token = FreshToken, ![j].live = TRUE]
            /\ worker' = [worker EXCEPT
                 ![w].pc = IF Eligible(w) THEN "marking" ELSE "failed",
                 ![w].claim = FreshToken]
       ELSE Go(w, "releasing") /\ UNCHANGED job
  /\ UNCHANGED <<storeVars, serviceVars, faults>>

-----------------------------------------------------------------------------
(***************************************************************************)
(* executeAcquired.  Each write of the worker that is conditioned on its   *)
(* claims is stated once: it takes effect or, when its condition fails,    *)
(* the step takes the branch of the code for that error.                   *)
(***************************************************************************)
FencedWrite(w) ==
  LET c == worker[w].conn
      t == worker[w].exec
      n == worker[w].attempt
  IN \/ /\ worker[w].pc = "marking"
        /\ UpdateConnectionAfterSync(c, t, worker[w].status,
                                     worker[w].failures, FALSE)
        /\ UNCHANGED facts
     \/ /\ worker[w].pc = "publishing"
        /\ SaveConnectionActivity(c, t)
        /\ UNCHANGED row
     \/ /\ worker[w].pc = "recording"
        /\ UpdateConnectionAfterSync(c, t, "error", n, NextRetry(n))
        /\ UNCHANGED facts
     \/ /\ worker[w].pc = "confirming"
        /\ UpdateConnectionAfterSync(c, t, "active", 0, FALSE)
        /\ UNCHANGED facts

WriteOr(w, done, refused) ==
  /\ \/ FencedWrite(w) /\ Go(w, done)
     \/ /\ ~Fenced(worker[w].conn, worker[w].exec)
        /\ Go(w, refused)
        /\ UNCHANGED <<row, facts>>
  /\ UNCHANGED <<lease, revocations, serviceVars, job, faults>>

\* The attempt is recorded before any provider I/O; next_sync_attempt_at is
\* cleared, status and failures are those of the loaded row.
MarkAttempt(w) ==
  worker[w].pc = "marking" /\ WriteOr(w, "fetching", FailurePC(w))

\* The provider answers with facts, or fails, or runs into its time limit.
FetchActivity(w) ==
  /\ worker[w].pc = "fetching"
  /\ \E pc \in {"publishing", FailurePC(w)} : Go(w, pc)
  /\ UNCHANGED <<storeVars, serviceVars, job, faults>>

Publish(w) ==
  worker[w].pc = "publishing" /\ WriteOr(w, "confirming", FailurePC(w))

\* purgeFailedRange: nothing checks that the worker still owns anything.
PurgeRange(w) ==
  /\ worker[w].pc = "purging"
  /\ ReplaceFacts(worker[w].conn)
  /\ Go(w, "recording")
  /\ UNCHANGED <<row, lease, revocations, serviceVars, job, faults>>

RecordFailure(w) ==
  worker[w].pc = "recording" /\ WriteOr(w, "failed", "failed")

ConfirmSuccess(w) ==
  worker[w].pc = "confirming" /\ WriteOr(w, "succeeded", "compensating")

\* purgeConnectionFacts, when the connection was lost after the publication.
Compensate(w) ==
  /\ worker[w].pc = "compensating"
  /\ ReplaceFacts(worker[w].conn)
  /\ Go(w, "failed")
  /\ UNCHANGED <<row, lease, revocations, serviceVars, job, faults>>

OwnsRunningJob(w) == job[worker[w].job].status = "running"   \* mutant

OwnsJob(w) == LET j == worker[w].job IN
  job[j].status = "running" /\ job[j].token = worker[w].claim

FinishedKeepsClaim(w) ==   \* mutant: the claim is not cleared
  [job EXCEPT ![worker[w].job].status = worker[w].pc]

FinishedJob(w) ==
  [job EXCEPT ![worker[w].job] = [@ EXCEPT !.status = worker[w].pc,
                                           !.token = None, !.live = FALSE]]

\* CompleteClaimedSyncJob; a lost claim is an error nobody acts upon.
CompleteJob(w) ==
  /\ worker[w].pc \in {"succeeded", "failed"}
  /\ job' = IF OwnsJob(w) THEN FinishedJob(w) ELSE job
  /\ Go(w, "releasing")
  /\ UNCHANGED <<storeVars, serviceVars, faults>>

ReleaseExecution(w) ==
  /\ worker[w].pc = "releasing"
  /\ ReleaseSyncExecution(worker[w].conn, worker[w].exec)
  /\ worker' = [worker EXCEPT ![w] = IdleWorker]
  /\ UNCHANGED <<row, facts, revocations, serviceVars, job, faults>>

WorkerStep(w) ==
  \/ AcquireExecution(w) \/ SkipBusy(w)
  \/ ReadJob(w) \/ LoadConnection(w) \/ SaveJob(w) \/ ClaimJob(w)
  \/ MarkAttempt(w) \/ FetchActivity(w) \/ Publish(w)
  \/ PurgeRange(w) \/ RecordFailure(w)
  \/ ConfirmSuccess(w) \/ Compensate(w)
  \/ CompleteJob(w) \/ ReleaseExecution(w)

-----------------------------------------------------------------------------
(***************************************************************************)
(* Faults.  A call may return an error (a cancelled context included); a   *)
(* conditional write may have committed all the same.  A crash forgets the *)
(* worker and leaves its leases to expire.                                 *)
(***************************************************************************)
Fault == faults < MaxFaults /\ faults' = faults + 1

\* Where the code goes when the call at pc returns an error.
ErrorPC(w) ==
  CASE worker[w].pc \in {"acquired", "loaded", "ready"} -> "releasing"
    [] worker[w].pc \in {"succeeded", "failed"} -> "releasing"
    [] worker[w].pc = "reread" -> IF worker[w].job = None THEN "loaded"
                                  ELSE "ready"
    [] worker[w].pc \in {"marking", "fetching", "publishing"} -> FailurePC(w)
    [] worker[w].pc = "purging" -> "recording"
    [] worker[w].pc \in {"recording", "confirming", "compensating"} -> "failed"
    [] OTHER -> "idle"

DatabaseError(w) ==
  /\ worker[w].pc # "idle"
  /\ Fault
  /\ worker' = IF ErrorPC(w) = "idle"
               THEN [worker EXCEPT ![w] = IdleWorker]
               ELSE [worker EXCEPT
                      ![w].pc = ErrorPC(w),
                      ![w].attempt = IF worker[w].pc = "reread"
                                        /\ worker[w].job = None THEN 1 ELSE @]
  /\ \/ FencedWrite(w) \/ UNCHANGED <<row, facts>>
  /\ UNCHANGED <<lease, revocations, serviceVars, job>>

Crash(w) ==
  /\ worker[w].pc # "idle"
  /\ Fault
  /\ worker' = [worker EXCEPT ![w] = IdleWorker]
  /\ UNCHANGED <<storeVars, serviceVars, job>>

\* The 20 minute leases outlast the 15 minute limit of a provider call: one
\* that runs out under its owner is a fault, a stalled process.
LeaseExpires(c) ==
  /\ lease[c].live
  /\ lease' = [lease EXCEPT ![c].live = FALSE]
  /\ IF \E w \in Worker : worker[w].conn = c /\ HoldsLease(w)
     THEN Fault ELSE UNCHANGED faults
  /\ UNCHANGED <<row, facts, revocations, serviceVars, job, worker>>

\* A claim is taken after the lease and for as long, so it runs out under its
\* owner soon after the lease has: one stall, not two.
ClaimExpires(j) ==
  /\ job[j].live
  /\ job' = [job EXCEPT ![j].live = FALSE]
  /\ IF \E w \in Worker : worker[w].claim = job[j].token /\ HoldsLease(w)
     THEN Fault ELSE UNCHANGED faults
  /\ UNCHANGED <<storeVars, serviceVars, worker>>

KeyExpires(j) ==
  /\ job[j].keyLive
  /\ job' = [job EXCEPT ![j].keyLive = FALSE]
  /\ UNCHANGED <<storeVars, serviceVars, worker, faults>>

-----------------------------------------------------------------------------
(***************************************************************************)
(* API requests and maintenance.                                           *)
(***************************************************************************)

\* EnqueueManualSync in the request's transaction: the lease it takes and
\* gives back is seen by nobody, but it does clear one that had expired.
Enqueue(c, k, purge) ==
  /\ CanAcquire(c)
  /\ lease' = [lease EXCEPT ![c] = NoLease]
  /\ LET known == {j \in Job : job[j].conn = c /\ job[j].key = k}
         replaced == {j \in known : ~job[j].keyLive}
     IN IF known # replaced THEN UNCHANGED job
        ELSE /\ FreeJobs # {}
             /\ job' = [j \in Job |->
                  IF j = FreeJob
                  THEN NewJob(c, NextAttempt(row[c].failures), purge, k)
                  ELSE IF j \in replaced THEN NoJob ELSE job[j]]
  /\ UNCHANGED <<row, facts, revocations, serviceVars, worker, faults>>

\* Disconnect: the connection's rows, credentials and queued jobs go at once.
Disconnect(c) ==
  /\ RevokeConnectionAggregate(c)
  /\ job' = [j \in Job |-> IF job[j].conn = c THEN NoJob ELSE job[j]]
  /\ UNCHANGED <<serviceVars, worker, faults>>

\* Retention removes finished jobs whose idempotency key has expired.
PurgeFinished(j) ==
  /\ Settled(j)
  /\ ~job[j].keyLive
  /\ job' = [job EXCEPT ![j] = NoJob]
  /\ UNCHANGED <<storeVars, serviceVars, worker, faults>>

ApiStep ==
  \/ \E c \in Conn : Connect(c) /\ UNCHANGED syncVars
  \/ \E c \in Conn : Disconnect(c)
  \/ \E c \in Conn, k \in Key, purge \in Policy : Enqueue(c, k, purge)
  \/ \E h \in Handler : ServiceStep(h) /\ UNCHANGED syncVars

Expiry == \/ \E c \in Conn : LeaseExpires(c)
          \/ \E j \in Job : ClaimExpires(j) \/ KeyExpires(j) \/ PurgeFinished(j)

Select(w) == \/ \E c \in Conn, purge \in Policy : SelectDue(w, c, purge)
             \/ \E j \in Job : SelectClaimable(w, j)

Next ==
  \/ ApiStep
  \/ Expiry
  \/ \E w \in Worker : Select(w) \/ WorkerStep(w) \/ DatabaseError(w) \/ Crash(w)

Spec == Init /\ [][Next]_vars

(***************************************************************************)
(* What the code schedules.  A worker that has taken something up goes on  *)
(* with it; every sweep of RunOnce offers every claimable job and every    *)
(* due connection; time passes, so leases and claims run out.  Requests,   *)
(* errors and crashes are never required to happen.                        *)
(***************************************************************************)
Fairness ==
  /\ \A w \in Worker : WF_vars(WorkerStep(w))
  /\ \A w \in Worker, j \in Job : SF_vars(SelectClaimable(w, j))
  /\ \A w \in Worker, c \in Conn :
       SF_vars(\E purge \in Policy : SelectDue(w, c, purge))
  /\ \A c \in Conn : WF_vars(LeaseExpires(c))
  /\ \A j \in Job : WF_vars(ClaimExpires(j)) /\ WF_vars(KeyExpires(j))
                    /\ WF_vars(PurgeFinished(j))

FairSpec == Spec /\ Fairness

-----------------------------------------------------------------------------
(***************************************************************************)
(* Properties.                                                             *)
(***************************************************************************)

\* A job has a claim exactly while it runs (provider_sync_jobs_claim_lease_chk).
JobShape ==
  \A j \in Job : /\ (job[j].status = "running") = (job[j].token # None)
                 /\ job[j].live => job[j].status = "running"
                 /\ job[j].status # "unused" => job[j].conn \in Conn

\* A worker has the connection, the job and the claims that the point it has
\* reached supposes.
WorkerShape ==
  \A w \in Worker :
    /\ worker[w].pc # "idle" => worker[w].conn \in Conn
    /\ Executing(w) => worker[w].exec \in Token
    /\ worker[w].pc \in {"picked", "acquired", "ready"} \cup Claimed
         => worker[w].job \in Job
    /\ worker[w].pc \in Claimed => worker[w].claim \in Token

FailuresBounded ==
  /\ \A c \in Conn : row[c].failures \in 0..MaxAttempts
  /\ \A h \in Handler : handler[h].snapshot.failures \in 0..MaxAttempts

\* The variables keep their types, and jobs and workers their shape.
TypeOK ==
  /\ StoreTypeOK
  /\ ServiceTypeOK
  /\ job \in [Job -> JobRow]
  /\ worker \in [Worker -> WorkerState]
  /\ faults \in 0..MaxFaults
  /\ JobShape
  /\ WorkerShape
  /\ FailuresBounded

\* A disconnect is not undone by a worker or a request that read the row before
\* it: no credential, no consent, no lease and, for a connection with an
\* environment of its own, no facts come back (the comment on FencedActivitySink).
RevokedKeepsNothing ==
  \A c \in Conn : row[c].status = "revoked" =>
    /\ ~row[c].secret /\ ~row[c].private
    /\ lease[c] = NoLease
    /\ AuthMethod[c] # "none" => facts[c] = {}

\* ... nor does the connection leave the status (UpsertConnection's WHERE).
RevokedIsFinal ==
  [][\A c \in Conn : row[c].status = "revoked" => row'[c] = row[c]]_vars

\* However leases expire and are taken again, the claims of at most one of the
\* workers executing one connection are accepted by the writes that check them.
ExclusiveExecution ==
  \A v, w \in Worker :
    /\ Executing(v) /\ worker[v].exec = lease[worker[v].conn].token
    /\ Executing(w) /\ worker[w].exec = lease[worker[w].conn].token
    /\ worker[v].conn = worker[w].conn
    => v = w

\* A live lease ends only because its holder gives it back, because it runs
\* out, or because the connection is disconnected; never because another
\* worker cleans up after itself.
LiveLeaseIsKept ==
  [][\A c \in Conn : lease[c].live /\ lease'[c] # lease[c] =>
       \/ lease'[c] = [lease[c] EXCEPT !.live = FALSE]
       \/ row'[c].status = "revoked"
       \/ \E w \in Worker : /\ worker[w].conn = c
                            /\ worker[w].exec = lease[c].token
                            /\ worker'[w] = IdleWorker]_vars

\* The outcome of a job is written once, and by the worker whose claim is the
\* last: a worker whose claim was taken over can neither finish the job for the
\* next one nor overwrite what that one reported.
OutcomeIsFinal ==
  [][\A j \in Job :
       /\ Settled(j) => job'[j].status \in {job[j].status, "unused"}
       /\ ~Settled(j) /\ job'[j].status \in {"succeeded", "failed"} =>
            \E w \in Worker : /\ worker[w].job = j
                              /\ worker[w].claim = job[j].token
                              /\ worker[w].pc = job'[j].status]_vars

\* A scheduled retry is within the retry budget, also after requests saved the
\* row as they had read it.
RetryWithinBudget ==
  \A c \in Conn : row[c].retry => row[c].failures \in 1..(MaxAttempts - 1)

\* "Pending OAuth may only become active after the callback completes"
\* (ConnectionService.Update), whatever other request or worker was under way.
OAuthOnlyAfterCallback ==
  \A c \in Conn :
    AuthMethod[c] = "oauth2" /\ row[c].status \in {"active", "error", "disabled"}
      => c \in completed

\* Every queued job, and every job whose worker crashed, settles or goes with its
\* connection, unless the connection stops being synchronized.
QueuedJobSettles ==
  \A j \in Job : job[j].status \in {"pending", "running"} ~>
    (Settled(j) \/ job[j].status = "unused" \/ ~Syncable(job[j].conn))

\* A connection that is due is attempted, or it stops being due: neither the
\* leases of a dead worker nor the jobs it left keep a connection from being
\* synchronized for ever.
DueIsAttempted ==
  \A c \in Conn : Due(c) ~>
    (~Due(c) \/ \E w \in Worker : worker[w].conn = c /\ worker[w].pc = "fetching")

-----------------------------------------------------------------------------
(***************************************************************************)
(* What the subject is promised.                                           *)
(***************************************************************************)

\* A row that is "pending" again, because an update saved what it had read
\* before the callback, is still that of an opened connection.
Phase(c) ==
  CASE row[c].status = "absent"  -> "none"
    [] row[c].status = "revoked" -> "closed"
    [] row[c].status \notin {"absent", "revoked"} ->
         IF AuthMethod[c] = "oauth2" /\ c \notin completed
         THEN "offered" ELSE "open"

\* Facts in the shared environment are nobody's own.
KeptFor(c) ==
  {k \in {"consent"} : row[c].private} \cup {k \in {"credential"} : row[c].secret}
    \cup {k \in {"lease"} : lease[c] # NoLease}
    \cup {k \in {"facts"} : AuthMethod[c] # "none" /\ facts[c] # {}}

Lifecycle == INSTANCE ConnectionLifecycle WITH
  Redirected <- {c \in Conn : AuthMethod[c] = "oauth2"},
  phase      <- [c \in Conn |-> Phase(c)],
  kept       <- [c \in Conn |-> KeptFor(c)]

\* A connection goes through its phases once and keeps only what its phase and
\* its consent allow, whatever requests, callbacks and workers overlap.
ImplementsLifecycle == Lifecycle!Spec

-----------------------------------------------------------------------------
(***************************************************************************)
(* Statements of the source that the code does not keep.                   *)
(***************************************************************************)

\* "Public connections share a global environment and must not purge its facts"
\* (PurgeConnectionData): what a public connection published in the shared
\* environment is removed by no worker of another connection.
PublicFactsKeptByOthers ==
  [][\A c \in Conn :
       AuthMethod[c] = "none" /\ c \in facts[Shared] /\ c \notin facts'[Shared]
       => \E w \in Worker : worker[w].conn = c /\ worker'[w] # worker[w]]_vars

\* "A nil value means that the retry budget is exhausted and requires a manual
\* sync" (Scheduler.RunOnce): when nothing is queued or running for a connection
\* in error, either a retry is scheduled or the budget is spent.
NoRetryMeansExhausted ==
  \A c \in Conn :
    /\ row[c].status = "error" /\ ~row[c].retry
    /\ \A w \in Worker : worker[w].conn # c
    /\ \A j \in Job : job[j].conn = c => Settled(j)
    => row[c].failures = MaxAttempts

\* A disconnect "durably enqueues the encrypted provider token revoke job"
\* (docs/interface-change-log.md): the token an OAuth callback stored is queued
\* for revocation when the connection goes.
StoredTokenIsRevoked ==
  \A c \in Conn :
    c \in completed /\ c \in Private /\ row[c].status = "revoked"
      => revocations[c] > 0
=============================================================================
