--------------------------- MODULE TokenRevocation ---------------------------
(***************************************************************************)
(* The queue of OAuth tokens to revoke at their provider, and the workers  *)
(* that drain it.  A job is claimed under a lease; the claim counts an     *)
(* attempt, and its token fences what the worker reports.  The workers of  *)
(* the model stand for the items of a batch, too: one lease covers the     *)
(* whole batch, so an item can be reached after its lease expired.         *)
(* A subject has one connection here, with one token.                      *)
(***************************************************************************)
EXTENDS Naturals

CONSTANTS
  Subject,     \* subjects, each with one connection
  Worker,      \* revocation workers, or items of their batches
  NoOne,       \* "nobody holds it"
  MaxCalls,    \* OAuthTokenRevocationWorkerConfig.MaxAttempts
  MaxEvents    \* bound: crashes, overrun leases and what AccountDeletion adds

ASSUME RevocationAssumption ==
  /\ NoOne \notin Worker
  /\ MaxCalls \in Nat \ {0}
  /\ MaxEvents \in Nat

VARIABLES
  job,         \* provider_token_revocation_jobs, by connection
  worker,      \* what each worker is doing
  revoked,     \* external: connections whose token the provider revoked
  calls,       \* history: calls of the provider for the present job
  events       \* how many of them so far

queueVars == <<job, worker, revoked, calls>>

NoJob == [id |-> 0, status |-> "none", attempts |-> 0, holder |-> NoOne,
          leased |-> FALSE]

Job == [id : Nat, status : {"none", "pending", "processing", "dead"},
        attempts : Nat, holder : Worker \cup {NoOne}, leased : BOOLEAN]

Resting == [pc |-> "idle"]

WorkerState ==
  {Resting} \cup [pc : {"process", "complete", "retry", "bury"},
                  subject : Subject, id : Nat, attempt : Nat]

InitQueue ==
  /\ job = [s \in Subject |-> NoJob]
  /\ worker = [w \in Worker |-> Resting]
  /\ revoked = {}
  /\ calls = [s \in Subject |-> 0]

\* ON CONFLICT (connection_id) DO NOTHING; a job that is done has no row.
Enqueue(subjects) ==
  LET added == {s \in subjects : job[s].status = "none"} IN
  /\ job' = [s \in Subject |->
       IF s \in added
       THEN [NoJob EXCEPT !.id = job[s].id + 1, !.status = "pending"] ELSE job[s]]
  /\ calls' = [s \in Subject |-> IF s \in added THEN 0 ELSE calls[s]]

Event ==
  /\ events < MaxEvents
  /\ events' = events + 1

-----------------------------------------------------------------------------

ClaimJob(w, s) ==
  /\ worker[w] = Resting
  /\ \/ job[s].status = "pending"
     \/ job[s].status = "processing" /\ ~job[s].leased
  /\ job' = [job EXCEPT ![s].status = "processing", ![s].attempts = @ + 1,
                        ![s].holder = w, ![s].leased = TRUE]
  /\ worker' = [worker EXCEPT ![w] =
       [pc |-> "process", subject |-> s, id |-> job[s].id,
        attempt |-> job[s].attempts + 1]]
  /\ UNCHANGED <<revoked, calls, events>>

\* Mutant: an attempt after the last one may still call.
Uncapped(attempt) == FALSE

\* Attempts of workers that died before they reported count, too.
Exhausted(attempt) == attempt > MaxCalls

\* The provider revokes the token and says so; or it does not, or its answer
\* is lost, or the token cannot be decrypted.
CallProvider(w) ==
  LET k == worker[w] IN
  /\ k.pc = "process"
  /\ ~Exhausted(k.attempt)
  /\ calls' = IF k.id = job[k.subject].id
              THEN [calls EXCEPT ![k.subject] = @ + 1] ELSE calls
  /\ \/ /\ revoked' = revoked \cup {k.subject}
        /\ worker' = [worker EXCEPT ![w].pc = "complete"]
     \/ /\ revoked' \in {revoked, revoked \cup {k.subject}}
        /\ worker' = [worker EXCEPT ![w].pc =
             IF k.attempt >= MaxCalls THEN "bury" ELSE "retry"]
  /\ UNCHANGED <<job, events>>

Fence(w) ==
  /\ worker[w].pc = "process"
  /\ Exhausted(worker[w].attempt)
  /\ worker' = [worker EXCEPT ![w].pc = "bury"]
  /\ UNCHANGED <<job, revoked, calls, events>>

Released(s, status) ==
  [job[s] EXCEPT !.status = status, !.holder = NoOne, !.leased = FALSE]

\* The statements compare the claim token, not the lease.
Holds(w, s) == job[s].status = "processing" /\ job[s].holder = w

\* Complete, Retry and DeadLetter; ErrConflict when the claim is lost.
Report(w) ==
  LET k == worker[w] IN
  /\ k.pc \in {"complete", "retry", "bury"}
  /\ job' = IF Holds(w, k.subject)
            THEN [job EXCEPT ![k.subject] = Released(k.subject,
                    CASE k.pc = "complete" -> "none"
                      [] k.pc = "retry"    -> "pending"
                      [] k.pc = "bury"     -> "dead")]
            ELSE job
  /\ worker' = [worker EXCEPT ![w] = Resting]
  /\ UNCHANGED <<revoked, calls, events>>

\* A crash, or a report that fails: the claim is left to its lease.
WorkerFault(w) ==
  /\ worker[w] # Resting
  /\ Event
  /\ worker' = [worker EXCEPT ![w] = Resting]
  /\ UNCHANGED <<job, revoked, calls>>

\* The lease of a worker that died; of one that works, it is a fault.
JobLeaseExpires(s) ==
  /\ job[s].leased
  /\ IF \E w \in Worker : Holds(w, s) /\ worker[w] # Resting
                          /\ worker[w].subject = s
     THEN Event ELSE UNCHANGED events
  /\ job' = [job EXCEPT ![s].leased = FALSE]
  /\ UNCHANGED <<worker, revoked, calls>>

QueueNext ==
  \/ \E w \in Worker :
       \/ \E s \in Subject : ClaimJob(w, s)
       \/ CallProvider(w) \/ Fence(w) \/ Report(w) \/ WorkerFault(w)
  \/ \E s \in Subject : JobLeaseExpires(s)

-----------------------------------------------------------------------------

\* Whatever crashes, lost answers and lost claims, a job presents its token
\* to the provider at most MaxCalls times (process: "fence them before any
\* further provider call").
CallsWithinBudget == \A s \in Subject : calls[s] <= MaxCalls
=============================================================================
