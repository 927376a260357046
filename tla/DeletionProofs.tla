---------------------------- MODULE DeletionProofs ----------------------------
(***************************************************************************)
(* AccountDeletion with TokenRevocation, for any number of subjects,       *)
(* executors, workers, attempts and events: its types, its safety          *)
(* invariants, that held data survives, what a completed deletion and a    *)
(* failed verification mean, and that it implements Erasure.               *)
(*                                                                         *)
(* The inductive invariant has a part about the queue of tokens, one about *)
(* requests and their executors, one about the account and one about the   *)
(* scopes, so that a step is looked at only in the parts it touches.       *)
(***************************************************************************)
EXTENDS AccountDeletion, FiniteSetTheorems, TLAPS

USE RevocationAssumption, DeletionAssumption

-----------------------------------------------------------------------------
(***************************************************************************)
(* The queue.  A worker that has claimed a job and has not called yet      *)
(* takes one of the calls that are left.                                   *)
(***************************************************************************)

QueueTypes ==
  /\ job \in [Subject -> Job]
  /\ worker \in [Worker -> WorkerState]
  /\ revoked \subseteq Subject
  /\ calls \in [Subject -> Nat]

Calling(s) ==
  {w \in Worker : /\ worker[w].pc = "process"
                  /\ worker[w].subject = s
                  /\ worker[w].id = job[s].id
                  /\ worker[w].attempt <= MaxCalls}

BudgetOK(s) ==
  /\ IsFiniteSet(Calling(s))
  /\ calls[s] + Cardinality(Calling(s)) <= MaxCalls
  /\ calls[s] + Cardinality(Calling(s)) <= job[s].attempts

\* Claims are of the present job or of an earlier one.
ClaimOK(w) == worker[w] # Resting => worker[w].id <= job[worker[w].subject].id

QueueInvariant ==
  /\ QueueTypes
  /\ \A s \in Subject : BudgetOK(s)
  /\ \A w \in Worker : ClaimOK(w)

LEMMA JobShape ==
  ASSUME NEW j \in Job
  PROVE  /\ j.id \in Nat /\ j.attempts \in Nat
         /\ j.status \in {"none", "pending", "processing", "dead"}
BY DEF Job

LEMMA WorkerShape ==
  ASSUME NEW k \in WorkerState, k # Resting
  PROVE  /\ k \in [pc : {"process", "complete", "retry", "bury"},
                   subject : Subject, id : Nat, attempt : Nat]
         /\ k.pc \in {"process", "complete", "retry", "bury"}
         /\ k.subject \in Subject /\ k.id \in Nat /\ k.attempt \in Nat
BY DEF WorkerState

LEMMA InitQueueInvariant == InitQueue => QueueInvariant
<1> SUFFICES ASSUME InitQueue PROVE QueueInvariant
  OBVIOUS
<1>1. QueueTypes
  <2>1. NoJob \in Job /\ Resting \in WorkerState
    BY DEF NoJob, Job, WorkerState
  <2> QED
    BY <2>1 DEF InitQueue, QueueTypes
<1>2. ASSUME NEW s \in Subject PROVE BudgetOK(s)
  <2>1. Calling(s) = {}
    BY DEF Calling, InitQueue, Resting
  <2>2. IsFiniteSet({}) /\ Cardinality({}) = 0
    BY FS_EmptySet
  <2> QED
    BY <2>1, <2>2 DEF BudgetOK, InitQueue, NoJob
<1>3. \A w \in Worker : ClaimOK(w)
  BY DEF ClaimOK, InitQueue
<1> QED
  BY <1>1, <1>2, <1>3 DEF QueueInvariant

LEMMA QueueKept ==
  ASSUME QueueInvariant, UNCHANGED queueVars
  PROVE  QueueInvariant'
<1> USE DEF QueueInvariant, queueVars
<1>1. QueueTypes'
  BY DEF QueueTypes
<1>2. \A s \in Subject : BudgetOK(s)'
  BY DEF BudgetOK, Calling
<1>3. \A w \in Worker : ClaimOK(w)'
  BY DEF ClaimOK
<1> QED
  BY <1>1, <1>2, <1>3

\* A worker that calls, reports, stops or is at its end is not about to call.
LEMMA WorkerLeaves ==
  ASSUME QueueInvariant, QueueTypes', NEW w \in Worker,
         \A v \in Worker \ {w} : worker'[v] = worker[v],
         worker'[w].pc # "process",
         worker'[w] # Resting => worker[w] # Resting
                                 /\ worker'[w].id = worker[w].id
                                 /\ worker'[w].subject = worker[w].subject,
         \A s \in Subject : job'[s].id = job[s].id /\ job'[s].attempts = job[s].attempts,
         \A s \in Subject : \/ calls'[s] = calls[s]
                            \/ w \in Calling(s) /\ calls'[s] = calls[s] + 1
  PROVE  QueueInvariant'
<1> USE DEF QueueInvariant
<1>1. ASSUME NEW s \in Subject PROVE BudgetOK(s)'
  <2>1. BudgetOK(s) /\ job[s].attempts \in Nat /\ calls[s] \in Nat /\ calls'[s] \in Nat
        /\ job'[s].attempts = job[s].attempts
    BY JobShape DEF QueueTypes
  <2>2. Calling(s)' = Calling(s) \ {w}
    BY DEF Calling
  <2>3. /\ IsFiniteSet(Calling(s) \ {w})
        /\ Cardinality(Calling(s) \ {w}) =
             IF w \in Calling(s) THEN Cardinality(Calling(s)) - 1 ELSE Cardinality(Calling(s))
    BY <2>1, FS_RemoveElement DEF BudgetOK
  <2>4. Cardinality(Calling(s)) \in Nat
    BY <2>1, FS_CardinalityType DEF BudgetOK
  <2>5. Cardinality(Calling(s) \ {w}) \in Nat
    BY <2>3, FS_CardinalityType
  <2>6. IsFiniteSet(Calling(s)') /\ Cardinality(Calling(s)') = Cardinality(Calling(s) \ {w})
    BY <2>2, <2>3
  <2>7. calls'[s] + Cardinality(Calling(s)') <= calls[s] + Cardinality(Calling(s))
        /\ Cardinality(Calling(s)') \in Nat
    BY <2>1, <2>3, <2>4, <2>6, <2>5
  <2>8. /\ calls'[s] + Cardinality(Calling(s)') <= MaxCalls
        /\ calls'[s] + Cardinality(Calling(s)') <= job'[s].attempts
    BY <2>1, <2>4, <2>7 DEF BudgetOK
  <2> QED
    BY <2>6, <2>8 DEF BudgetOK
<1>2. ASSUME NEW v \in Worker PROVE ClaimOK(v)'
  <2>1. worker[v] # Resting => worker[v].subject \in Subject
    BY WorkerShape DEF QueueTypes
  <2> QED
    BY <2>1 DEF ClaimOK
<1> QED
  BY <1>1, <1>2

LEMMA ClaimJobStep ==
  ASSUME QueueInvariant, NEW w \in Worker, NEW s \in Subject, ClaimJob(w, s)
  PROVE  QueueInvariant'
<1> USE DEF QueueInvariant
<1>1. job[s] \in Job /\ job[s].id \in Nat /\ job[s].attempts \in Nat
  BY JobShape DEF QueueTypes
<1> PICK n \in Nat : n = job[s].attempts + 1
  BY <1>1
<1>2. job' \in [Subject -> Job] /\ job'[s].id = job[s].id /\ job'[s].attempts = n
      /\ \A o \in Subject \ {s} : job'[o] = job[o]
  BY <1>1 DEF ClaimJob, QueueTypes, Job
<1> PICK k : k = [pc |-> "process", subject |-> s, id |-> job[s].id, attempt |-> n]
  OBVIOUS
<1>3. k \in WorkerState /\ k.pc = "process" /\ k.subject = s /\ k.id = job[s].id
      /\ k.attempt = n
  BY <1>1 DEF WorkerState
<1>4. worker[w] = Resting /\ worker' = [worker EXCEPT ![w] = k]
      /\ UNCHANGED <<revoked, calls>>
  BY DEF ClaimJob
<1>5. QueueTypes'
  BY <1>2, <1>3, <1>4 DEF QueueTypes
<1>6. /\ job'[s].id = job[s].id /\ job'[s].attempts = n
      /\ \A o \in Subject \ {s} : job'[o] = job[o]
      /\ worker'[w] = k /\ \A v \in Worker \ {w} : worker'[v] = worker[v]
  BY <1>2, <1>4 DEF QueueTypes
<1>7. w \notin Calling(s) /\ Resting.pc # "process"
  BY <1>4 DEF Calling, Resting
<1>8. BudgetOK(s)'
  <2>1. BudgetOK(s) /\ calls[s] \in Nat /\ calls'[s] = calls[s]
    BY <1>4 DEF QueueTypes
  <2>2. Cardinality(Calling(s)) \in Nat
    BY <2>1, FS_CardinalityType DEF BudgetOK
  <2>3. CASE n <= MaxCalls
    <3>1. Calling(s)' = Calling(s) \cup {w}
      BY <1>3, <1>6, <2>3 DEF Calling
    <3>2. IsFiniteSet(Calling(s)') /\ Cardinality(Calling(s)') = Cardinality(Calling(s)) + 1
      BY <1>7, <2>1, <3>1, FS_AddElement DEF BudgetOK
    <3> QED
      BY <1>1, <1>6, <2>1, <2>2, <2>3, <3>2 DEF BudgetOK
  <2>4. CASE ~(n <= MaxCalls)
    <3>1. Calling(s)' = Calling(s)
      BY <1>3, <1>4, <1>6, <1>7, <2>4 DEF Calling
    <3> QED
      BY <1>1, <1>6, <2>1, <2>2, <2>4, <3>1 DEF BudgetOK
  <2> QED
    BY <2>3, <2>4
<1>9. ASSUME NEW o \in Subject, o # s PROVE BudgetOK(o)'
  <2>1. Calling(o)' = Calling(o)
    BY <1>3, <1>4, <1>6, <1>7, <1>9 DEF Calling
  <2> QED
    BY <1>4, <1>6, <1>9, <2>1 DEF BudgetOK
<1>10. ASSUME NEW v \in Worker PROVE ClaimOK(v)'
  <2>1. CASE v = w
    BY <1>1, <1>3, <1>6, <2>1 DEF ClaimOK
  <2>2. CASE v # w
    <3>1. worker[v] # Resting => worker[v].subject \in Subject
      BY WorkerShape DEF QueueTypes
    <3> QED
      BY <1>6, <2>2, <3>1 DEF ClaimOK
  <2> QED
    BY <2>1, <2>2
<1> QED
  BY <1>5, <1>8, <1>9, <1>10

LEMMA CallProviderStep ==
  ASSUME QueueInvariant, NEW w \in Worker, CallProvider(w)
  PROVE  QueueInvariant'
<1>1. /\ QueueTypes /\ worker[w] \in WorkerState /\ worker[w] # Resting
      /\ worker[w].pc = "process" /\ job' = job
  BY DEF CallProvider, QueueInvariant, QueueTypes, Resting
<1> PICK k : k = worker[w]
  OBVIOUS
<1>2. /\ k \in [pc : {"process", "complete", "retry", "bury"},
                subject : Subject, id : Nat, attempt : Nat]
      /\ k.subject \in Subject /\ k.attempt \in Nat /\ k.attempt <= MaxCalls
  BY <1>1, WorkerShape DEF CallProvider, Exhausted
<1>3. PICK pc \in {"complete", "retry", "bury"} : worker' = [worker EXCEPT ![w].pc = pc]
  BY Zenon DEF CallProvider
<1>4. /\ worker' \in [Worker -> WorkerState]
      /\ worker'[w].pc # "process" /\ worker'[w].id = k.id /\ worker'[w].subject = k.subject
      /\ \A v \in Worker \ {w} : worker'[v] = worker[v]
  BY <1>1, <1>2, <1>3 DEF QueueTypes, WorkerState
<1>5. calls' = IF k.id = job[k.subject].id
               THEN [calls EXCEPT ![k.subject] = @ + 1] ELSE calls
  BY DEF CallProvider
<1>6. revoked' \subseteq Subject
  BY <1>1, <1>2 DEF CallProvider, QueueTypes
<1>7. QueueTypes'
  BY <1>1, <1>2, <1>4, <1>5, <1>6 DEF QueueTypes
<1>8. \A s \in Subject : \/ calls'[s] = calls[s]
                         \/ w \in Calling(s) /\ calls'[s] = calls[s] + 1
  BY <1>1, <1>2, <1>5 DEF Calling, QueueTypes
<1> QED
  BY <1>1, <1>4, <1>7, <1>8, WorkerLeaves

\* Steps after the call, or instead of one.
LEMMA WorkerStep ==
  ASSUME QueueInvariant, NEW w \in Worker, Fence(w) \/ Report(w) \/ WorkerFault(w)
  PROVE  QueueInvariant'
<1>1. /\ QueueTypes /\ worker[w] \in WorkerState /\ worker[w] # Resting
      /\ UNCHANGED <<revoked, calls>>
  BY DEF Fence, Report, WorkerFault, QueueInvariant, QueueTypes, Resting
<1>2. /\ worker[w] \in [pc : {"process", "complete", "retry", "bury"},
                        subject : Subject, id : Nat, attempt : Nat]
      /\ worker[w].subject \in Subject
  BY <1>1, WorkerShape
<1>3. /\ worker' \in [Worker -> WorkerState] /\ worker'[w].pc # "process"
      /\ \/ worker'[w] = Resting
         \/ worker'[w].id = worker[w].id /\ worker'[w].subject = worker[w].subject
      /\ \A v \in Worker \ {w} : worker'[v] = worker[v]
  BY <1>1, <1>2 DEF Fence, Report, WorkerFault, QueueTypes, WorkerState, Resting
<1>4. /\ job' \in [Subject -> Job]
      /\ \A s \in Subject : job'[s].id = job[s].id /\ job'[s].attempts = job[s].attempts
  <2>1. CASE Fence(w) \/ WorkerFault(w)
    BY <1>1, <2>1 DEF Fence, WorkerFault, QueueTypes
  <2>2. CASE Report(w)
    <3>1. PICK status \in {"none", "pending", "dead"} :
            job' = job \/ job' = [job EXCEPT ![worker[w].subject] =
                                    Released(worker[w].subject, status)]
      BY <2>2 DEF Report
    <3>2. ASSUME NEW s \in Subject
          PROVE  Released(s, status) \in Job /\ Released(s, status).id = job[s].id
                 /\ Released(s, status).attempts = job[s].attempts
      <4>1. job[s] \in Job
        BY <1>1 DEF QueueTypes
      <4>2. ASSUME NEW j \in Job
            PROVE  LET row == [j EXCEPT !.status = status, !.holder = NoOne, !.leased = FALSE]
                   IN row \in Job /\ row.id = j.id /\ row.attempts = j.attempts
        BY DEF Job
      <4> QED
        BY <4>1, <4>2 DEF Released
    <3> QED
      BY <1>1, <1>2, <3>1, <3>2 DEF QueueTypes
  <2> QED
    BY <2>1, <2>2
<1>5. QueueTypes'
  BY <1>1, <1>3, <1>4 DEF QueueTypes
<1> QED
  BY <1>1, <1>3, <1>4, <1>5, WorkerLeaves

LEMMA JobLeaseExpiresStep ==
  ASSUME QueueInvariant, NEW s \in Subject, JobLeaseExpires(s)
  PROVE  QueueInvariant'
<1> USE DEF QueueInvariant
<1>1. /\ job' \in [Subject -> Job]
      /\ \A o \in Subject : job'[o].id = job[o].id /\ job'[o].attempts = job[o].attempts
  BY DEF JobLeaseExpires, QueueTypes, Job
<1>2. QueueTypes'
  BY <1>1 DEF JobLeaseExpires, QueueTypes
<1>3. ASSUME NEW o \in Subject PROVE BudgetOK(o)'
  <2>1. Calling(o)' = Calling(o)
    BY <1>1 DEF Calling, JobLeaseExpires
  <2> QED
    BY <1>1, <2>1 DEF BudgetOK, JobLeaseExpires
<1>4. ASSUME NEW w \in Worker PROVE ClaimOK(w)'
  <2>1. worker[w] # Resting => worker[w].subject \in Subject
    BY WorkerShape DEF QueueTypes
  <2> QED
    BY <1>1, <2>1 DEF ClaimOK, JobLeaseExpires
<1> QED
  BY <1>2, <1>3, <1>4

\* A new job has all its calls left: claims of an earlier one do not count.
LEMMA EnqueueStep ==
  ASSUME QueueInvariant, NEW subjects, Enqueue(subjects), UNCHANGED <<worker, revoked>>
  PROVE  QueueInvariant'
<1> USE DEF QueueInvariant
<1> PICK added : added = {s \in subjects : job[s].status = "none"}
  OBVIOUS
<1>1. ASSUME NEW s \in Subject
      PROVE  /\ job[s] \in Job /\ job[s].id \in Nat
             /\ job'[s] \in Job
             /\ s \in added => job'[s].id = job[s].id + 1 /\ job'[s].attempts = 0
                                /\ calls'[s] = 0
             /\ s \notin added => job'[s] = job[s] /\ calls'[s] = calls[s]
  <2>1. job[s] \in Job /\ job[s].id \in Nat
    BY JobShape DEF QueueTypes
  <2>2. NoJob \in Job /\ NoJob.attempts = 0
    BY DEF NoJob, Job
  <2> PICK n \in Nat : n = job[s].id + 1
    BY <2>1
  <2>3. LET row == [NoJob EXCEPT !.id = n, !.status = "pending"] IN
        row \in Job /\ row.id = n /\ row.attempts = 0
    <3>1. ASSUME NEW j \in Job
          PROVE  LET row == [j EXCEPT !.id = n, !.status = "pending"]
                 IN row \in Job /\ row.id = n /\ row.attempts = j.attempts
      BY DEF Job
    <3> QED
      BY <2>2, <3>1
  <2> QED
    BY <2>1, <2>3 DEF Enqueue
<1>2. QueueTypes'
  <2>1. job' \in [Subject -> Job] /\ calls' \in [Subject -> Nat]
    BY <1>1 DEF Enqueue, QueueTypes
  <2> QED
    BY <2>1 DEF QueueTypes
<1>3. ASSUME NEW w \in Worker, worker[w] # Resting
      PROVE  worker[w].subject \in Subject /\ worker[w].id \in Nat
             /\ worker[w].id <= job[worker[w].subject].id
  BY <1>3, WorkerShape DEF QueueTypes, ClaimOK
<1>4. ASSUME NEW s \in Subject PROVE BudgetOK(s)'
  <2>1. CASE s \in added
    <3>1. \A w \in Worker : worker[w].pc = "process" => worker[w] # Resting
      BY DEF Resting
    <3>2. Calling(s)' = {}
      BY <1>1, <1>3, <2>1, <3>1 DEF Calling
    <3>3. IsFiniteSet(Calling(s)') /\ Cardinality(Calling(s)') = 0
      BY <3>2, FS_EmptySet
    <3> QED
      BY <1>1, <2>1, <3>3 DEF BudgetOK
  <2>2. CASE s \notin added
    <3>1. Calling(s)' = Calling(s)
      BY <1>1, <2>2 DEF Calling
    <3> QED
      BY <1>1, <2>2, <3>1 DEF BudgetOK
  <2> QED
    BY <2>1, <2>2
<1>5. ASSUME NEW w \in Worker PROVE ClaimOK(w)'
  BY <1>1, <1>3 DEF ClaimOK
<1> QED
  BY <1>2, <1>4, <1>5

-----------------------------------------------------------------------------
(***************************************************************************)
(* Requests and their executors.  Only the holder of the claim is at the   *)
(* stage it works on: an executor that lost its claim may be anywhere.     *)
(***************************************************************************)

Fits(k, row) ==
  /\ k.pc = "revoke" => row.stage = "requested"
  /\ k.pc = "delete" => row.stage = "credentials_revoked" /\ row.frozen = k.frozen
  /\ k.pc \in {"verify", "complete"} =>
       row.stage = "primary_deleted" /\ row.frozen = k.frozen

Idle(row) == row.stage \in {"none", "completed"} => row.holder = NoOne /\ ~row.leased

ExecutorOK(x) ==
  executor[x] # Off /\ Owns(x) => Fits(executor[x], request[executor[x].target])

RequestInvariant ==
  /\ request \in [Target -> Request]
  /\ executor \in [Executor -> ExecutorState]
  /\ \A t \in Target : Idle(request[t])
  /\ \A x \in Executor : ExecutorOK(x)

ExecutorRecord ==
  [pc : {"load", "revoke", "delete", "verify", "complete", "fail", "defer"},
   target : Target, frozen : SUBSET Subject]

LEMMA ExecutorShape ==
  ASSUME NEW k \in ExecutorState, k # Off
  PROVE  /\ k \in ExecutorRecord
         /\ k.target \in Target /\ k.frozen \subseteq Subject
BY DEF ExecutorState, ExecutorRecord

LEMMA ExecutorForms ==
  /\ Off \in ExecutorState /\ Off.pc = "idle"
  /\ \A k \in ExecutorRecord : k \in ExecutorState /\ k # Off
BY DEF ExecutorState, ExecutorRecord, Off

LEMMA RequestShape ==
  ASSUME NEW row \in Request
  PROVE  /\ row.stage \in Stage /\ row.frozen \subseteq Subject
         /\ row.holder \in Executor \cup {NoOne} /\ row.leased \in BOOLEAN
         /\ row.attempts \in 0..MaxAttempts
BY DEF Request

\* A step of one executor that leaves the requests.
LEMMA ExecutorMoves ==
  ASSUME RequestInvariant, NEW x \in Executor, NEW k \in ExecutorState,
         executor' = [executor EXCEPT ![x] = k], UNCHANGED request,
         k # Off => Fits(k, request[k.target]) \/ request[k.target].holder # x
  PROVE  RequestInvariant'
BY DEF RequestInvariant, ExecutorOK, Owns, Fits

\* A step that changes one request, and the executor x at most.  Another
\* executor keeps what it knows, or is not the holder.
LEMMA RequestMoves ==
  ASSUME RequestInvariant, NEW x \in Executor, NEW k \in ExecutorState,
         NEW t \in Target, NEW row \in Request,
         request' = [request EXCEPT ![t] = row],
         executor' = [executor EXCEPT ![x] = k], Idle(row),
         \/ row.holder \in {x, NoOne}
         \/ /\ row.holder = request[t].holder
            /\ row.stage = request[t].stage
            /\ row.frozen = request[t].frozen,
         k # Off => k.target = t /\ (Fits(k, row) \/ row.holder # x)
  PROVE  RequestInvariant'
<1> USE DEF RequestInvariant
<1>1. /\ request' \in [Target -> Request] /\ executor' \in [Executor -> ExecutorState]
      /\ request'[t] = row /\ executor'[x] = k
      /\ \A u \in Target \ {t} : request'[u] = request[u]
      /\ \A y \in Executor \ {x} : executor'[y] = executor[y]
  OBVIOUS
<1>2. \A u \in Target : Idle(request'[u])
  BY <1>1
<1>3. ASSUME NEW y \in Executor, executor'[y] # Off, Owns(y)'
      PROVE  Fits(executor'[y], request'[executor'[y].target])
  <2>1. CASE y = x
    BY <1>1, <1>3, <2>1 DEF Owns
  <2>2. CASE y # x
    <3>1. /\ executor'[y] = executor[y] /\ executor[y] # Off
          /\ executor[y].target \in Target /\ y # NoOne
      BY <1>1, <1>3, <2>2, ExecutorShape
    <3>2. CASE executor[y].target = t
      BY <1>1, <1>3, <2>2, <3>1, <3>2 DEF ExecutorOK, Owns, Fits
    <3>3. CASE executor[y].target # t
      BY <1>1, <1>3, <3>1, <3>3 DEF ExecutorOK, Owns
    <3> QED
      BY <3>2, <3>3
  <2> QED
    BY <2>1, <2>2
<1>4. \A y \in Executor : ExecutorOK(y)'
  BY <1>3 DEF ExecutorOK
<1> QED
  BY <1>1, <1>2, <1>4

\* The same, when no executor moves.
LEMMA RowMoves ==
  ASSUME RequestInvariant, NEW t \in Target, NEW row \in Request,
         request' = [request EXCEPT ![t] = row], UNCHANGED executor, Idle(row),
         \/ row.holder = NoOne
         \/ /\ row.holder = request[t].holder
            /\ row.stage = request[t].stage
            /\ row.frozen = request[t].frozen
  PROVE  RequestInvariant'
<1> USE DEF RequestInvariant
<1>1. /\ request' \in [Target -> Request] /\ executor' \in [Executor -> ExecutorState]
      /\ request'[t] = row
      /\ \A u \in Target \ {t} : request'[u] = request[u]
  OBVIOUS
<1>2. \A u \in Target : Idle(request'[u])
  BY <1>1
<1>3. ASSUME NEW y \in Executor, executor[y] # Off, Owns(y)'
      PROVE  Fits(executor[y], request'[executor[y].target])
  <2>1. executor[y].target \in Target /\ y # NoOne
    BY <1>1, <1>3, ExecutorShape
  <2>2. CASE executor[y].target = t
    BY <1>1, <1>3, <2>1, <2>2 DEF ExecutorOK, Owns, Fits
  <2>3. CASE executor[y].target # t
    BY <1>1, <1>3, <2>1, <2>3 DEF ExecutorOK, Owns
  <2> QED
    BY <2>2, <2>3
<1>4. \A y \in Executor : ExecutorOK(y)'
  BY <1>3 DEF ExecutorOK
<1> QED
  BY <1>1, <1>2, <1>4

\* What an executor that is at a stage knows.
LEMMA ExecutorAt ==
  ASSUME RequestInvariant, NEW x \in Executor, executor[x].pc # "idle"
  PROVE  /\ executor[x] \in ExecutorRecord /\ executor[x] # Off
         /\ executor[x].target \in Target /\ executor[x].frozen \subseteq Subject
         /\ request[executor[x].target] \in Request
         /\ request[executor[x].target].frozen \subseteq Subject
         /\ Owns(x) => Fits(executor[x], request[executor[x].target])
                       /\ request[executor[x].target].stage \notin {"none", "completed"}
<1>1. executor[x] \in ExecutorState /\ executor[x] # Off
  BY DEF RequestInvariant, Off
<1>2. /\ executor[x] \in ExecutorRecord /\ executor[x].target \in Target
      /\ executor[x].frozen \subseteq Subject
  BY <1>1, ExecutorShape
<1>3. request[executor[x].target] \in Request /\ Idle(request[executor[x].target])
      /\ ExecutorOK(x)
  BY <1>2 DEF RequestInvariant
<1> QED
  BY <1>1, <1>2, <1>3, RequestShape DEF ExecutorOK, Idle, Owns

LEMMA ClaimStep ==
  ASSUME RequestInvariant, NEW x \in Executor, NEW t \in Target, Claim(x, t)
  PROVE  RequestInvariant'
<1>1. request[t] \in Request /\ request[t].attempts \in 0..MaxAttempts
      /\ request[t].attempts < MaxAttempts
      /\ request[t].stage \notin {"none", "completed"}
  BY RequestShape DEF RequestInvariant, Claim, Claimable
<1> PICK n \in 0..MaxAttempts : n = request[t].attempts + 1
  BY <1>1
<1> PICK row : row = [request[t] EXCEPT !.holder = x, !.leased = TRUE, !.attempts = n]
  OBVIOUS
<1> PICK k : k = [pc |-> "load", target |-> t, frozen |-> {}]
  OBVIOUS
<1>2. row \in Request /\ row.holder = x /\ row.stage = request[t].stage
  BY <1>1 DEF Request
<1>3. k \in ExecutorRecord /\ k.pc = "load" /\ k.target = t
  BY DEF ExecutorRecord
<1>4. request' = [request EXCEPT ![t] = row] /\ executor' = [executor EXCEPT ![x] = k]
  BY <1>1 DEF Claim, RequestInvariant, Request
<1>5. k \in ExecutorState /\ Fits(k, row) /\ Idle(row)
  BY <1>1, <1>2, <1>3, ExecutorForms DEF Fits, Idle
<1> QED
  BY <1>2, <1>3, <1>4, <1>5, RequestMoves

LEMMA LoadStep ==
  ASSUME RequestInvariant, NEW x \in Executor, Load(x)
  PROVE  RequestInvariant'
<1>1. executor[x].pc = "load" /\ UNCHANGED request
  BY DEF Load
<1> PICK row : row = request[executor[x].target]
  OBVIOUS
<1>2. CASE Owns(x)
  <2>1. /\ executor[x] \in ExecutorRecord /\ executor[x].target \in Target
        /\ row.frozen \in SUBSET Subject
        /\ row.stage \in Stage \ {"none", "completed"}
    BY <1>1, <1>2, ExecutorAt, RequestShape
  <2>2. /\ row.stage = "requested" => Resume(row.stage) = "revoke"
        /\ row.stage = "credentials_revoked" => Resume(row.stage) = "delete"
        /\ row.stage = "primary_deleted" => Resume(row.stage) = "verify"
        /\ row.stage \in {"requested", "credentials_revoked", "primary_deleted"}
    BY <2>1 DEF Stage, Resume
  <2> PICK k : k = [executor[x] EXCEPT !.pc = Resume(row.stage), !.frozen = row.frozen]
    OBVIOUS
  <2>3. k \in ExecutorRecord /\ k.pc = Resume(row.stage) /\ k.frozen = row.frozen
        /\ k.target = executor[x].target
    BY <2>1, <2>2 DEF ExecutorRecord
  <2>4. executor' = [executor EXCEPT ![x] = k]
    BY <1>2, <2>1 DEF Load, RequestInvariant, ExecutorRecord
  <2>5. Fits(k, request[k.target])
    BY <2>2, <2>3 DEF Fits
  <2> QED
    BY <1>1, <2>3, <2>4, <2>5, ExecutorForms, ExecutorMoves
<1>3. CASE ~Owns(x)
  BY <1>1, <1>3, ExecutorForms, ExecutorMoves DEF Load
<1> QED
  BY <1>2, <1>3

\* Steps after which an executor stops, fails or defers.
LEMMA TurnStep ==
  ASSUME RequestInvariant, NEW x \in Executor, UNCHANGED request,
         executor[x].pc # "idle",
         \/ executor' = [executor EXCEPT ![x] = Off]
         \/ Turn(x, "fail")
         \/ Turn(x, "defer")
         \/ executor[x].pc = "verify" /\ Turn(x, "complete")
  PROVE  RequestInvariant'
<1>1. CASE executor' = [executor EXCEPT ![x] = Off]
  BY <1>1, ExecutorForms, ExecutorMoves
<1>2. ASSUME NEW pc \in {"fail", "defer", "complete"}, Turn(x, pc),
             pc = "complete" => executor[x].pc = "verify"
      PROVE  RequestInvariant'
  <2>1. /\ executor[x] \in ExecutorRecord
        /\ Owns(x) => Fits(executor[x], request[executor[x].target])
    BY ExecutorAt
  <2> PICK k : k = [executor[x] EXCEPT !.pc = pc]
    OBVIOUS
  <2>2. k \in ExecutorRecord /\ k.pc = pc /\ k.target = executor[x].target
        /\ k.frozen = executor[x].frozen
    BY <2>1 DEF ExecutorRecord
  <2>3. executor' = [executor EXCEPT ![x] = k]
    BY <1>2, <2>1 DEF Turn, RequestInvariant, ExecutorRecord
  <2>4. Fits(k, request[k.target]) \/ request[k.target].holder # x
    BY <1>2, <2>1, <2>2 DEF Fits, Owns
  <2> QED
    BY <2>2, <2>3, <2>4, ExecutorForms, ExecutorMoves
<1> QED
  BY <1>1, <1>2

\* A run ends: completed, failed or deferred, the claim is given up.
LEMMA RunEnds ==
  ASSUME RequestInvariant, NEW x \in Executor, executor[x].pc # "idle",
         executor' = [executor EXCEPT ![x] = Off],
         NEW row \in Request, row.holder = NoOne, ~row.leased,
         request' = [request EXCEPT ![executor[x].target] = row]
  PROVE  RequestInvariant'
<1>1. executor[x].target \in Target /\ Idle(row)
  BY ExecutorAt DEF Idle
<1> QED
  BY <1>1, ExecutorForms, RequestMoves

LEMMA CompleteStep ==
  ASSUME RequestInvariant, NEW x \in Executor, CompleteDeletion(x)
  PROVE  RequestInvariant'
<1>1. executor[x].pc # "idle" /\ request[executor[x].target] \in Request
      /\ executor[x].target \in Target
  BY ExecutorAt DEF CompleteDeletion
<1>2. CASE Turn(x, "fail") /\ UNCHANGED request
  BY <1>1, <1>2, TurnStep
<1>3. CASE /\ request' = [request EXCEPT ![executor[x].target] = Finished(executor[x].target)]
           /\ executor' = [executor EXCEPT ![x] = Off]
  <2> PICK row : row = Finished(executor[x].target)
    OBVIOUS
  <2>1. row \in Request /\ row.holder = NoOne /\ ~row.leased
    BY <1>1 DEF Finished, Request, Stage
  <2> QED
    BY <1>1, <1>3, <2>1, RunEnds
<1> QED
  BY <1>2, <1>3, Zenon DEF CompleteDeletion

LEMMA FailStep ==
  ASSUME RequestInvariant, NEW x \in Executor,
         FailDeletion(x) \/ DeferDeletionForLegalHold(x)
  PROVE  RequestInvariant'
<1>1. executor[x].pc # "idle" /\ request[executor[x].target] \in Request
      /\ executor[x].target \in Target
  BY ExecutorAt DEF FailDeletion, DeferDeletionForLegalHold
<1>2. request[executor[x].target].attempts \in 0..MaxAttempts
  BY <1>1, RequestShape
<1> PICK n \in 0..MaxAttempts : n = GivenBack(request[executor[x].target].attempts)
  BY <1>2 DEF GivenBack
<1> PICK row : row = Unclaimed(executor[x].target)
  OBVIOUS
<1>3. row \in Request /\ row.holder = NoOne /\ ~row.leased
  BY <1>1 DEF Unclaimed, Request
<1> PICK back : back = [row EXCEPT !.attempts = n]
  OBVIOUS
<1>4. back \in Request /\ back.holder = NoOne /\ ~back.leased
  BY <1>3 DEF Request
<1>5. /\ executor' = [executor EXCEPT ![x] = Off]
      /\ \/ request' = [request EXCEPT ![executor[x].target] = row]
         \/ request' = [request EXCEPT ![executor[x].target] = back]
  BY DEF FailDeletion, DeferDeletionForLegalHold
<1> QED
  BY <1>1, <1>3, <1>4, <1>5, RunEnds

LEMMA DeletionLeaseExpiresStep ==
  ASSUME RequestInvariant, NEW t \in Target, DeletionLeaseExpires(t)
  PROVE  RequestInvariant'
<1>1. request[t] \in Request /\ Idle(request[t])
  BY DEF RequestInvariant
<1> PICK row : row = [request[t] EXCEPT !.leased = FALSE]
  OBVIOUS
<1>2. row \in Request /\ Idle(row) /\ row.holder = request[t].holder
      /\ row.stage = request[t].stage /\ row.frozen = request[t].frozen
  BY <1>1 DEF Request, Idle
<1>3. request' = [request EXCEPT ![t] = row] /\ UNCHANGED executor
  BY <1>1 DEF DeletionLeaseExpires, RequestInvariant, Request
<1> QED
  BY <1>2, <1>3, RowMoves

LEMMA AskStep ==
  ASSUME RequestInvariant, NEW t \in Target, Ask(t)
  PROVE  RequestInvariant'
<1>1. request[t] \in Request /\ request[t].holder = NoOne /\ ~request[t].leased
  BY DEF RequestInvariant, Ask, Idle
<1> PICK row : row = [request[t] EXCEPT !.stage = "requested"]
  OBVIOUS
<1>2. row \in Request /\ Idle(row) /\ row.holder = NoOne
  BY <1>1 DEF Request, Idle, Stage
<1>3. request' = [request EXCEPT ![t] = row] /\ UNCHANGED executor
  BY <1>1 DEF Ask, RequestInvariant, Request
<1> QED
  BY <1>2, <1>3, RowMoves

\* A stage is done: the request and its holder go to the next one.
Advance(x) ==
  \E k \in ExecutorState, row \in Request :
    /\ request' = [request EXCEPT ![executor[x].target] = row]
    /\ executor' = [executor EXCEPT ![x] = k]
    /\ Idle(row) /\ row.holder \in {x, NoOne}
    /\ k.target = executor[x].target /\ Fits(k, row)

LEMMA StageForm ==
  ASSUME RequestInvariant, NEW x \in Executor, executor[x].pc # "idle", Owns(x),
         NEW stage \in {"credentials_revoked", "primary_deleted"},
         NEW scope \in SUBSET Subject,
         request' = [request EXCEPT ![executor[x].target].stage = stage,
                                    ![executor[x].target].frozen = scope],
         executor' = [executor EXCEPT
           ![x].pc = IF stage = "credentials_revoked" THEN "delete" ELSE "verify",
           ![x].frozen = scope]
  PROVE  Advance(x)
<1> PICK t : t = executor[x].target
  OBVIOUS
<1>1. /\ t \in Target /\ request[t] \in Request /\ request[t].holder = x
      /\ executor[x] \in ExecutorRecord
  BY ExecutorAt DEF Owns
<1> PICK pc : pc = IF stage = "credentials_revoked" THEN "delete" ELSE "verify"
  OBVIOUS
<1> PICK row : row = [request[t] EXCEPT !.stage = stage, !.frozen = scope]
  OBVIOUS
<1> PICK k : k = [executor[x] EXCEPT !.pc = pc, !.frozen = scope]
  OBVIOUS
<1>2. row \in Request /\ row.holder = x /\ row.stage = stage /\ row.frozen = scope
  BY <1>1 DEF Request, Stage
<1>3. k \in ExecutorRecord /\ k.pc = pc /\ k.frozen = scope /\ k.target = t
  BY <1>1 DEF ExecutorRecord
<1>4. request' = [request EXCEPT ![t] = row]
  BY <1>1 DEF RequestInvariant, Request
<1>5. executor' = [executor EXCEPT ![x] = k]
  BY <1>1 DEF RequestInvariant, ExecutorRecord
<1>6. Fits(k, row) /\ Idle(row)
  BY <1>2, <1>3 DEF Fits, Idle
<1>7. k \in ExecutorState /\ row.holder \in {x, NoOne}
  BY <1>2, <1>3, ExecutorForms
<1> QED
  BY <1>2, <1>3, <1>4, <1>5, <1>6, <1>7, Zenon DEF Advance

LEMMA StageStep ==
  ASSUME RequestInvariant, NEW x \in Executor, executor[x].pc # "idle", Advance(x)
  PROVE  RequestInvariant'
<1>1. executor[x].target \in Target
  BY ExecutorAt
<1>2. PICK k \in ExecutorState, row \in Request :
        /\ request' = [request EXCEPT ![executor[x].target] = row]
        /\ executor' = [executor EXCEPT ![x] = k]
        /\ Idle(row) /\ row.holder \in {x, NoOne}
        /\ k.target = executor[x].target /\ Fits(k, row)
  BY Zenon DEF Advance
<1> QED
  BY <1>1, <1>2, RequestMoves

LEMMA FrozenScopeType ==
  ASSUME RequestInvariant, NEW x \in Executor, executor[x].pc # "idle"
  PROVE  FrozenScope(x) \in SUBSET Subject
<1>1. executor[x].target \in Target
  BY ExecutorAt
<1> QED
  BY <1>1 DEF FrozenScope

LEMMA RevokeStep ==
  ASSUME RequestInvariant, NEW x \in Executor, RevokeDeletionCredentials(x)
  PROVE  RequestInvariant'
<1>1. executor[x].pc # "idle" /\ Owns(x)
  BY DEF RevokeDeletionCredentials, Leased
<1>2. FrozenScope(x) \in SUBSET Subject
  BY <1>1, FrozenScopeType
<1>3. /\ request' = [request EXCEPT ![executor[x].target].stage = "credentials_revoked",
                                    ![executor[x].target].frozen = FrozenScope(x)]
      /\ executor' = [executor EXCEPT ![x].pc = "delete", ![x].frozen = FrozenScope(x)]
  BY DEF RevokeDeletionCredentials
<1> QED
  BY <1>1, <1>2, <1>3, StageForm, StageStep

LEMMA DeleteStep ==
  ASSUME RequestInvariant, NEW x \in Executor, DeletePrimaryData(x)
  PROVE  RequestInvariant'
<1> PICK scope : scope = executor[x].frozen
  OBVIOUS
<1>1. executor[x].pc # "idle" /\ Owns(x)
  BY DEF DeletePrimaryData, Leased
<1>2. scope \in SUBSET Subject /\ executor[x] \in ExecutorRecord
      /\ executor \in [Executor -> ExecutorState]
  BY <1>1, ExecutorAt DEF RequestInvariant
<1>3. /\ request' = [request EXCEPT ![executor[x].target].stage = "primary_deleted",
                                    ![executor[x].target].frozen = scope]
      /\ executor' = [executor EXCEPT ![x].pc = "verify"]
  BY DEF DeletePrimaryData
<1>4. executor' = [executor EXCEPT ![x].pc = "verify", ![x].frozen = scope]
  BY <1>2, <1>3 DEF ExecutorRecord
<1> QED
  BY <1>1, <1>2, <1>3, <1>4, StageForm, StageStep

-----------------------------------------------------------------------------
(***************************************************************************)
(* The account, and the scopes of what deletes it.  What late writers may  *)
(* do rests on three facts: a subject of a locked scope was there, so that *)
(* nobody can create it; what is not there references nothing; and who is  *)
(* gone owns nothing.                                                      *)
(***************************************************************************)

AccountTypes ==
  /\ events \in 0..MaxEvents
  /\ user \in {"active", "pending", "gone"}
  /\ session \in BOOLEAN
  /\ tombstone \in BOOLEAN
  /\ subject \in [Subject -> {"none", "public", "owned", "orphan", "deleted"}]
  /\ content \in [Subject -> {"none", "some", "token"}]
  /\ state \in [Subject -> {"none", "open", "used"}]
  /\ writer \in Writing
  /\ refreshing \subseteq Subject
  /\ hold \subseteq Target
  /\ setback \subseteq Target \X {"requested", "primary_deleted"}
  /\ owed \subseteq Subject

AccountSafe ==
  /\ LockedOut
  /\ GoneIsTombstoned
  /\ \A s \in Subject : subject[s] = "orphan" => user = "gone"
  /\ \A s \in Subject : content[s] # "none" => Exists(s)

PastLock(t) == request[t].stage \notin {"none", "requested"}

IsErased(t) == request[t].stage \in {"primary_deleted", "completed"}

ScopeOK(t) ==
  /\ PastLock(t) => \A s \in request[t].frozen : subject[s] # "none"
  /\ PastLock(t) /\ t # Account => request[t].frozen = {t}

GoneOK ==
  /\ user = "gone" <=> Account \in Target /\ IsErased(Account)
  /\ user = "gone" =>
       /\ \A s \in Subject : subject[s] # "owned"
       /\ \A s \in request[Account].frozen : subject[s] \in {"deleted", "public"}

AccountInvariant ==
  /\ AccountTypes
  /\ AccountSafe
  /\ \A t \in Target : ScopeOK(t)
  /\ GoneOK

DeletionInvariant == QueueInvariant /\ RequestInvariant /\ AccountInvariant

LEMMA InitDeletionInvariant == Init => DeletionInvariant
<1> SUFFICES ASSUME Init PROVE DeletionInvariant
  OBVIOUS
<1>1. QueueInvariant
  BY InitQueueInvariant DEF Init
<1>2. NoRequest \in Request /\ NoRequest.stage = "none" /\ NoRequest.holder = NoOne
      /\ ~NoRequest.leased
  BY DEF NoRequest, Request, Stage
<1>3. RequestInvariant
  BY <1>2, ExecutorForms DEF Init, RequestInvariant, ExecutorOK, Idle
<1>4. \A t \in Target : request[t].stage = "none"
  BY <1>2 DEF Init
<1>5. AccountTypes
  <2>1. content \in [Subject -> {"none", "some", "token"}]
    <3>1. content \in [Subject -> {"none", "token"}]
      BY DEF Init
    <3> QED
      BY <3>1
  <2>2. subject \in [Subject -> {"none", "public", "owned", "orphan", "deleted"}]
    <3>1. subject \in [Subject -> {"none", "public", "owned"}]
      BY DEF Init
    <3> QED
      BY <3>1
  <2>3. state \in [Subject -> {"none", "open", "used"}] /\ writer \in Writing
    BY DEF Init, Writing
  <2>4. /\ events \in 0..MaxEvents /\ user = "active" /\ session \in BOOLEAN
        /\ tombstone = FALSE /\ refreshing = {} /\ hold = {} /\ setback = {} /\ owed = {}
    BY DEF Init
  <2> QED
    BY <2>1, <2>2, <2>3, <2>4 DEF AccountTypes
<1>6. AccountSafe
  <2>1. \A s \in Subject : subject[s] \in {"none", "public", "owned"}
    BY DEF Init
  <2> QED
    BY <2>1 DEF Init, AccountSafe, LockedOut, GoneIsTombstoned, Exists
<1>7. (\A t \in Target : ScopeOK(t)) /\ GoneOK
  BY <1>4 DEF Init, ScopeOK, GoneOK, PastLock, IsErased
<1> QED
  BY <1>1, <1>3, <1>5, <1>6, <1>7 DEF DeletionInvariant, AccountInvariant

LEMMA WritingShape ==
  ASSUME NEW op \in Writing
  PROVE  /\ op.op \in {"none", "sign_in", "create", "link", "state", "store"}
         /\ op.op \in {"create", "link", "state", "store"} =>
              /\ op \in [op : {"create", "link", "state", "store"}, subject : Subject]
              /\ op.subject \in Subject
BY DEF Writing, Quiet

LEMMA WritingForms ==
  /\ Quiet \in Writing /\ Quiet.op = "none"
  /\ \A s \in Subject : [op |-> "store", subject |-> s] \in Writing
  /\ \A op \in [op : {"create", "link", "state", "store"}, subject : Subject] : op \in Writing
BY DEF Writing, Quiet

LEMMA EventType ==
  ASSUME events \in 0..MaxEvents, Event \/ UNCHANGED events
  PROVE  events' \in 0..MaxEvents
BY DEF Event

\* What decides about the account is left, and no request moves over a
\* deletion.
LEMMA SameAccount ==
  ASSUME AccountInvariant, AccountTypes',
         UNCHANGED <<user, session, tombstone, subject, content>>,
         \A t \in Target : /\ request'[t].frozen = request[t].frozen
                           /\ PastLock(t)' => PastLock(t)
                           /\ IsErased(t)' <=> IsErased(t)
  PROVE  AccountInvariant'
<1> USE DEF AccountInvariant
<1>1. AccountSafe'
  BY DEF AccountSafe, LockedOut, GoneIsTombstoned, Exists
<1>2. \A t \in Target : ScopeOK(t)'
  BY DEF ScopeOK
<1>3. GoneOK'
  BY DEF GoneOK
<1> QED
  BY <1>1, <1>2, <1>3

\* A subject is created where there is a row of nobody, or none: it was in no
\* scope that is locked, or it is owned by somebody who is not gone.
LEMMA CreateSubjectStep ==
  ASSUME RequestInvariant, AccountInvariant, CreateSubject
  PROVE  AccountInvariant'
<1> USE DEF AccountInvariant
<1>1. writer.subject \in Subject
  BY WritingShape DEF CreateSubject, AccountTypes
<1>2. AccountTypes'
  BY <1>1, WritingForms DEF CreateSubject, AccountTypes, observed
<1>3. /\ UNCHANGED <<request, user, session, tombstone, content>>
      /\ \A s \in Subject : subject'[s] = subject[s] \/ (user # "gone" /\ subject'[s] = "owned")
  BY <1>1 DEF CreateSubject, AccountTypes
<1>4. AccountSafe'
  BY <1>3 DEF AccountSafe, LockedOut, GoneIsTombstoned, Exists
<1>5. ASSUME NEW t \in Target PROVE ScopeOK(t)'
  <2>1. request[t].frozen \subseteq Subject
    BY RequestShape DEF RequestInvariant
  <2> QED
    BY <1>3, <2>1 DEF ScopeOK, PastLock
<1>6. GoneOK'
  <2>1. CASE user = "gone"
    <3>1. UNCHANGED subject
      BY <2>1 DEF CreateSubject
    <3> QED
      BY <1>3, <3>1 DEF GoneOK, IsErased
  <2>2. CASE user # "gone"
    BY <1>3, <2>2 DEF GoneOK, IsErased
  <2> QED
    BY <2>1, <2>2
<1> QED
  BY <1>2, <1>4, <1>5, <1>6

\* A refresh puts back a row of nobody, where there is none.
LEMMA ReplaceFactsStep ==
  ASSUME RequestInvariant, AccountInvariant, NEW s \in Subject, ReplaceFacts(s)
  PROVE  AccountInvariant'
<1> USE DEF AccountInvariant
<1>1. ASSUME NEW o \in Subject
      PROVE  subject'[o] = subject[o] \/ (~Exists(o) /\ subject'[o] = "public")
  BY DEF ReplaceFacts, EnsurePublicSubject, AccountTypes
<1>2. /\ UNCHANGED <<request, user, session, tombstone, content, state, writer, hold, observed>>
      /\ UNCHANGED events /\ refreshing' \subseteq Subject
  BY DEF ReplaceFacts, AccountTypes
<1>3. AccountTypes'
  <2>1. subject' \in [Subject -> {"none", "public", "owned", "orphan", "deleted"}]
    BY DEF ReplaceFacts, EnsurePublicSubject, AccountTypes
  <2> QED
    BY <1>2, <2>1 DEF AccountTypes, observed
<1>4. AccountSafe'
  BY <1>1, <1>2 DEF AccountSafe, LockedOut, GoneIsTombstoned, Exists
<1>5. ASSUME NEW t \in Target PROVE request[t].frozen \subseteq Subject
  BY RequestShape DEF RequestInvariant
<1>6. \A t \in Target : ScopeOK(t)'
  BY <1>1, <1>2, <1>5 DEF ScopeOK, PastLock
<1>7. GoneOK'
  <2>1. \A o \in Subject : /\ subject[o] # "owned" => subject'[o] # "owned"
                           /\ subject[o] \in {"deleted", "public"} =>
                                subject'[o] \in {"deleted", "public"}
    BY <1>1
  <2> QED
    BY <1>2, <1>5, <2>1 DEF GoneOK, IsErased
<1> QED
  BY <1>3, <1>4, <1>6, <1>7

\* What references a subject is added where the subject is.
LEMMA ContentStep ==
  ASSUME AccountInvariant, Link \/ StoreToken
  PROVE  AccountInvariant'
<1> USE DEF AccountInvariant
<1>1. writer.subject \in Subject
  BY WritingShape DEF Link, StoreToken, AccountTypes
<1>2. AccountTypes'
  BY <1>1, WritingForms DEF Link, StoreToken, AccountTypes, observed
<1>3. /\ UNCHANGED <<request, user, session, tombstone, subject>>
      /\ \A s \in Subject : content'[s] # "none" => content[s] # "none" \/ Exists(s)
  BY <1>1 DEF Link, StoreToken, AccountTypes
<1>4. AccountSafe'
  BY <1>3 DEF AccountSafe, LockedOut, GoneIsTombstoned, Exists
<1>5. (\A t \in Target : ScopeOK(t)') /\ GoneOK'
  BY <1>3 DEF ScopeOK, GoneOK, PastLock, IsErased
<1> QED
  BY <1>2, <1>4, <1>5

\* Steps of users and readers leave the requests.
LEMMA UseAccountStep ==
  ASSUME RequestInvariant, AccountInvariant, UseAccount
  PROVE  AccountInvariant'
<1>1. UNCHANGED request
  BY DEF UseAccount, Admit, SignIn, CreateSubject, PutState, Link, StoreToken, ConsumeState,
     StartRefresh, ReplaceFacts
<1>2. CASE SignIn
  <2>1. AccountTypes'
    BY <1>2, WritingForms
       DEF SignIn, InsertActiveSession, AccountInvariant, AccountTypes, observed
  <2>2. AccountSafe'
    BY <1>2 DEF SignIn, InsertActiveSession, AccountInvariant, AccountTypes, AccountSafe,
       LockedOut, GoneIsTombstoned, Exists
  <2>3. (\A t \in Target : ScopeOK(t)') /\ GoneOK'
    BY <1>1, <1>2 DEF SignIn, AccountInvariant, ScopeOK, GoneOK, PastLock, IsErased
  <2> QED
    BY <2>1, <2>2, <2>3 DEF AccountInvariant
<1>3. ASSUME UNCHANGED <<user, session, tombstone, subject, content>>, AccountTypes'
      PROVE  AccountInvariant'
  BY <1>1, <1>3, SameAccount DEF PastLock, IsErased
<1>4. ASSUME NEW op \in Writing, Admit(op) PROVE AccountInvariant'
  <2>1. AccountTypes'
    BY <1>4, EventType DEF Admit, AccountInvariant, AccountTypes, accountVars, observed
  <2> QED
    BY <1>3, <1>4, <2>1 DEF Admit, accountVars
<1>5. CASE PutState
  <2>1. writer \in [op : {"create", "link", "state", "store"}, subject : Subject]
    BY <1>5, WritingShape DEF PutState, AccountInvariant, AccountTypes
  <2>2. [writer EXCEPT !.op = "state"] \in Writing
    BY <2>1, WritingForms
  <2>3. AccountTypes'
    BY <1>5, <2>1, <2>2 DEF PutState, AccountInvariant, AccountTypes, observed
  <2> QED
    BY <1>3, <1>5, <2>3 DEF PutState
<1>6. ASSUME NEW s \in Subject, ConsumeState(s) PROVE AccountInvariant'
  <2>1. AccountTypes'
    BY <1>6, WritingForms DEF ConsumeState, AccountInvariant, AccountTypes, observed
  <2> QED
    BY <1>3, <1>6, <2>1 DEF ConsumeState
<1>7. ASSUME NEW s \in Subject, StartRefresh(s) PROVE AccountInvariant'
  <2>1. AccountTypes'
    BY <1>7, EventType DEF StartRefresh, AccountInvariant, AccountTypes, accountVars, observed
  <2> QED
    BY <1>3, <1>7, <2>1 DEF StartRefresh, accountVars
<1> QED
  BY <1>2, <1>4, <1>5, <1>6, <1>7, CreateSubjectStep, ReplaceFactsStep, ContentStep
     DEF UseAccount

LEMMA RetainStep ==
  ASSUME AccountInvariant, Retain
  PROVE  AccountInvariant'
<1> USE DEF AccountInvariant
<1>1. UNCHANGED <<request, subject, content, user, session, clientVars>>
  BY DEF Retain, PurgeTombstone, PurgeState
<1>2. AccountTypes'
  <2>1. CASE PurgeTombstone
    BY <2>1 DEF PurgeTombstone, AccountTypes, clientVars, observed
  <2>2. CASE \E s \in Subject : PurgeState(s)
    BY <2>2 DEF PurgeState, AccountTypes, clientVars, observed
  <2> QED
    BY <2>1, <2>2 DEF Retain
<1>3. AccountSafe'
  BY <1>1 DEF Retain, PurgeTombstone, PurgeState, AccountSafe, LockedOut, GoneIsTombstoned,
     Exists
<1>4. (\A t \in Target : ScopeOK(t)') /\ GoneOK'
  BY <1>1 DEF ScopeOK, GoneOK, PastLock, IsErased
<1> QED
  BY <1>2, <1>3, <1>4

StagesKept ==
  \A t \in Target : /\ request'[t].frozen = request[t].frozen
                    /\ request'[t].stage = request[t].stage

Confirmed(t) ==
  /\ request[t].stage = "primary_deleted" /\ request'[t].stage = "completed"
  /\ request'[t].frozen = request[t].frozen
  /\ \A u \in Target \ {t} : request'[u] = request[u]

LEMMA OneRow ==
  ASSUME RequestInvariant, NEW t \in Target, NEW row,
         request' = [request EXCEPT ![t] = row],
         row.frozen = request[t].frozen,
         \/ row.stage = request[t].stage
         \/ row.stage = "completed" /\ request[t].stage = "primary_deleted"
  PROVE  StagesKept \/ Confirmed(t)
BY DEF StagesKept, Confirmed, RequestInvariant

\* Steps of requests and executors that leave the data.
Bookkeeping(x) ==
  \/ \E t \in Target : Claim(x, t)
  \/ Load(x) \/ LeaseLost(x) \/ HitHold(x) \/ NotFound(x) \/ VerifyDeletion(x)
  \/ CompleteDeletion(x) \/ FailDeletion(x) \/ DeferDeletionForLegalHold(x)
  \/ ExecutorFault(x)

LEMMA BookkeepingStages ==
  ASSUME RequestInvariant, NEW x \in Executor, Bookkeeping(x)
  PROVE  StagesKept \/ \E t \in Target : Confirmed(t)
<1>1. CASE \E t \in Target : Claim(x, t)
  <2>1. PICK t \in Target : Claim(x, t)
    BY <1>1
  <2>2. request[t] \in Request /\ request \in [Target -> Request]
    BY DEF RequestInvariant
  <2>3. \A u \in Target : request'[u].frozen = request[u].frozen
                          /\ request'[u].stage = request[u].stage
    BY <2>1, <2>2 DEF Claim, Request
  <2> QED
    BY <2>3 DEF StagesKept
<1>2. CASE UNCHANGED request
  BY <1>2 DEF StagesKept
<1> PICK t : t = executor[x].target
  OBVIOUS
<1>3. CASE CompleteDeletion(x)
  <2>1. /\ t \in Target /\ request[t] \in Request
        /\ request[t].stage = "primary_deleted"
    BY <1>3, ExecutorAt DEF CompleteDeletion, Leased, Fits
  <2> PICK row : row = Finished(t)
    OBVIOUS
  <2>2. row.frozen = request[t].frozen /\ row.stage = "completed"
    BY <2>1 DEF Finished, Request
  <2>3. UNCHANGED request \/ request' = [request EXCEPT ![t] = row]
    BY <1>3, Zenon DEF CompleteDeletion
  <2> QED
    BY <1>2, <2>1, <2>2, <2>3, OneRow
<1>4. CASE FailDeletion(x) \/ DeferDeletionForLegalHold(x)
  <2>1. t \in Target /\ request[t] \in Request
    BY <1>4, ExecutorAt DEF FailDeletion, DeferDeletionForLegalHold
  <2> PICK row : row = Unclaimed(t)
    OBVIOUS
  <2> PICK back : back = [row EXCEPT !.attempts = GivenBack(request[t].attempts)]
    OBVIOUS
  <2>2. row.frozen = request[t].frozen /\ row.stage = request[t].stage
        /\ back.frozen = row.frozen /\ back.stage = row.stage
    BY <2>1 DEF Unclaimed, Request
  <2>3. \/ request' = [request EXCEPT ![t] = row]
        \/ request' = [request EXCEPT ![t] = back]
    BY <1>4 DEF FailDeletion, DeferDeletionForLegalHold
  <2> QED
    BY <2>1, <2>2, <2>3, OneRow
<1>5. CASE \/ Load(x) \/ LeaseLost(x) \/ HitHold(x) \/ NotFound(x)
           \/ VerifyDeletion(x) \/ ExecutorFault(x)
  BY <1>2, <1>5 DEF Load, LeaseLost, HitHold, NotFound, VerifyDeletion, ExecutorFault
<1> QED
  BY <1>1, <1>3, <1>4, <1>5 DEF Bookkeeping

\* With the requests and executors, and nothing else.
LEMMA BookkeepingStep ==
  ASSUME RequestInvariant, AccountInvariant, NEW x \in Executor, Bookkeeping(x)
  PROVE  RequestInvariant' /\ AccountInvariant'
         /\ UNCHANGED <<accountVars, clientVars, queueVars>>
<1>1. UNCHANGED <<accountVars, clientVars, hold, owed, queueVars>>
  BY DEF Bookkeeping, Claim, Load, LeaseLost, HitHold, NotFound, VerifyDeletion,
     CompleteDeletion, FailDeletion, DeferDeletionForLegalHold, ExecutorFault, observed
<1>2. Event \/ UNCHANGED events
  BY DEF Bookkeeping, Claim, Load, LeaseLost, HitHold, NotFound, VerifyDeletion,
     CompleteDeletion, FailDeletion, DeferDeletionForLegalHold, ExecutorFault
<1>3. setback' \subseteq Target \X {"requested", "primary_deleted"}
  <2>1. CASE NotFound(x) \/ VerifyDeletion(x)
    <3>1. executor[x].target \in Target
      BY <2>1, ExecutorAt DEF NotFound, VerifyDeletion
    <3> QED
      BY <2>1, <3>1 DEF NotFound, VerifyDeletion, AccountInvariant, AccountTypes
  <2>2. CASE ~(NotFound(x) \/ VerifyDeletion(x))
    BY <2>2 DEF Bookkeeping, Claim, Load, LeaseLost, HitHold,
       CompleteDeletion, FailDeletion, DeferDeletionForLegalHold, ExecutorFault, observed,
       AccountInvariant, AccountTypes
  <2> QED
    BY <2>1, <2>2
<1>4. AccountTypes'
  BY <1>1, <1>2, <1>3, EventType
     DEF AccountInvariant, AccountTypes, accountVars, clientVars
<1>5. AccountInvariant'
  BY <1>1, <1>4, BookkeepingStages, SameAccount
     DEF accountVars, StagesKept, Confirmed, PastLock, IsErased
<1>6. RequestInvariant'
  <2>1. CASE \E t \in Target : Claim(x, t)
    BY <2>1, ClaimStep
  <2>2. CASE Load(x) \/ CompleteDeletion(x) \/ FailDeletion(x) \/ DeferDeletionForLegalHold(x)
    BY <2>2, LoadStep, CompleteStep, FailStep
  <2>3. CASE \/ LeaseLost(x) \/ HitHold(x) \/ NotFound(x) \/ VerifyDeletion(x)
             \/ ExecutorFault(x)
    <3>1. /\ UNCHANGED request /\ executor[x].pc # "idle"
          /\ \/ executor' = [executor EXCEPT ![x] = Off]
             \/ Turn(x, "fail") \/ Turn(x, "defer")
             \/ executor[x].pc = "verify" /\ Turn(x, "complete")
      <4>1. CASE ExecutorFault(x)
        BY <4>1, ExecutorForms, ExecutorShape
           DEF ExecutorFault, RequestInvariant, ExecutorRecord
      <4>2. CASE LeaseLost(x) \/ HitHold(x) \/ NotFound(x) \/ VerifyDeletion(x)
        BY <4>2 DEF LeaseLost, HitHold, NotFound, VerifyDeletion
      <4> QED
        BY <2>3, <4>1, <4>2
    <3> QED
      BY <3>1, TurnStep
  <2> QED
    BY <2>1, <2>2, <2>3 DEF Bookkeeping
<1> QED
  BY <1>1, <1>5, <1>6

TargetStep(t) == PlaceHold(t) \/ HoldExpires(t) \/ Ask(t) \/ DeletionLeaseExpires(t)

LEMMA TargetSteps ==
  ASSUME RequestInvariant, AccountInvariant, NEW t \in Target, TargetStep(t)
  PROVE  RequestInvariant' /\ AccountInvariant'
         /\ UNCHANGED <<accountVars, clientVars, queueVars>>
<1> USE DEF TargetStep
<1>1. /\ UNCHANGED <<accountVars, clientVars, observed, queueVars>>
      /\ Event \/ UNCHANGED events
  BY DEF PlaceHold, HoldExpires, Ask, DeletionLeaseExpires
<1>2. hold' \subseteq Target
  BY DEF PlaceHold, HoldExpires, Ask, DeletionLeaseExpires, AccountInvariant, AccountTypes
<1>3. AccountTypes'
  BY <1>1, <1>2, EventType
     DEF AccountInvariant, AccountTypes, accountVars, clientVars, observed
<1>4. \A u \in Target : /\ request'[u].frozen = request[u].frozen
                        /\ \/ request'[u].stage = request[u].stage
                           \/ request[u].stage = "none" /\ request'[u].stage = "requested"
  <2>1. request[t] \in Request /\ request \in [Target -> Request]
    BY DEF RequestInvariant
  <2>2. CASE UNCHANGED request
    BY <2>2
  <2>3. CASE Ask(t)
    BY <2>1, <2>3 DEF Ask, Request
  <2>4. CASE DeletionLeaseExpires(t)
    BY <2>1, <2>4 DEF DeletionLeaseExpires, Request
  <2> QED
    BY <2>2, <2>3, <2>4 DEF PlaceHold, HoldExpires
<1>5. AccountInvariant'
  BY <1>1, <1>3, <1>4, SameAccount DEF accountVars, PastLock, IsErased
<1>6. RequestInvariant'
  <2>1. CASE PlaceHold(t) \/ HoldExpires(t)
    BY <2>1 DEF PlaceHold, HoldExpires, RequestInvariant, ExecutorOK, Owns
  <2> QED
    BY <2>1, AskStep, DeletionLeaseExpiresStep
<1> QED
  BY <1>1, <1>5, <1>6

\* The frozen scope exists: it is owned, or the one subject that was found.
LEMMA RevokeAccount ==
  ASSUME RequestInvariant, AccountInvariant, NEW x \in Executor,
         RevokeDeletionCredentials(x)
  PROVE  AccountInvariant'
<1> PICK t : t = executor[x].target
  OBVIOUS
<1> PICK scope : scope = FrozenScope(x)
  OBVIOUS
<1> USE DEF AccountInvariant
<1>1. /\ t \in Target /\ request[t] \in Request /\ request \in [Target -> Request]
      /\ request[t].stage = "requested"
      /\ scope \subseteq Subject
  BY ExecutorAt, FrozenScopeType DEF RevokeDeletionCredentials, Leased, Fits, RequestInvariant
<1>2. /\ request'[t].stage = "credentials_revoked" /\ request'[t].frozen = scope
      /\ \A u \in Target \ {t} : request'[u] = request[u]
  BY <1>1 DEF RevokeDeletionCredentials, Request
<1>3. /\ UNCHANGED <<subject, content, clientVars, hold, setback, events>>
      /\ \/ t = Account /\ user' = "pending" /\ tombstone' = TRUE /\ session' = FALSE
            /\ user # "gone"
         \/ t # Account /\ UNCHANGED <<user, tombstone, session, state>>
  BY DEF RevokeDeletionCredentials, Vanished
<1>4. AccountTypes'
  <2>1. state' \in [Subject -> {"none", "open", "used"}]
    <3>1. \A s \in Subject : state[s] \in {"none", "open", "used"}
      BY DEF AccountTypes
    <3>2. UNCHANGED state \/ state' = [s \in Subject |-> IF s \in scope THEN "none" ELSE state[s]]
      BY DEF RevokeDeletionCredentials
    <3> QED
      BY <3>1, <3>2 DEF AccountTypes
  <2>2. owed' \subseteq Subject
    BY <1>1 DEF RevokeDeletionCredentials, Tokens, AccountTypes
  <2>3. user' \in {"active", "pending", "gone"} /\ session' \in BOOLEAN /\ tombstone' \in BOOLEAN
    BY <1>3 DEF AccountTypes
  <2> QED
    BY <1>3, <2>1, <2>2, <2>3 DEF AccountTypes, clientVars
<1>5. AccountSafe'
  <2>1. user = "gone" => user' = "gone"
    BY <1>3
  <2> QED
    BY <1>3, <2>1 DEF AccountSafe, LockedOut, GoneIsTombstoned, Exists
<1>6. ASSUME NEW u \in Target PROVE ScopeOK(u)'
  <2>1. CASE u = t
    <3>1. t # Account => scope = {t} /\ Exists(t)
      BY DEF RevokeDeletionCredentials, FrozenScope, Vanished
    <3>2. t = Account => scope = {s \in Subject : subject[s] = "owned"}
      BY DEF FrozenScope
    <3>3. \A s \in scope : subject[s] # "none"
      BY <3>1, <3>2 DEF Exists
    <3> QED
      BY <1>2, <1>3, <2>1, <3>1, <3>3 DEF ScopeOK, IsErased
  <2>2. CASE u # t
    BY <1>2, <1>3, <2>2 DEF ScopeOK, PastLock, IsErased
  <2> QED
    BY <2>1, <2>2
<1>7. GoneOK'
  <2>1. CASE t = Account
    BY <1>1, <1>2, <1>3, <2>1 DEF GoneOK, IsErased
  <2>2. CASE t # Account
    BY <1>2, <1>3, <2>2 DEF GoneOK, IsErased
  <2> QED
    BY <2>1, <2>2
<1> QED
  BY <1>4, <1>5, <1>6, <1>7

LEMMA DeleteAccount ==
  ASSUME RequestInvariant, AccountInvariant, NEW x \in Executor, DeletePrimaryData(x)
  PROVE  AccountInvariant'
<1> PICK t : t = executor[x].target
  OBVIOUS
<1> PICK scope : scope = executor[x].frozen
  OBVIOUS
<1> USE DEF AccountInvariant
<1>1. /\ t \in Target /\ request[t] \in Request /\ request \in [Target -> Request]
      /\ request[t].stage = "credentials_revoked"
      /\ scope \subseteq Subject /\ request[t].frozen = scope
  BY ExecutorAt DEF DeletePrimaryData, Leased, Fits, RequestInvariant
<1>2. /\ request'[t].stage = "primary_deleted" /\ request'[t].frozen = scope
      /\ \A u \in Target \ {t} : request'[u] = request[u]
  BY <1>1 DEF DeletePrimaryData, Request
<1>3. /\ UNCHANGED <<clientVars, hold, setback, owed, events>>
      /\ \/ t = Account /\ user' = "gone" /\ tombstone' = TRUE /\ session' = FALSE
         \/ t # Account /\ UNCHANGED <<user, tombstone, session, state>>
  BY DEF DeletePrimaryData, Tombstoned, observed
<1>4. ASSUME NEW s \in Subject
      PROVE  /\ s \in scope => subject'[s] = "deleted" /\ content'[s] = "none"
             /\ s \notin scope => content'[s] = content[s]
                                  /\ \/ subject'[s] = subject[s]
                                     \/ t = Account /\ subject'[s] = "orphan"
                                        /\ subject[s] = "owned"
             /\ subject'[s] \in {"none", "public", "owned", "orphan", "deleted"}
             /\ t = Account => subject'[s] # "owned"
             /\ content'[s] \in {"none", "some", "token"}
  BY DEF DeletePrimaryData, AccountTypes
<1>5. AccountTypes'
  <2>1. state' \in [Subject -> {"none", "open", "used"}]
    <3>1. \A s \in Subject : state[s] \in {"none", "open", "used"}
      BY DEF AccountTypes
    <3>2. UNCHANGED state \/ state' = [s \in Subject |-> IF s \in scope THEN "none" ELSE state[s]]
      BY DEF DeletePrimaryData
    <3> QED
      BY <3>1, <3>2 DEF AccountTypes
  <2>2. subject' \in [Subject -> {"none", "public", "owned", "orphan", "deleted"}]
        /\ content' \in [Subject -> {"none", "some", "token"}]
    BY <1>4 DEF DeletePrimaryData
  <2>3. user' \in {"active", "pending", "gone"} /\ session' \in BOOLEAN /\ tombstone' \in BOOLEAN
    BY <1>3 DEF AccountTypes
  <2> QED
    BY <1>3, <2>1, <2>2, <2>3 DEF AccountTypes, clientVars
<1>6. AccountSafe'
  <2>1. ASSUME NEW s \in Subject, subject'[s] = "orphan" PROVE user' = "gone"
    BY <1>3, <1>4, <2>1 DEF AccountSafe
  <2>2. ASSUME NEW s \in Subject, content'[s] # "none" PROVE Exists(s)'
    BY <1>4, <2>2 DEF AccountSafe, Exists
  <2> QED
    BY <1>3, <2>1, <2>2 DEF AccountSafe, LockedOut, GoneIsTombstoned
<1>7. ASSUME NEW u \in Target PROVE ScopeOK(u)'
  <2>1. CASE u = t
    BY <1>1, <1>2, <1>4, <2>1 DEF ScopeOK, PastLock
  <2>2. CASE u # t
    <3>1. request[u].frozen \subseteq Subject
      BY <1>1, RequestShape
    <3>2. \A s \in request[u].frozen : subject[s] # "none" => subject'[s] # "none"
      BY <1>4, <3>1
    <3> QED
      BY <1>2, <2>2, <3>2 DEF ScopeOK, PastLock
  <2> QED
    BY <2>1, <2>2
<1>8. GoneOK'
  <2>1. CASE t = Account
    BY <1>1, <1>2, <1>3, <1>4, <2>1 DEF GoneOK, IsErased
  <2>2. CASE t # Account
    <3>1. /\ UNCHANGED user
          /\ Account \in Target => request'[Account] = request[Account]
                                   /\ request[Account].frozen \subseteq Subject
      BY <1>1, <1>2, <1>3, <2>2, RequestShape
    <3>2. ASSUME NEW s \in Subject
          PROVE  /\ subject[s] # "owned" => subject'[s] # "owned"
                 /\ subject[s] \in {"deleted", "public"} =>
                      subject'[s] \in {"deleted", "public"}
      BY <1>4, <2>2
    <3> QED
      BY <3>1, <3>2 DEF GoneOK, IsErased
  <2> QED
    BY <2>1, <2>2
<1> QED
  BY <1>5, <1>6, <1>7, <1>8

LEMMA UnchangedRequests ==
  ASSUME RequestInvariant, UNCHANGED <<request, executor>>
  PROVE  RequestInvariant'
BY DEF RequestInvariant, ExecutorOK, Owns

LEMMA QueueStep ==
  ASSUME DeletionInvariant, QueueNext, UNCHANGED deletionVars
  PROVE  DeletionInvariant'
<1> USE DEF DeletionInvariant
<1>1. QueueInvariant'
  BY ClaimJobStep, CallProviderStep, WorkerStep, JobLeaseExpiresStep DEF QueueNext
<1>2. /\ UNCHANGED <<request, executor, accountVars, clientVars, hold, observed>>
      /\ RequestInvariant'
  BY UnchangedRequests DEF deletionVars
<1>3. Event \/ UNCHANGED events
  BY DEF QueueNext, ClaimJob, CallProvider, Fence, Report, WorkerFault, JobLeaseExpires
<1>4. AccountTypes'
  BY <1>2, <1>3, EventType
     DEF AccountInvariant, AccountTypes, accountVars, clientVars, observed
<1>5. AccountInvariant'
  BY <1>2, <1>4, SameAccount DEF accountVars, PastLock, IsErased
<1> QED
  BY <1>1, <1>2, <1>5

LEMMA InvariantStep ==
  ASSUME DeletionInvariant, [Next]_vars
  PROVE  DeletionInvariant'
<1> USE DEF DeletionInvariant
<1>1. CASE UseAccount \/ Retain
  <2>1. UNCHANGED <<request, executor, queueVars>>
    BY <1>1 DEF UseAccount, Admit, SignIn, CreateSubject, PutState, Link, StoreToken,
       ConsumeState, StartRefresh, ReplaceFacts, Retain, PurgeTombstone, PurgeState
  <2>2. AccountInvariant'
    BY <1>1, UseAccountStep, RetainStep
  <2> QED
    BY <2>1, <2>2, QueueKept, UnchangedRequests
<1>2. ASSUME NEW t \in Target, TargetStep(t) PROVE DeletionInvariant'
  BY <1>2, TargetSteps, QueueKept
<1>3. ASSUME NEW x \in Executor, Bookkeeping(x) PROVE DeletionInvariant'
  BY <1>3, BookkeepingStep, QueueKept
<1>4. ASSUME NEW x \in Executor, RevokeDeletionCredentials(x) PROVE DeletionInvariant'
  <2>1. Enqueue(Tokens(FrozenScope(x))) /\ UNCHANGED <<worker, revoked>>
    BY <1>4 DEF RevokeDeletionCredentials
  <2> QED
    BY <1>4, <2>1, EnqueueStep, RevokeStep, RevokeAccount
<1>5. ASSUME NEW x \in Executor, DeletePrimaryData(x) PROVE DeletionInvariant'
  <2>1. UNCHANGED queueVars
    BY <1>5 DEF DeletePrimaryData
  <2> QED
    BY <1>5, <2>1, QueueKept, DeleteStep, DeleteAccount
<1>6. CASE QueueNext /\ UNCHANGED deletionVars
  BY <1>6, QueueStep
<1>7. CASE UNCHANGED vars
  <2>1. UNCHANGED <<request, executor, accountVars, clientVars, hold, observed, queueVars,
                    events>>
    BY <1>7 DEF vars, deletionVars
  <2>2. AccountTypes'
    BY <2>1 DEF AccountInvariant, AccountTypes, accountVars, clientVars, observed
  <2>3. AccountInvariant'
    BY <2>1, <2>2, SameAccount DEF accountVars, PastLock, IsErased
  <2> QED
    BY <2>1, <2>3, QueueKept, UnchangedRequests
<1> QED
  BY <1>1, <1>2, <1>3, <1>4, <1>5, <1>6, <1>7
     DEF Next, Work, TargetStep, Bookkeeping

\* The queue, the claims, the account and the scopes stay consistent through
\* every step of users, executors, workers and retention.
THEOREM Invariance == Spec => []DeletionInvariant
<1>1. Init => DeletionInvariant
  BY InitDeletionInvariant
<1>2. DeletionInvariant /\ [Next]_vars => DeletionInvariant'
  BY InvariantStep
<1> QED
  BY <1>1, <1>2, PTL DEF Spec

\* Types, and that only a request that is being deleted is claimed (the
\* claims of deletion_request_claims).
THEOREM Typed == Spec => []TypeOK
<1>1. DeletionInvariant => TypeOK
  BY DEF DeletionInvariant, QueueInvariant, QueueTypes, RequestInvariant, Idle,
     AccountInvariant, AccountTypes, TypeOK
<1> QED
  BY <1>1, Invariance, PTL

\* A locked account has no session: InsertActiveSession decides when the
\* session is written, not when the sign-in was verified.
THEOREM NoSessionWhenLocked == Spec => []LockedOut
<1>1. DeletionInvariant => LockedOut
  BY DEF DeletionInvariant, AccountInvariant, AccountSafe
<1> QED
  BY <1>1, Invariance, PTL

\* The email of an account that is gone cannot sign up again, whatever
\* retention removed while a hold kept the deletion between its stages.
THEOREM TombstoneOutlives == Spec => []GoneIsTombstoned
<1>1. DeletionInvariant => GoneIsTombstoned
  BY DEF DeletionInvariant, AccountInvariant, AccountSafe
<1> QED
  BY <1>1, Invariance, PTL

\* No job presents its token to the provider more often than MaxAttempts,
\* with any number of workers that lose claims and leases (process).
THEOREM BudgetIsKept == Spec => []CallsWithinBudget
<1>1. ASSUME DeletionInvariant, NEW s \in Subject PROVE calls[s] <= MaxCalls
  <2>1. BudgetOK(s) /\ calls[s] \in Nat
    BY <1>1 DEF DeletionInvariant, QueueInvariant, QueueTypes
  <2>2. Cardinality(Calling(s)) \in Nat
    BY <2>1, FS_CardinalityType DEF BudgetOK
  <2> QED
    BY <2>1, <2>2 DEF BudgetOK
<1>2. DeletionInvariant => CallsWithinBudget
  BY <1>1 DEF CallsWithinBudget
<1> QED
  BY <1>2, Invariance, PTL

-----------------------------------------------------------------------------
(***************************************************************************)
(* What a legal hold covers.                                               *)
(***************************************************************************)

HeldKept ==
  /\ \A s \in Subject :
       (subject[s] \in {"owned", "orphan"} /\ subject'[s] = "deleted") =>
          /\ s \notin hold
          /\ subject[s] = "owned" => Account \notin hold
  /\ user # "gone" /\ user' = "gone" =>
       \A t \in hold : t # Account /\ subject[t] # "owned"

\* The deletion is the only step that deletes; what it deletes is owned, or
\* the one subject of its target, since an orphan has no account to delete.
LEMMA HeldStep ==
  ASSUME DeletionInvariant, [Next]_vars
  PROVE  HeldKept
<1> USE DEF DeletionInvariant
<1>1. ASSUME NEW x \in Executor, DeletePrimaryData(x) PROVE HeldKept
  <2> PICK t : t = executor[x].target
    OBVIOUS
  <2> PICK scope : scope = executor[x].frozen
    OBVIOUS
  <2>1. /\ t \in Target /\ request[t].stage = "credentials_revoked"
        /\ request[t].frozen = scope /\ scope \subseteq Subject
    BY <1>1, ExecutorAt DEF DeletePrimaryData, Leased, Fits
  <2>2. ~Held(t)
    BY <1>1 DEF DeletePrimaryData
  <2>3. /\ t # Account => scope = {t} /\ UNCHANGED user
        /\ t = Account => user # "gone"
    BY <1>1, <2>1 DEF AccountInvariant, ScopeOK, GoneOK, PastLock, IsErased, DeletePrimaryData
  <2>4. ASSUME NEW s \in Subject, subject[s] \in {"owned", "orphan"}, subject'[s] = "deleted"
        PROVE  s \notin hold /\ (subject[s] = "owned" => Account \notin hold)
    <3>1. s \in scope
      BY <1>1, <2>4 DEF DeletePrimaryData
    <3>2. CASE t = Account
      <4>1. subject[s] = "owned"
        BY <2>3, <2>4, <3>2 DEF AccountInvariant, AccountSafe
      <4> QED
        BY <2>2, <3>2, <4>1 DEF Held
    <3>3. CASE t # Account
      BY <2>2, <2>3, <3>1, <3>3 DEF Held
    <3> QED
      BY <3>2, <3>3
  <2>5. user # "gone" /\ user' = "gone" => \A u \in hold : u # Account /\ subject[u] # "owned"
    BY <2>2, <2>3 DEF Held
  <2> QED
    BY <2>4, <2>5 DEF HeldKept
<1>2. CASE UseAccount \/ Retain
  <2>1. UNCHANGED user
    BY <1>2 DEF UseAccount, Admit, SignIn, CreateSubject, PutState, Link, StoreToken,
       ConsumeState, StartRefresh, ReplaceFacts, Retain, PurgeTombstone, PurgeState,
       accountVars
  <2>2. ASSUME NEW s \in Subject, subject'[s] = "deleted" PROVE subject[s] = "deleted"
    <3>1. CASE CreateSubject
      BY <2>2, <3>1 DEF CreateSubject, AccountInvariant, AccountTypes
    <3>2. CASE \E o \in Subject : ReplaceFacts(o)
      BY <2>2, <3>2 DEF ReplaceFacts, EnsurePublicSubject, AccountInvariant, AccountTypes
    <3>3. CASE ~(CreateSubject \/ \E o \in Subject : ReplaceFacts(o))
      BY <1>2, <2>2, <3>3 DEF UseAccount, Admit, SignIn, PutState, Link, StoreToken,
         ConsumeState, StartRefresh, Retain, PurgeTombstone, PurgeState, accountVars
    <3> QED
      BY <3>1, <3>2, <3>3
  <2> QED
    BY <2>1, <2>2 DEF HeldKept
<1>3. ASSUME UNCHANGED subject, user # "gone" => user' # "gone" PROVE HeldKept
  BY <1>3 DEF HeldKept
<1>4. ASSUME NEW x \in Executor, RevokeDeletionCredentials(x) PROVE HeldKept
  BY <1>3, <1>4 DEF RevokeDeletionCredentials
<1>5. ASSUME NEW x \in Executor, Bookkeeping(x) PROVE HeldKept
  BY <1>3, <1>5, BookkeepingStep DEF accountVars
<1>6. ASSUME NEW t \in Target, TargetStep(t) PROVE HeldKept
  BY <1>3, <1>6, TargetSteps DEF accountVars
<1>7. CASE UNCHANGED deletionVars \/ UNCHANGED vars
  BY <1>3, <1>7 DEF vars, deletionVars, accountVars
<1> QED
  BY <1>1, <1>2, <1>4, <1>5, <1>6, <1>7 DEF Next, Work, TargetStep, Bookkeeping

\* A hold is honoured at every point of a deletion, for the target itself,
\* its owner and its subjects (HasActiveDeletionHold in both transactions).
THEOREM HoldsAreHonoured == Spec => HeldDataSurvives
<1>1. DeletionInvariant /\ [Next]_vars => [HeldKept]_vars
  BY HeldStep
<1>2. HeldDataSurvives <=> [][HeldKept]_vars
  BY PTL DEF HeldDataSurvives, HeldKept
<1> QED
  BY <1>1, <1>2, Invariance, PTL DEF Spec

-----------------------------------------------------------------------------
(***************************************************************************)
(* The tokens that a deletion owes to the provider.                        *)
(***************************************************************************)

Accounted(s) == s \in revoked \/ job[s].status # "none"

\* Only what the provider said is reported as done.
Truthful(w) == worker[w].pc = "complete" => worker[w].subject \in revoked

TokensTracked ==
  /\ \A w \in Worker : Truthful(w)
  /\ \A s \in owed : Accounted(s)

OwedTokensAccounted == \A s \in owed : Accounted(s)

\* A job is removed by a report of a call that revoked the token, and by
\* nothing else.
LEMMA WorkersTrack ==
  ASSUME QueueInvariant, owed \subseteq Subject, TokensTracked, QueueNext, UNCHANGED owed
  PROVE  TokensTracked'
<1> USE DEF TokensTracked, Truthful, Accounted, QueueInvariant
<1>1. ASSUME NEW w \in Worker, NEW s \in Subject, ClaimJob(w, s) PROVE TokensTracked'
  <2>1. /\ worker'[w].pc = "process" /\ \A v \in Worker \ {w} : worker'[v] = worker[v]
        /\ job'[s].status = "processing" /\ \A o \in Subject \ {s} : job'[o] = job[o]
        /\ UNCHANGED revoked
    BY <1>1 DEF ClaimJob, QueueTypes, Job
  <2> QED
    BY <2>1
<1>2. ASSUME NEW w \in Worker, CallProvider(w) PROVE TokensTracked'
  <2>1. worker[w] # Resting /\ worker[w] \in WorkerState
    BY <1>2 DEF CallProvider, QueueTypes, Resting
  <2>2. /\ worker[w].subject \in Subject
        /\ worker[w] \in [pc : {"process", "complete", "retry", "bury"},
                          subject : Subject, id : Nat, attempt : Nat]
    BY <2>1, WorkerShape
  <2>3. /\ revoked \subseteq revoked' /\ UNCHANGED job
        /\ \A v \in Worker \ {w} : worker'[v] = worker[v]
        /\ worker'[w].subject = worker[w].subject
        /\ worker'[w].pc = "complete" => worker[w].subject \in revoked'
    <3>1. CASE /\ revoked' = revoked \cup {worker[w].subject}
               /\ worker' = [worker EXCEPT ![w].pc = "complete"]
      BY <1>2, <2>2, <3>1 DEF CallProvider, QueueTypes
    <3>2. ASSUME NEW pc \in {"bury", "retry"}, worker' = [worker EXCEPT ![w].pc = pc],
                 revoked' \in {revoked, revoked \cup {worker[w].subject}}
          PROVE  <2>3
      BY <1>2, <2>2, <3>2 DEF CallProvider, QueueTypes
    <3> QED
      BY <1>2, <3>1, <3>2, Zenon DEF CallProvider
  <2> QED
    BY <2>3
<1>3. ASSUME NEW w \in Worker, Fence(w) \/ WorkerFault(w) PROVE TokensTracked'
  <2>1. /\ UNCHANGED <<job, revoked>> /\ worker'[w].pc # "complete"
        /\ \A v \in Worker \ {w} : worker'[v] = worker[v]
    BY <1>3, WorkerShape DEF Fence, WorkerFault, QueueTypes, Resting
  <2> QED
    BY <2>1
<1>4. ASSUME NEW w \in Worker, Report(w) PROVE TokensTracked'
  <2> PICK s : s = worker[w].subject
    OBVIOUS
  <2>1. /\ worker'[w].pc # "complete" /\ \A v \in Worker \ {w} : worker'[v] = worker[v]
        /\ UNCHANGED revoked
    BY <1>4 DEF Report, QueueTypes, Resting
  <2>2. worker[w] # Resting /\ s \in Subject
    BY <1>4, WorkerShape DEF Report, QueueTypes, Resting
  <2>3. CASE worker[w].pc = "complete"
    <3>1. s \in revoked
      BY <2>3
    <3>2. \A o \in Subject \ {s} : job'[o] = job[o]
      BY <1>4 DEF Report, QueueTypes
    <3> QED
      BY <2>1, <3>1, <3>2
  <2>4. CASE worker[w].pc # "complete"
    <3>1. PICK status \in {"pending", "dead"} :
            job' = job \/ job' = [job EXCEPT ![s] = Released(s, status)]
      BY <1>4, <2>4 DEF Report
    <3>2. Released(s, status).status = status
      BY <2>2 DEF Released, QueueTypes, Job
    <3>3. \A o \in Subject : job[o].status # "none" => job'[o].status # "none"
      BY <2>2, <3>1, <3>2 DEF QueueTypes
    <3> QED
      BY <2>1, <3>3
  <2> QED
    BY <2>3, <2>4
<1>5. ASSUME NEW s \in Subject, JobLeaseExpires(s) PROVE TokensTracked'
  <2>1. \A o \in Subject : job'[o].status = job[o].status
    BY <1>5 DEF JobLeaseExpires, QueueTypes, Job
  <2> QED
    BY <1>5, <2>1 DEF JobLeaseExpires
<1> QED
  BY <1>1, <1>2, <1>3, <1>4, <1>5 DEF QueueNext

\* Every token that the first stage counts is queued, or was queued before.
LEMMA RevokeTracks ==
  ASSUME DeletionInvariant, TokensTracked, NEW x \in Executor, RevokeDeletionCredentials(x)
  PROVE  TokensTracked'
<1> USE DEF DeletionInvariant, TokensTracked, Truthful, Accounted
<1> PICK tokens : tokens = Tokens(FrozenScope(x))
  OBVIOUS
<1>1. executor[x].target \in Target /\ tokens \subseteq Subject
  BY ExecutorAt, FrozenScopeType DEF RevokeDeletionCredentials, Tokens
<1>2. /\ Enqueue(tokens) /\ UNCHANGED <<worker, revoked>>
      /\ owed' = owed \cup tokens /\ owed \subseteq Subject
  BY DEF RevokeDeletionCredentials, FrozenScope, AccountInvariant, AccountTypes
<1>3. ASSUME NEW s \in Subject
      PROVE  /\ job[s].status # "none" => job'[s] = job[s]
             /\ s \in tokens => job'[s].status # "none"
  <2>1. CASE s \in tokens /\ job[s].status = "none"
    BY <1>2, <2>1 DEF Enqueue, NoJob
  <2>2. CASE ~(s \in tokens /\ job[s].status = "none")
    BY <1>2, <2>2 DEF Enqueue
  <2> QED
    BY <2>1, <2>2
<1> QED
  BY <1>1, <1>2, <1>3

LEMMA TrackingStep ==
  ASSUME DeletionInvariant, TokensTracked, [Next]_vars
  PROVE  TokensTracked'
<1> USE DEF DeletionInvariant
<1>1. CASE UNCHANGED <<job, worker, revoked, owed>>
  BY <1>1 DEF TokensTracked, Truthful, Accounted
<1>2. CASE QueueNext /\ UNCHANGED deletionVars
  BY <1>2, WorkersTrack DEF deletionVars, observed, AccountInvariant, AccountTypes
<1>3. ASSUME NEW x \in Executor, RevokeDeletionCredentials(x) PROVE TokensTracked'
  BY <1>3, RevokeTracks
<1>4. CASE UseAccount \/ Retain
  BY <1>1, <1>4 DEF UseAccount, Admit, SignIn, CreateSubject, PutState, Link, StoreToken,
     ConsumeState, StartRefresh, ReplaceFacts, Retain, PurgeTombstone, PurgeState,
     queueVars, observed
<1>5. ASSUME NEW t \in Target, TargetStep(t) PROVE TokensTracked'
  BY <1>1, <1>5 DEF TargetStep, PlaceHold, HoldExpires, Ask, DeletionLeaseExpires,
     queueVars, observed
<1>6. ASSUME NEW x \in Executor, Bookkeeping(x) \/ DeletePrimaryData(x) PROVE TokensTracked'
  BY <1>1, <1>6 DEF Bookkeeping, Claim, Load, LeaseLost, HitHold, NotFound, VerifyDeletion,
     CompleteDeletion, FailDeletion, DeferDeletionForLegalHold, ExecutorFault,
     DeletePrimaryData, queueVars, observed
<1>7. CASE UNCHANGED vars
  BY <1>1, <1>7 DEF vars, deletionVars, observed, queueVars
<1> QED
  BY <1>2, <1>3, <1>4, <1>5, <1>6, <1>7 DEF Next, Work, TargetStep, Bookkeeping

\* A token that was there when the credentials were revoked is revoked at its
\* provider, or its job is still in the queue, live or dead: it is never lost,
\* though the connection that held it is deleted
\* (EnqueueDeletionTokenRevocations, CompleteOAuthTokenRevocation).
THEOREM NoTokenIsForgotten == Spec => []OwedTokensAccounted
<1>1. Init => TokensTracked
  BY DEF Init, InitQueue, TokensTracked, Truthful, Resting
<1>2. DeletionInvariant /\ TokensTracked /\ [Next]_vars => TokensTracked'
  BY TrackingStep
<1>3. TokensTracked => OwedTokensAccounted
  BY DEF TokensTracked, OwedTokensAccounted
<1> QED
  BY <1>1, <1>2, <1>3, Invariance, PTL DEF Spec

-----------------------------------------------------------------------------
(***************************************************************************)
(* What the end of a deletion means: that it completed, and that it did    *)
(* not.                                                                    *)
(***************************************************************************)

\* What is left of an account whose request is completed.
NothingOwned ==
  Account \in Target /\ request[Account].stage = "completed" =>
    /\ user = "gone" /\ tombstone /\ ~session
    /\ \A s \in Subject : subject[s] # "owned"
    /\ \A s \in request[Account].frozen : subject[s] \in {"deleted", "public"}

\* A completed account is gone, cannot sign in or up again and owns nothing,
\* not even what it created while it was being deleted; what it owned at the
\* lock is deleted, or back as the row of nobody that a reader's refresh
\* published (CompleteDeletion, EnsurePublicSubject).
THEOREM CompletedAccountIsGone == Spec => []NothingOwned
<1>1. DeletionInvariant => NothingOwned
  BY DEF DeletionInvariant, AccountInvariant, AccountSafe, LockedOut, GoneIsTombstoned,
     GoneOK, IsErased, NothingOwned
<1> QED
  BY <1>1, Invariance, PTL

VerifiesErased ==
  \A x \in Executor : executor[x].pc = "verify" => IsErased(executor[x].target)

FailuresExplained ==
  \A x \in Executor :
    executor[x].pc = "verify" =>
      \A filled \in SUBSET {s \in Subject : Exists(s)} :
        Residuals(executor[x].target, executor[x].frozen, filled) =>
          \E s \in executor[x].frozen : Returned(s)

\* The stage of a request is never taken back, so this survives the loss of
\* the claim.
LEMMA VerifyingStep ==
  ASSUME DeletionInvariant, VerifiesErased, [Next]_vars
  PROVE  VerifiesErased'
<1> USE DEF DeletionInvariant, VerifiesErased
<1>1. CASE UNCHANGED <<request, executor>>
  BY <1>1 DEF IsErased
<1>2. ASSUME NEW x \in Executor,
             \A y \in Executor \ {x} : executor'[y] = executor[y],
             \A t \in Target : IsErased(t) => IsErased(t)',
             executor'[x].pc = "verify" => IsErased(executor[x].target)'
      PROVE  VerifiesErased'
  <2>1. ASSUME NEW y \in Executor, y # x, executor'[y].pc = "verify"
        PROVE  IsErased(executor[y].target)'
    <3>1. executor'[y] = executor[y] /\ executor[y].pc = "verify"
      BY <1>2, <2>1
    <3>2. executor[y].target \in Target /\ IsErased(executor[y].target)
      BY <3>1, ExecutorAt
    <3>3. IsErased(executor[y].target) => request'[executor[y].target].stage \in
                                            {"primary_deleted", "completed"}
      BY <1>2, <3>2 DEF IsErased
    <3> QED
      BY <3>1, <3>2, <3>3 DEF IsErased
  <2> QED
    BY <1>2, <2>1
<1>3. ASSUME NEW x \in Executor, Bookkeeping(x) PROVE VerifiesErased'
  <2>1. \A t \in Target : IsErased(t) => IsErased(t)'
    BY <1>3, BookkeepingStages DEF StagesKept, Confirmed, IsErased
  <2>2. \A y \in Executor \ {x} : executor'[y] = executor[y]
    BY <1>3 DEF Bookkeeping, Claim, Load, LeaseLost, HitHold, NotFound, VerifyDeletion,
       CompleteDeletion, FailDeletion, DeferDeletionForLegalHold, ExecutorFault, Turn,
       RequestInvariant
  <2>3. CASE Load(x) /\ Owns(x)
    <3>1. /\ executor[x] \in ExecutorRecord /\ executor[x].target \in Target
          /\ request[executor[x].target].stage \in Stage \ {"none", "completed"}
      BY <2>3, ExecutorAt, RequestShape DEF Load
    <3>2. /\ executor'[x].target = executor[x].target
          /\ executor'[x].pc = Resume(request[executor[x].target].stage)
          /\ UNCHANGED request
      BY <2>3, <3>1 DEF Load, RequestInvariant, ExecutorRecord
    <3>3. executor'[x].pc = "verify" =>
            request[executor[x].target].stage = "primary_deleted"
      BY <3>1, <3>2 DEF Resume, Stage
    <3>4. executor'[x].pc = "verify" => IsErased(executor[x].target)'
      BY <3>2, <3>3 DEF IsErased
    <3> QED
      BY <1>2, <2>1, <2>2, <3>4
  <2>4. CASE ~(Load(x) /\ Owns(x))
    <3>1. CASE \E t \in Target : Claim(x, t)
      <4>1. executor'[x].pc = "load"
        BY <3>1 DEF Claim, RequestInvariant
      <4> QED
        BY <1>2, <2>1, <2>2, <4>1
    <3>2. CASE executor' = [executor EXCEPT ![x] = Off]
      <4>1. executor'[x].pc # "verify"
        BY <3>2, ExecutorForms DEF RequestInvariant
      <4> QED
        BY <1>2, <2>1, <2>2, <4>1
    <3>3. ASSUME NEW pc \in {"fail", "defer", "complete"}, Turn(x, pc), executor[x].pc # "idle"
          PROVE  VerifiesErased'
      <4>1. executor'[x].pc = pc
        BY <3>3, ExecutorAt DEF Turn, RequestInvariant, ExecutorRecord
      <4> QED
        BY <1>2, <2>1, <2>2, <4>1
    <3>4. Bookkeeping(x) /\ ~(\E t \in Target : Claim(x, t)) =>
            \/ executor' = [executor EXCEPT ![x] = Off]
            \/ executor[x].pc # "idle" /\ \E pc \in {"fail", "defer", "complete"} : Turn(x, pc)
      BY <2>4, Zenon DEF Bookkeeping, Load, LeaseLost, HitHold, NotFound, VerifyDeletion,
         CompleteDeletion, FailDeletion, DeferDeletionForLegalHold, ExecutorFault
    <3> QED
      BY <1>3, <3>1, <3>2, <3>3, <3>4
  <2> QED
    BY <2>3, <2>4
<1>4. ASSUME NEW x \in Executor, RevokeDeletionCredentials(x) \/ DeletePrimaryData(x)
      PROVE  VerifiesErased'
  <2> PICK t : t = executor[x].target
    OBVIOUS
  <2>1. /\ t \in Target /\ request[t] \in Request /\ request \in [Target -> Request]
        /\ request[t].stage \in {"requested", "credentials_revoked"}
        /\ executor[x] \in ExecutorRecord
    BY <1>4, ExecutorAt
       DEF RevokeDeletionCredentials, DeletePrimaryData, Leased, Fits, RequestInvariant
  <2>2. /\ \A u \in Target \ {t} : request'[u] = request[u]
        /\ \A y \in Executor \ {x} : executor'[y] = executor[y]
        /\ executor'[x].target = t
        /\ executor'[x].pc = "verify" => request'[t].stage = "primary_deleted"
    BY <1>4, <2>1
       DEF RevokeDeletionCredentials, DeletePrimaryData, Request, RequestInvariant,
           ExecutorRecord
  <2>3. \A u \in Target : IsErased(u) => IsErased(u)'
    BY <2>1, <2>2 DEF IsErased
  <2>4. executor'[x].pc = "verify" => IsErased(executor[x].target)'
    BY <2>2 DEF IsErased
  <2> QED
    BY <1>2, <2>2, <2>3, <2>4
<1>5. ASSUME NEW t \in Target, TargetStep(t) PROVE VerifiesErased'
  <2>1. request[t] \in Request /\ request \in [Target -> Request]
    BY DEF RequestInvariant
  <2>2. \A u \in Target : IsErased(u) => IsErased(u)'
    BY <1>5, <2>1 DEF TargetStep, PlaceHold, HoldExpires, Ask, DeletionLeaseExpires,
       IsErased, Request
  <2>3. UNCHANGED executor
    BY <1>5 DEF TargetStep, PlaceHold, HoldExpires, Ask, DeletionLeaseExpires
  <2>4. ASSUME NEW x \in Executor, executor[x].pc = "verify"
        PROVE  IsErased(executor[x].target)'
    <3>1. executor[x].target \in Target /\ IsErased(executor[x].target)
      BY <2>4, ExecutorAt
    <3>2. request'[executor[x].target].stage \in {"primary_deleted", "completed"}
      BY <2>2, <3>1 DEF IsErased
    <3> QED
      BY <2>3, <3>2 DEF IsErased
  <2> QED
    BY <2>3, <2>4
<1>6. CASE UseAccount \/ Retain
  BY <1>1, <1>6 DEF UseAccount, Admit, SignIn, CreateSubject, PutState, Link, StoreToken,
     ConsumeState, StartRefresh, ReplaceFacts, Retain, PurgeTombstone, PurgeState
<1>7. CASE UNCHANGED deletionVars \/ UNCHANGED vars
  BY <1>1, <1>7 DEF vars, deletionVars
<1> QED
  BY <1>3, <1>4, <1>5, <1>6, <1>7 DEF Next, Work, TargetStep, Bookkeeping

\* A verification fails on what came back into the scope, and on nothing else:
\* by then the deletion, of this executor or of the one that took its request
\* over, left no session, no owned subject and nothing that references a
\* subject that is not there (CountDeletionResiduals).
THEOREM FailedVerificationIsExplained == Spec => []FailuresExplained
<1>1. Init => VerifiesErased
  BY ExecutorForms DEF Init, VerifiesErased
<1>2. DeletionInvariant /\ VerifiesErased /\ [Next]_vars => VerifiesErased'
  BY VerifyingStep
<1>3. DeletionInvariant /\ VerifiesErased => FailuresExplained
  <2> SUFFICES ASSUME DeletionInvariant, VerifiesErased, NEW x \in Executor,
                      executor[x].pc = "verify",
                      NEW filled \in SUBSET {s \in Subject : Exists(s)},
                      Residuals(executor[x].target, executor[x].frozen, filled)
               PROVE  \E s \in executor[x].frozen : Returned(s)
    BY DEF FailuresExplained
  <2>1. executor[x].target \in Target /\ executor[x].frozen \subseteq Subject
        /\ IsErased(executor[x].target)
    BY ExecutorAt DEF DeletionInvariant, VerifiesErased
  <2>2. executor[x].target = Account =>
          ~session /\ \A s \in Subject : subject[s] # "owned"
    BY <2>1 DEF DeletionInvariant, AccountInvariant, AccountSafe, LockedOut, GoneOK
  <2>3. \A s \in Subject : content[s] # "none" => Returned(s)
    BY DEF DeletionInvariant, AccountInvariant, AccountSafe, Returned
  <2> QED
    BY <2>1, <2>2, <2>3 DEF Residuals, Returned
<1> QED
  BY <1>1, <1>2, <1>3, Invariance, PTL DEF Spec

-----------------------------------------------------------------------------
(***************************************************************************)
(* The refinement.                                                         *)
(***************************************************************************)

Phase == [t \in Target |-> PhaseOf(request[t].stage)]

Scope == [t \in Target |-> request[t].frozen]

Keeps == [s \in Subject |-> Kept(s)]

LEMMA PhaseForms ==
  /\ PhaseOf("none") = "none"
  /\ PhaseOf("requested") = "asked"
  /\ PhaseOf("credentials_revoked") = "locked"
  /\ PhaseOf("primary_deleted") = "erased"
  /\ PhaseOf("completed") = "done"
BY DEF PhaseOf

LEMMA PhaseShape ==
  /\ DOMAIN Phase = Target
  /\ \A t \in Target :
       /\ request[t].stage = "none"                => Phase[t] = "none"
       /\ request[t].stage = "requested"           => Phase[t] = "asked"
       /\ request[t].stage = "credentials_revoked" => Phase[t] = "locked"
       /\ request[t].stage = "primary_deleted"     => Phase[t] = "erased"
       /\ request[t].stage = "completed"           => Phase[t] = "done"
BY PhaseForms DEF Phase

LEMMA OverShape ==
  ASSUME RequestInvariant, NEW t \in Target, Promise!Over(t)
  PROVE  IsErased(t)
<1>1. Phase[t] \in {"erased", "done"}
  BY DEF Promise!Over, Phase
<1>2. request[t].stage \in Stage
  BY RequestShape DEF RequestInvariant
<1> QED
  BY <1>1, <1>2, PhaseShape DEF Stage, IsErased

LEMMA InitRefines == Init => Promise!Init
<1> SUFFICES ASSUME Init PROVE Promise!Init
  OBVIOUS
<1>1. \A t \in Target : request[t].stage = "none" /\ request[t].frozen = {}
  BY DEF Init, NoRequest
<1>2. Phase = [t \in Target |-> "none"]
  BY <1>1 DEF Phase, PhaseOf
<1>3. [t \in Target |-> request[t].frozen] = [t \in Target |-> {}]
  BY <1>1
<1>4. Keeps \in [Subject -> SUBSET {"row", "content", "owner"}]
  BY DEF Keeps, Kept
<1> QED
  BY <1>2, <1>3, <1>4 DEF Promise!Init, Promise!Kind, Phase, Keeps

\* What neither moves a request nor adds to or takes from a subject is no step.
LEMMA Stutters ==
  ASSUME StagesKept, UNCHANGED Keeps
  PROVE  UNCHANGED Promise!erasureVars
<1>1. Phase' = Phase
  BY DEF StagesKept, Phase
<1>2. Scope' = Scope
  BY DEF StagesKept, Scope
<1> QED
  BY <1>1, <1>2 DEF Promise!erasureVars, Phase, Scope, Keeps

\* One request goes from one stage to the next.
LEMMA OnePhase ==
  ASSUME RequestInvariant, NEW t \in Target, NEW phase,
         Phase'[t] = phase, \A u \in Target \ {t} : request'[u] = request[u]
  PROVE  Phase' = [Phase EXCEPT ![t] = phase]
<1>1. Phase' = [u \in Target |-> Phase'[u]] /\ Phase = [u \in Target |-> Phase[u]]
  BY DEF Phase
<1>2. \A u \in Target \ {t} : Phase'[u] = Phase[u]
  BY DEF Phase
<1> QED
  BY <1>1, <1>2

LEMMA BookkeepingRefines ==
  ASSUME DeletionInvariant, NEW x \in Executor, Bookkeeping(x)
  PROVE  [Promise!Next]_Promise!erasureVars
<1> USE DEF DeletionInvariant
<1>1. UNCHANGED Keeps
  BY BookkeepingStep DEF accountVars, Keeps, Kept, Exists
<1>2. CASE StagesKept
  BY <1>1, <1>2, Stutters
<1>3. ASSUME NEW t \in Target, Confirmed(t) PROVE Promise!Confirm(t)
  <2>1. Phase[t] = "erased" /\ Phase'[t] = "done"
    BY <1>3, PhaseForms DEF Confirmed, Phase
  <2>2. Phase' = [Phase EXCEPT ![t] = "done"]
    BY <1>3, <2>1, OnePhase DEF Confirmed
  <2>3. Scope' = Scope
    BY <1>3 DEF Confirmed, Scope
  <2> QED
    BY <1>1, <2>1, <2>2, <2>3 DEF Promise!Confirm, Phase, Scope, Keeps
<1> QED
  BY <1>2, <1>3, BookkeepingStages DEF Promise!Next

LEMMA TargetRefines ==
  ASSUME DeletionInvariant, NEW t \in Target, TargetStep(t)
  PROVE  [Promise!Next]_Promise!erasureVars
<1> USE DEF DeletionInvariant
<1>1. UNCHANGED Keeps
  BY TargetSteps DEF accountVars, Keeps, Kept, Exists
<1>2. request[t] \in Request /\ request \in [Target -> Request]
  BY DEF RequestInvariant
<1>3. CASE Ask(t)
  <2>1. request[t].stage = "none" /\ request'[t].stage = "requested"
        /\ request'[t].frozen = request[t].frozen
        /\ \A u \in Target \ {t} : request'[u] = request[u]
    BY <1>2, <1>3 DEF Ask, Request
  <2>2. Phase[t] = "none" /\ Phase'[t] = "asked"
    BY <2>1, PhaseForms DEF Phase
  <2>3. Phase' = [Phase EXCEPT ![t] = "asked"]
    BY <2>1, <2>2, OnePhase
  <2>4. Scope' = Scope
    BY <2>1 DEF Scope
  <2>5. Promise!Ask(t)
    BY <1>1, <2>2, <2>3, <2>4 DEF Promise!Ask, Phase, Scope, Keeps
  <2> QED
    BY <2>5 DEF Promise!Next
<1>4. CASE DeletionLeaseExpires(t)
  <2>1. StagesKept
    BY <1>2, <1>4 DEF DeletionLeaseExpires, StagesKept, Request
  <2> QED
    BY <1>1, <2>1, Stutters
<1>5. CASE PlaceHold(t) \/ HoldExpires(t)
  <2>1. StagesKept
    BY <1>5 DEF PlaceHold, HoldExpires, StagesKept
  <2> QED
    BY <1>1, <2>1, Stutters
<1> QED
  BY <1>3, <1>4, <1>5 DEF TargetStep

LEMMA RevokeRefines ==
  ASSUME DeletionInvariant, NEW x \in Executor, RevokeDeletionCredentials(x)
  PROVE  Promise!Next
<1> PICK t : t = executor[x].target
  OBVIOUS
<1> PICK subjects : subjects = FrozenScope(x)
  OBVIOUS
<1> USE DEF DeletionInvariant
<1>1. /\ t \in Target /\ request[t] \in Request /\ request \in [Target -> Request]
      /\ request[t].stage = "requested" /\ subjects \in SUBSET Subject
  BY ExecutorAt, FrozenScopeType DEF RevokeDeletionCredentials, Leased, Fits, RequestInvariant
<1>2. /\ request'[t].stage = "credentials_revoked" /\ request'[t].frozen = subjects
      /\ \A u \in Target \ {t} : request'[u] = request[u]
      /\ UNCHANGED <<subject, content>>
  BY <1>1 DEF RevokeDeletionCredentials, Request
<1>3. Phase[t] = "asked" /\ Phase'[t] = "locked"
  BY <1>1, <1>2, PhaseForms DEF Phase
<1>4. Phase' = [Phase EXCEPT ![t] = "locked"]
  BY <1>1, <1>2, <1>3, OnePhase
<1>5. Scope' = [Scope EXCEPT ![t] = subjects]
  BY <1>1, <1>2 DEF Scope
<1>6. UNCHANGED Keeps
  BY <1>2 DEF Keeps, Kept, Exists
<1>7. Promise!Lock(t)
  BY <1>1, <1>3, <1>4, <1>5, <1>6 DEF Promise!Lock, Phase, Scope, Keeps
<1> QED
  BY <1>1, <1>7 DEF Promise!Next

LEMMA DeleteRefines ==
  ASSUME DeletionInvariant, NEW x \in Executor, DeletePrimaryData(x)
  PROVE  Promise!Next
<1> PICK t : t = executor[x].target
  OBVIOUS
<1> PICK scope : scope = executor[x].frozen
  OBVIOUS
<1> USE DEF DeletionInvariant
<1>1. /\ t \in Target /\ request[t] \in Request /\ request \in [Target -> Request]
      /\ request[t].stage = "credentials_revoked"
      /\ scope \subseteq Subject /\ request[t].frozen = scope
  BY ExecutorAt DEF DeletePrimaryData, Leased, Fits, RequestInvariant
<1>2. /\ request'[t].stage = "primary_deleted" /\ request'[t].frozen = scope
      /\ \A u \in Target \ {t} : request'[u] = request[u]
  BY <1>1 DEF DeletePrimaryData, Request
<1>3. Phase[t] = "locked" /\ Phase'[t] = "erased"
  BY <1>1, <1>2, PhaseForms DEF Phase
<1>4. Phase' = [Phase EXCEPT ![t] = "erased"]
  BY <1>1, <1>2, <1>3, OnePhase
<1>5. Scope' = Scope
  BY <1>1, <1>2 DEF Scope
<1>6. Scope[t] = scope
  BY <1>1 DEF Scope
<1>7. ASSUME NEW s \in Subject
      PROVE  Kept(s)' = IF s \in scope THEN {}
                        ELSE IF t = Account THEN Kept(s) \ {"owner"} ELSE Kept(s)
  <2>1. CASE s \in scope
    <3>1. subject'[s] = "deleted" /\ content'[s] = "none"
      BY <2>1 DEF DeletePrimaryData
    <3> QED
      BY <2>1, <3>1 DEF Kept, Exists
  <2>2. CASE s \notin scope
    <3>1. /\ content'[s] = content[s]
          /\ subject'[s] = IF t = Account /\ subject[s] = "owned" THEN "orphan"
                           ELSE subject[s]
      BY <2>2 DEF DeletePrimaryData
    <3> QED
      BY <2>2, <3>1 DEF Kept, Exists
  <2> QED
    BY <2>1, <2>2
<1>8. Keeps' = [s \in Subject |->
        IF s \in Scope[t] THEN {}
        ELSE IF t = Account THEN Keeps[s] \ {"owner"} ELSE Keeps[s]]
  BY <1>6, <1>7 DEF Keeps
<1>9. Promise!Erase(t)
  BY <1>1, <1>3, <1>4, <1>5, <1>8 DEF Promise!Erase, Phase, Scope, Keeps
<1> QED
  BY <1>1, <1>9 DEF Promise!Next

\* One subject gains what users may give it, or what readers may.
LEMMA OneKept ==
  ASSUME StagesKept, NEW s \in Subject, NEW kinds,
         Kept(s)' = kinds, \A o \in Subject \ {s} : Kept(o)' = Kept(o)
  PROVE  /\ Keeps' = [Keeps EXCEPT ![s] = kinds]
         /\ Phase' = Phase /\ Scope' = Scope
BY DEF StagesKept, Keeps, Phase, Scope

LEMMA CreateRefines ==
  ASSUME DeletionInvariant, CreateSubject, StagesKept
  PROVE  [Promise!Next]_Promise!erasureVars
<1> USE DEF DeletionInvariant
<1> PICK s : s = writer.subject
  OBVIOUS
<1>1. s \in Subject /\ subject \in [Subject -> {"none", "public", "owned", "orphan", "deleted"}]
  BY WritingShape DEF CreateSubject, AccountInvariant, AccountTypes
<1>2. CASE ~(user # "gone" /\ Creatable(s))
  <2>1. UNCHANGED Keeps
    BY <1>2 DEF CreateSubject, Keeps, Kept, Exists
  <2> QED
    BY <2>1, Stutters
<1>3. CASE user # "gone" /\ Creatable(s)
  <2> PICK kinds : kinds = {"row", "owner"}
    OBVIOUS
  <2>1. /\ subject'[s] = "owned" /\ UNCHANGED content
        /\ \A o \in Subject \ {s} : subject'[o] = subject[o]
    BY <1>1, <1>3 DEF CreateSubject
  <2>2. Kept(s)' = Kept(s) \cup kinds /\ \A o \in Subject \ {s} : Kept(o)' = Kept(o)
    BY <1>1, <1>3, <2>1 DEF Kept, Exists, Creatable
  <2>3. Keeps' = [Keeps EXCEPT ![s] = Kept(s) \cup kinds] /\ Phase' = Phase /\ Scope' = Scope
    BY <1>1, <2>2, OneKept
  <2>4. Keeps' = [Keeps EXCEPT ![s] = @ \cup kinds]
    BY <1>1, <2>3 DEF Keeps
  <2>5. ~Promise!Over(Account)
    <3>1. Promise!Over(Account) => Account \in Target
      BY DEF Promise!Over
    <3> QED
      BY <1>3, <3>1, OverShape DEF AccountInvariant, GoneOK
  <2>6. ASSUME Kept(s) = {}, NEW t \in Target, Promise!Over(t) PROVE s \notin Scope[t]
    <3>1. subject[s] = "none"
      BY <1>3, <2>6 DEF Kept, Exists, Creatable
    <3>2. PastLock(t)
      BY <2>6, OverShape DEF IsErased, PastLock
    <3> QED
      BY <1>1, <3>1, <3>2 DEF AccountInvariant, ScopeOK, Scope
  <2>7. kinds \in SUBSET (IF Promise!Over(Account) THEN Promise!Kind \ {"owner"}
                          ELSE Promise!Kind)
    BY <2>5 DEF Promise!Kind
  <2>8. Promise!Use(s)
    BY <1>1, <2>3, <2>4, <2>6, <2>7 DEF Promise!Use, Phase, Scope, Keeps
  <2> QED
    BY <1>1, <2>8 DEF Promise!Next
<1> QED
  BY <1>2, <1>3

LEMMA LinkRefines ==
  ASSUME DeletionInvariant, Link, StagesKept
  PROVE  [Promise!Next]_Promise!erasureVars
<1> USE DEF DeletionInvariant
<1> PICK s : s = writer.subject
  OBVIOUS
<1>1. s \in Subject /\ content \in [Subject -> {"none", "some", "token"}]
  BY WritingShape DEF Link, AccountInvariant, AccountTypes
<1>2. CASE ~(Exists(s) /\ content[s] = "none")
  <2>1. UNCHANGED Keeps
    BY <1>2 DEF Link, Keeps, Kept, Exists
  <2> QED
    BY <2>1, Stutters
<1>3. CASE Exists(s) /\ content[s] = "none"
  <2> PICK kinds : kinds = {"content"}
    OBVIOUS
  <2>1. /\ content'[s] = "some" /\ UNCHANGED subject
        /\ \A o \in Subject \ {s} : content'[o] = content[o]
    BY <1>1, <1>3 DEF Link
  <2>2. Kept(s)' = Kept(s) \cup kinds /\ \A o \in Subject \ {s} : Kept(o)' = Kept(o)
    BY <1>1, <1>3, <2>1 DEF Kept, Exists
  <2>3. Keeps' = [Keeps EXCEPT ![s] = Kept(s) \cup kinds] /\ Phase' = Phase /\ Scope' = Scope
    BY <1>1, <2>2, OneKept
  <2>4. Keeps' = [Keeps EXCEPT ![s] = @ \cup kinds]
    BY <1>1, <2>3 DEF Keeps
  <2>5. Kept(s) # {}
    BY <1>3 DEF Kept
  <2>6. kinds \in SUBSET (IF Promise!Over(Account) THEN Promise!Kind \ {"owner"}
                          ELSE Promise!Kind)
    BY DEF Promise!Kind
  <2>7. Promise!Use(s)
    BY <1>1, <2>3, <2>4, <2>5, <2>6 DEF Promise!Use, Phase, Scope, Keeps
  <2> QED
    BY <1>1, <2>7 DEF Promise!Next
<1> QED
  BY <1>2, <1>3

LEMMA RefreshRefines ==
  ASSUME DeletionInvariant, NEW s \in Subject, ReplaceFacts(s), StagesKept
  PROVE  [Promise!Next]_Promise!erasureVars
<1> USE DEF DeletionInvariant
<1>1. subject \in [Subject -> {"none", "public", "owned", "orphan", "deleted"}]
      /\ UNCHANGED content
  BY DEF ReplaceFacts, AccountInvariant, AccountTypes
<1>2. CASE UNCHANGED subject
  <2>1. UNCHANGED Keeps
    BY <1>1, <1>2 DEF Keeps, Kept, Exists
  <2> QED
    BY <2>1, Stutters
<1>3. CASE ~Exists(s) /\ subject' = [subject EXCEPT ![s] = "public"]
  <2>1. content[s] = "none" /\ subject[s] # "owned"
    BY <1>3 DEF AccountInvariant, AccountSafe, Exists
  <2>2. Kept(s) = {} /\ Kept(s)' = {"row"} /\ \A o \in Subject \ {s} : Kept(o)' = Kept(o)
    BY <1>1, <1>3, <2>1 DEF Kept, Exists
  <2>3. Keeps' = [Keeps EXCEPT ![s] = {"row"}] /\ Phase' = Phase /\ Scope' = Scope
    BY <2>2, OneKept
  <2>4. Promise!Publish(s)
    BY <2>2, <2>3 DEF Promise!Publish, Phase, Scope, Keeps
  <2> QED
    BY <2>4 DEF Promise!Next
<1> QED
  BY <1>2, <1>3 DEF ReplaceFacts, EnsurePublicSubject

\* Users and readers add to a subject at most, and nothing but the row to one
\* that is erased.
LEMMA UseRefines ==
  ASSUME DeletionInvariant, UseAccount \/ Retain
  PROVE  [Promise!Next]_Promise!erasureVars
<1>1. StagesKept
  BY DEF UseAccount, Admit, SignIn, CreateSubject, PutState, Link, StoreToken, ConsumeState,
     StartRefresh, ReplaceFacts, Retain, PurgeTombstone, PurgeState, StagesKept
<1>2. CASE StoreToken
  <2>1. writer.subject \in Subject /\ content \in [Subject -> {"none", "some", "token"}]
    BY <1>2, WritingShape DEF StoreToken, DeletionInvariant, AccountInvariant, AccountTypes
  <2>2. UNCHANGED Keeps
    BY <1>2, <2>1 DEF StoreToken, Keeps, Kept, Exists
  <2> QED
    BY <1>1, <2>2, Stutters
<1>3. CASE UNCHANGED <<subject, content>>
  <2>1. UNCHANGED Keeps
    BY <1>3 DEF Keeps, Kept, Exists
  <2> QED
    BY <1>1, <2>1, Stutters
<1>4. CASE ~(CreateSubject \/ Link \/ StoreToken \/ \E s \in Subject : ReplaceFacts(s))
  <2>1. UNCHANGED <<subject, content>>
    BY <1>4 DEF UseAccount, Admit, SignIn, PutState, ConsumeState, StartRefresh, Retain,
       PurgeTombstone, PurgeState, accountVars
  <2> QED
    BY <1>3, <2>1
<1> QED
  BY <1>1, <1>2, <1>4, CreateRefines, LinkRefines, RefreshRefines

LEMMA StepRefines ==
  ASSUME DeletionInvariant, [Next]_vars
  PROVE  [Promise!Next]_Promise!erasureVars
<1>1. CASE UNCHANGED deletionVars \/ UNCHANGED vars
  <2>1. UNCHANGED <<request, subject, content>>
    BY <1>1 DEF vars, deletionVars, accountVars
  <2> QED
    BY <2>1, Stutters DEF StagesKept, Keeps, Kept, Exists
<1> QED
  BY <1>1, RevokeRefines, DeleteRefines, UseRefines, BookkeepingRefines, TargetRefines
     DEF Next, Work, TargetStep, Bookkeeping

\* The deletion implements Erasure: requests go forward once, scopes are
\* fixed when the credentials are revoked, what is erased comes back only as
\* a public row of nobody (EnsurePublicSubject), and an account that is gone
\* owns nothing again.
THEOREM DeletionImplementsErasure == Spec => ImplementsErasure
<1>1. Init => Promise!Init
  BY InitRefines
<1>2. DeletionInvariant /\ [Next]_vars => [Promise!Next]_Promise!erasureVars
  BY StepRefines
<1> QED
  BY <1>1, <1>2, Invariance, PTL DEF Spec, Promise!Spec, ImplementsErasure

=============================================================================
