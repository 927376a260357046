--------------------------- MODULE SyncSafetyProofs ---------------------------
(***************************************************************************)
(* The safety properties of SyncExecution, for any number of connections,  *)
(* requests, workers, jobs and claims.                                     *)
(*                                                                         *)
(* A property is about one or two variables that few actions change.  So   *)
(* the steps of the system are classified once for each variable           *)
(* (RowSteps, LeaseSteps, FactSteps, HandlerSteps, JobSteps, WorkerSteps), *)
(* and each invariant is proved over the classes that can disturb it.      *)
(***************************************************************************)
EXTENDS SyncExecutionProofs

USE ConnectionAssumption, SyncAssumption

\* Every action, with its actor: the cases the classifications go through.
LEMMA Steps ==
  ASSUME [Next]_vars
  PROVE  \/ UNCHANGED vars
         \/ \E c \in Conn : Connect(c) /\ UNCHANGED syncVars
         \/ \E c \in Conn : Disconnect(c)
         \/ \E c \in Conn, k \in Key, purge \in Policy : Enqueue(c, k, purge)
         \/ \E h \in Handler, c \in Conn, edit \in Edit :
              ReadConnection(h, c, edit) /\ UNCHANGED syncVars
         \/ \E h \in Handler : SaveEdit(h) /\ UNCHANGED syncVars
         \/ \E h \in Handler : AbandonEdit(h) /\ UNCHANGED syncVars
         \/ \E c \in Conn : LeaseExpires(c)
         \/ \E j \in Job : ClaimExpires(j)
         \/ \E j \in Job : KeyExpires(j)
         \/ \E j \in Job : PurgeFinished(j)
         \/ \E w \in Worker : Select(w) \/ WorkerStep(w) \/ DatabaseError(w)
                              \/ Crash(w)
BY DEF Next, ApiStep, Expiry, ServiceStep

LEMMA RowSteps ==
  ASSUME [Next]_vars
  PROVE  \/ UNCHANGED row
         \/ \E c \in Conn : Connect(c)
         \/ \E c \in Conn : Disconnect(c)
         \/ \E h \in Handler : SaveEdit(h)
         \/ \E w \in Worker : FencedWrite(w)
<1>1. ASSUME NEW w \in Worker, WorkerStep(w)
      PROVE  UNCHANGED row \/ FencedWrite(w)
  BY <1>1 DEF WorkerStep, AcquireExecution, SkipBusy, ReadJob, LoadConnection,
     SaveJob, ClaimJob, MarkAttempt, FetchActivity, Publish, PurgeRange,
     RecordFailure, ConfirmSuccess, Compensate, CompleteJob, ReleaseExecution,
     WriteOr, storeVars
<1>2. ASSUME NEW w \in Worker, Select(w) \/ DatabaseError(w) \/ Crash(w)
      PROVE  UNCHANGED row \/ FencedWrite(w)
  BY <1>2 DEF Select, SelectDue, SelectClaimable, DatabaseError, Crash, storeVars
<1> QED
  BY <1>1, <1>2, Steps DEF vars, storeVars, Enqueue, ReadConnection, AbandonEdit,
     LeaseExpires, ClaimExpires, KeyExpires, PurgeFinished

LEMMA LeaseSteps ==
  ASSUME [Next]_vars
  PROVE  \/ UNCHANGED lease
         \/ \E c \in Conn : Disconnect(c)
         \/ \E c \in Conn, k \in Key, purge \in Policy : Enqueue(c, k, purge)
         \/ \E c \in Conn : LeaseExpires(c)
         \/ \E w \in Worker : AcquireExecution(w) \/ ReleaseExecution(w)
<1>1. ASSUME NEW w \in Worker, WorkerStep(w)
      PROVE  UNCHANGED lease \/ AcquireExecution(w) \/ ReleaseExecution(w)
  BY <1>1 DEF WorkerStep, SkipBusy, ReadJob, LoadConnection,
     SaveJob, ClaimJob, MarkAttempt, FetchActivity, Publish, PurgeRange,
     RecordFailure, ConfirmSuccess, Compensate, CompleteJob,
     WriteOr, storeVars
<1>2. ASSUME NEW w \in Worker, Select(w) \/ DatabaseError(w) \/ Crash(w)
      PROVE  UNCHANGED lease
  BY <1>2 DEF Select, SelectDue, SelectClaimable, DatabaseError, Crash, storeVars
<1> QED
  BY <1>1, <1>2, Steps DEF vars, storeVars, Connect, ReadConnection, SaveEdit,
     AbandonEdit, ClaimExpires, KeyExpires, PurgeFinished

LEMMA FactSteps ==
  ASSUME [Next]_vars
  PROVE  \/ UNCHANGED facts
         \/ \E c \in Conn : Disconnect(c)
         \/ \E w \in Worker : FencedWrite(w) \/ PurgeRange(w) \/ Compensate(w)
<1>1. ASSUME NEW w \in Worker, WorkerStep(w)
      PROVE  UNCHANGED facts \/ FencedWrite(w) \/ PurgeRange(w) \/ Compensate(w)
  BY <1>1 DEF WorkerStep, AcquireExecution, SkipBusy, ReadJob, LoadConnection,
     SaveJob, ClaimJob, MarkAttempt, FetchActivity, Publish,
     RecordFailure, ConfirmSuccess, CompleteJob, ReleaseExecution,
     WriteOr, storeVars
<1>2. ASSUME NEW w \in Worker, Select(w) \/ DatabaseError(w) \/ Crash(w)
      PROVE  UNCHANGED facts \/ FencedWrite(w)
  BY <1>2 DEF Select, SelectDue, SelectClaimable, DatabaseError, Crash, storeVars
<1> QED
  BY <1>1, <1>2, Steps DEF vars, storeVars, Connect, Enqueue, ReadConnection,
     SaveEdit, AbandonEdit, LeaseExpires, ClaimExpires, KeyExpires, PurgeFinished

LEMMA HandlerSteps ==
  ASSUME [Next]_vars
  PROVE  \/ UNCHANGED <<handler, completed>>
         \/ \E h \in Handler, c \in Conn, edit \in Edit : ReadConnection(h, c, edit)
         \/ \E h \in Handler : SaveEdit(h) \/ AbandonEdit(h)
<1>1. ASSUME NEW w \in Worker,
             WorkerStep(w) \/ Select(w) \/ DatabaseError(w) \/ Crash(w)
      PROVE  UNCHANGED <<handler, completed>>
  BY <1>1 DEF WorkerStep, AcquireExecution, SkipBusy, ReadJob, LoadConnection,
     SaveJob, ClaimJob, MarkAttempt, FetchActivity, Publish, PurgeRange,
     RecordFailure, ConfirmSuccess, Compensate, CompleteJob, ReleaseExecution,
     WriteOr, Select, SelectDue, SelectClaimable, DatabaseError, Crash,
     serviceVars
<1> QED
  BY <1>1, Steps DEF vars, serviceVars, Connect, Disconnect, Enqueue,
     LeaseExpires, ClaimExpires, KeyExpires, PurgeFinished

LEMMA JobSteps ==
  ASSUME [Next]_vars
  PROVE  \/ UNCHANGED job
         \/ \E c \in Conn : Disconnect(c)
         \/ \E c \in Conn, k \in Key, purge \in Policy : Enqueue(c, k, purge)
         \/ \E j \in Job : ClaimExpires(j) \/ KeyExpires(j) \/ PurgeFinished(j)
         \/ \E w \in Worker : SaveJob(w) \/ ClaimJob(w) \/ CompleteJob(w)
<1>1. ASSUME NEW w \in Worker, WorkerStep(w)
      PROVE  UNCHANGED job \/ SaveJob(w) \/ ClaimJob(w) \/ CompleteJob(w)
  BY <1>1 DEF WorkerStep, AcquireExecution, SkipBusy, ReadJob, LoadConnection,
     MarkAttempt, FetchActivity, Publish, PurgeRange,
     RecordFailure, ConfirmSuccess, Compensate, ReleaseExecution, WriteOr
<1>2. ASSUME NEW w \in Worker, Select(w) \/ DatabaseError(w) \/ Crash(w)
      PROVE  UNCHANGED job
  BY <1>2 DEF Select, SelectDue, SelectClaimable, DatabaseError, Crash
<1> QED
  BY <1>1, <1>2, Steps DEF vars, syncVars, Connect, ReadConnection, SaveEdit,
     AbandonEdit, LeaseExpires

\* Only an acquisition gives a worker an execution claim, and only the claim of
\* the job makes it ready to mark the attempt.
LEMMA WorkerSteps ==
  ASSUME TypeOK, [Next]_vars, NEW v \in Worker
  PROVE  /\ \/ worker'[v].exec \in {worker[v].exec, None}
            \/ AcquireExecution(v)
         /\ \/ worker'[v].pc # "marking"
            \/ worker'[v] = worker[v]
            \/ ClaimJob(v) /\ Eligible(v) /\ worker'[v].status = worker[v].status
<1> USE DEF WorkerOK
<1>0. WorkerOK
  BY TypeParts
<1>1. IdleWorker.exec = None /\ IdleWorker.pc # "marking"
  BY DEF IdleWorker
<1>2. CASE UNCHANGED worker
  BY <1>2
<1>3. ASSUME NEW w \in Worker, worker' = [worker EXCEPT ![w] = IdleWorker]
      PROVE  /\ worker'[v].exec \in {worker[v].exec, None}
             /\ worker'[v].pc # "marking" \/ worker'[v] = worker[v]
  BY <1>0, <1>1, <1>3
<1>4. ASSUME NEW w \in Worker, NEW p \in PC \ {"marking"}, Go(w, p)
      PROVE  /\ worker'[v].exec \in {worker[v].exec, None}
             /\ worker'[v].pc # "marking" \/ worker'[v] = worker[v]
  BY <1>0, <1>4 DEF WorkerState, Go
<1>5. ASSUME NEW w \in Worker, Select(w)
      PROVE  /\ worker'[v].exec \in {worker[v].exec, None}
             /\ worker'[v].pc # "marking" \/ worker'[v] = worker[v]
  <2>1. PICK r : /\ worker' = [worker EXCEPT ![w] = r]
                 /\ r.exec = None /\ r.pc \in {"due", "picked"}
    <3>1. ASSUME NEW c \in Conn, NEW purge \in Policy, SelectDue(w, c, purge)
          PROVE  \E r : /\ worker' = [worker EXCEPT ![w] = r]
                        /\ r.exec = None /\ r.pc = "due"
      <4> DEFINE r == [IdleWorker EXCEPT !.pc = "due", !.conn = c, !.purge = purge]
      <4>1. r.exec = None /\ r.pc = "due"
        BY DEF IdleWorker
      <4> QED
        BY <3>1, <4>1 DEF SelectDue
    <3>2. ASSUME NEW j \in Job, SelectClaimable(w, j)
          PROVE  \E r : /\ worker' = [worker EXCEPT ![w] = r]
                        /\ r.exec = None /\ r.pc = "picked"
      <4> DEFINE r == [IdleWorker EXCEPT !.pc = "picked", !.conn = job[j].conn,
                                         !.job = j]
      <4>1. r.exec = None /\ r.pc = "picked"
        BY DEF IdleWorker
      <4> QED
        BY <3>2, <4>1 DEF SelectClaimable
    <3> QED
      BY <1>5, <3>1, <3>2 DEF Select
  <2> QED
    BY <1>0, <2>1
<1>6. ASSUME NEW w \in Worker, AcquireExecution(w)
      PROVE  /\ worker'[v].exec = worker[v].exec \/ AcquireExecution(v)
             /\ worker'[v].pc # "marking" \/ worker'[v] = worker[v]
  BY <1>0, <1>6 DEF WorkerState, AcquireExecution
<1>7. ASSUME NEW w \in Worker, ReadJob(w) \/ LoadConnection(w) \/ SaveJob(w)
      PROVE  /\ worker'[v].exec \in {worker[v].exec, None}
             /\ worker'[v].pc # "marking" \/ worker'[v] = worker[v]
  BY <1>0, <1>7 DEF WorkerState, ReadJob, LoadConnection, SaveJob
<1>8. ASSUME NEW w \in Worker, ClaimJob(w)
      PROVE  /\ worker'[v].exec \in {worker[v].exec, None}
             /\ \/ worker'[v].pc # "marking" \/ worker'[v] = worker[v]
                \/ ClaimJob(v) /\ Eligible(v) /\ worker'[v].status = worker[v].status
  <2>1. CASE Claimable(worker[w].job)
    <3> DEFINE r == [worker[w] EXCEPT
                       !.pc = IF Eligible(w) THEN "marking" ELSE "failed",
                       !.claim = FreshToken]
    <3>1. worker' = [worker EXCEPT ![w] = r]
      BY <1>8, <2>1, ClaimedJob
    <3>2. /\ r.exec = worker[w].exec /\ r.status = worker[w].status
          /\ r.pc = "marking" => Eligible(w)
      BY <1>0 DEF WorkerState
    <3> HIDE DEF r
    <3> QED
      BY <1>0, <1>8, <3>1, <3>2
  <2>2. CASE ~Claimable(worker[w].job)
    BY <1>4, <1>8, <2>2 DEF ClaimJob, PC
  <2> QED
    BY <2>1, <2>2
<1>9. ASSUME NEW w \in Worker,
             \/ MarkAttempt(w) \/ FetchActivity(w) \/ Publish(w) \/ PurgeRange(w)
             \/ RecordFailure(w) \/ ConfirmSuccess(w) \/ Compensate(w)
             \/ CompleteJob(w)
      PROVE  /\ worker'[v].exec \in {worker[v].exec, None}
             /\ worker'[v].pc # "marking" \/ worker'[v] = worker[v]
  <2>1. /\ {"fetching", "publishing", "confirming", "recording", "failed",
            "succeeded", "compensating", "releasing"} \subseteq PC \ {"marking"}
        /\ FailurePC(w) \in PC \ {"marking"}
    BY DEF PC, FailurePC
  <2>2. PICK p \in PC \ {"marking"} : Go(w, p)
    BY <1>9, <2>1 DEF MarkAttempt, FetchActivity, Publish, PurgeRange,
       RecordFailure, ConfirmSuccess, Compensate, CompleteJob, WriteOr
  <2> QED
    BY <1>4, <2>2
<1>10. ASSUME NEW w \in Worker, DatabaseError(w)
       PROVE  /\ worker'[v].exec \in {worker[v].exec, None}
              /\ worker'[v].pc # "marking" \/ worker'[v] = worker[v]
  <2>1. ErrorPC(w) # "marking"
    BY DEF ErrorPC, FailurePC
  <2>2. CASE ErrorPC(w) = "idle"
    BY <1>3, <1>10, <2>2 DEF DatabaseError
  <2>3. CASE ErrorPC(w) # "idle"
    BY <1>0, <1>10, <2>1, <2>3 DEF WorkerState, DatabaseError
  <2> QED
    BY <2>2, <2>3
<1>11. ASSUME NEW w \in Worker, SkipBusy(w) \/ ReleaseExecution(w) \/ Crash(w)
       PROVE  worker' = [worker EXCEPT ![w] = IdleWorker]
  BY <1>11 DEF SkipBusy, ReleaseExecution, Crash
<1>12. ASSUME NEW w \in Worker, WorkerStep(w)
       PROVE  /\ worker'[v].exec \in {worker[v].exec, None} \/ AcquireExecution(v)
              /\ \/ worker'[v].pc # "marking" \/ worker'[v] = worker[v]
                 \/ ClaimJob(v) /\ Eligible(v)
                    /\ worker'[v].status = worker[v].status
  BY <1>3, <1>6, <1>7, <1>8, <1>9, <1>11, <1>12 DEF WorkerStep
<1> QED
  BY <1>2, <1>3, <1>5, <1>10, <1>11, <1>12, Steps
     DEF vars, syncVars, Connect, Disconnect, Enqueue, LeaseExpires,
         ClaimExpires, KeyExpires, PurgeFinished

-----------------------------------------------------------------------------
(***************************************************************************)
(* Mutual exclusion.  ExclusiveExecution speaks of the claim the database  *)
(* holds; it is inductive once no two workers ever hold the same claim,    *)
(* which is what a fresh token per acquisition gives.                      *)
(***************************************************************************)
UniqueClaims ==
  \A v, w \in Worker :
    v # w /\ worker[v].exec # None => worker[v].exec # worker[w].exec

LEMMA UniqueClaimsInit == Init => UniqueClaims
BY DEF Init, UniqueClaims, IdleWorker

LEMMA UniqueClaimsNext == TypeOK /\ UniqueClaims /\ [Next]_vars => UniqueClaims'
<1> SUFFICES ASSUME TypeOK, UniqueClaims, [Next]_vars,
                    NEW v \in Worker, NEW w \in Worker, v # w,
                    worker'[v].exec # None
             PROVE  worker'[v].exec # worker'[w].exec
  BY DEF UniqueClaims
<1>1. ASSUME NEW u \in Worker, AcquireExecution(u), NEW x \in Worker, x # u
      PROVE  /\ worker'[u].exec \notin {worker[y].exec : y \in Worker}
             /\ worker'[x].exec = worker[x].exec
  <2>1. WorkerOK
    BY TypeParts
  <2>2. worker'[u].exec = FreshToken /\ worker'[x] = worker[x]
    <3> DEFINE r == [worker[u] EXCEPT
                       !.pc = IF worker[u].job = None THEN "reread" ELSE "acquired",
                       !.exec = FreshToken]
    <3>1. worker' = [worker EXCEPT ![u] = r]
      BY <1>1, Acquired
    <3>2. r.exec = FreshToken
      BY <2>1 DEF WorkerOK, WorkerState
    <3> HIDE DEF r
    <3> QED
      BY <1>1, <2>1, <3>1, <3>2 DEF WorkerOK
  <2>3. FreshToken \notin {worker[y].exec : y \in Worker}
    BY <1>1, Acquired DEF TokensInUse
  <2> QED
    BY <2>2, <2>3
<1>2. CASE AcquireExecution(v)
  BY <1>1, <1>2
<1>3. CASE AcquireExecution(w)
  BY <1>1, <1>3
<1>4. CASE ~AcquireExecution(v) /\ ~AcquireExecution(w)
  BY <1>4, WorkerSteps DEF UniqueClaims
<1> QED
  BY <1>2, <1>3, <1>4

\* However execution leases expire and are taken over while their holders are
\* still running, at most one worker of a connection passes the fence that
\* UpdateConnectionAfterSync and LockSyncConnection check.
THEOREM ExclusiveExecutionHolds == Spec => []ExclusiveExecution
<1>1. Init => TypeOK /\ UniqueClaims
  BY TypeInit, UniqueClaimsInit
<1>2. TypeOK /\ UniqueClaims /\ [Next]_vars => TypeOK' /\ UniqueClaims'
  BY TypeNext, UniqueClaimsNext
<1>3. TypeOK /\ UniqueClaims => ExclusiveExecution
  <2> SUFFICES ASSUME TypeOK, UniqueClaims, NEW v \in Worker, NEW w \in Worker,
                      Executing(v), Executing(w), worker[v].exec = worker[w].exec
               PROVE  v = w
    BY DEF ExclusiveExecution
  <2>1. worker[v].exec # None
    BY DEF TypeOK, WorkerShape
  <2> QED
    BY <2>1 DEF UniqueClaims
<1> QED
  BY <1>1, <1>2, <1>3, PTL DEF Spec

-----------------------------------------------------------------------------
(***************************************************************************)
(* What a request remembers.  A request saves the row it read; what makes  *)
(* the save harmless is what Allowed let through, so the invariants on     *)
(* rows are inductive only together with RequestsAllowed.                  *)
(***************************************************************************)
RequestsAllowed ==
  \A h \in Handler : handler[h].pc = "saving" =>
    /\ handler[h].snapshot.status # "absent"
    /\ Allowed(handler[h].conn, handler[h].snapshot, handler[h].edit)

LEMMA RequestsAllowedInit == Init => RequestsAllowed
BY DEF Init, ServiceInit, IdleHandler, RequestsAllowed

\* A request that has just read a connection remembers its row; every other
\* request is as it was, or done.
LEMMA Requests ==
  ASSUME TypeOK, [Next]_vars, NEW h \in Handler, handler'[h].pc = "saving"
  PROVE  \/ handler[h].pc = "saving" /\ handler'[h] = handler[h]
         \/ \E c \in Conn, edit \in Edit :
              /\ ReadConnection(h, c, edit)
              /\ handler'[h] = [pc |-> "saving", conn |-> c, edit |-> edit,
                                snapshot |-> row[c]]
<1>1. handler \in [Handler -> HandlerState]
  BY DEF TypeOK, ServiceTypeOK
<1>2. CASE UNCHANGED handler
  BY <1>2
<1>3. ASSUME NEW g \in Handler, NEW c \in Conn, NEW edit \in Edit,
             ReadConnection(g, c, edit)
      PROVE  \/ handler'[h] = handler[h]
             \/ /\ ReadConnection(h, c, edit)
                /\ handler'[h] = [pc |-> "saving", conn |-> c, edit |-> edit,
                                  snapshot |-> row[c]]
  BY <1>1, <1>3 DEF ReadConnection
<1>4. ASSUME NEW g \in Handler, SaveEdit(g) \/ AbandonEdit(g)
      PROVE  handler'[h] = handler[h]
  <2>1. handler' = [handler EXCEPT ![g] = IdleHandler]
    BY <1>4 DEF SaveEdit, AbandonEdit
  <2> QED
    BY <1>1, <2>1 DEF IdleHandler
<1> QED
  BY <1>2, <1>3, <1>4, HandlerSteps

LEMMA RequestsAllowedNext ==
  TypeOK /\ RequestsAllowed /\ [Next]_vars => RequestsAllowed'
<1> SUFFICES ASSUME TypeOK, RequestsAllowed, [Next]_vars,
                    NEW h \in Handler, handler'[h].pc = "saving"
             PROVE  /\ handler'[h].snapshot.status # "absent"
                    /\ Allowed(handler'[h].conn, handler'[h].snapshot,
                               handler'[h].edit)
  BY DEF RequestsAllowed, Allowed
<1>1. CASE handler[h].pc = "saving" /\ handler'[h] = handler[h]
  BY <1>1 DEF RequestsAllowed
<1>2. ASSUME NEW c \in Conn, NEW edit \in Edit, ReadConnection(h, c, edit),
             handler'[h] = [pc |-> "saving", conn |-> c, edit |-> edit,
                            snapshot |-> row[c]]
      PROVE  /\ handler'[h].snapshot.status # "absent"
             /\ Allowed(handler'[h].conn, handler'[h].snapshot, handler'[h].edit)
  <2>1. /\ handler'[h].snapshot = row[c] /\ handler'[h].conn = c
        /\ handler'[h].edit = edit
    BY <1>2
  <2>2. row[c].status # "absent" /\ Allowed(c, row[c], edit)
    BY <1>2 DEF ReadConnection
  <2> QED
    BY <2>1, <2>2
<1> QED
  BY <1>1, <1>2, Requests

\* The row a request saves.
LEMMA SavedRow ==
  ASSUME TypeOK, NEW h \in Handler, SaveEdit(h)
  PROVE  LET c == handler[h].conn
             edited == Edited(handler[h].snapshot, handler[h].edit)
         IN /\ c \in Conn /\ handler[h].edit \in Edit
            /\ handler[h].snapshot \in Row /\ edited \in Row
            /\ row[c].status # "revoked"
            /\ row' = [row EXCEPT ![c] =
                 [edited EXCEPT !.secret = edited.secret /\ edited.private]]
<1> DEFINE c == handler[h].conn
           edited == Edited(handler[h].snapshot, handler[h].edit)
<1>1. /\ c \in Conn /\ handler[h].edit \in Edit /\ handler[h].snapshot \in Row
      /\ handler[h].snapshot.failures \in 0..MaxAttempts
  BY DEF SaveEdit, TypeOK, ServiceTypeOK, HandlerState, FailuresBounded
<1>2. edited \in Row
  BY <1>1, EditedType
<1>3. /\ row[c].status # "revoked"
      /\ row' = [row EXCEPT ![c] =
           [edited EXCEPT !.secret = edited.secret /\ edited.private]]
  BY DEF SaveEdit, SaveConnection, CanSave
<1> QED
  BY <1>1, <1>2, <1>3

\* The row a worker's state write leaves.
LEMMA WrittenRow ==
  ASSUME TypeOK, NEW w \in Worker, FencedWrite(w)
  PROVE  LET c == worker[w].conn
             n == worker[w].attempt
         IN /\ Fenced(c, worker[w].exec) /\ c \in Conn
            /\ n \in 0..MaxAttempts /\ worker[w].exec \in Token
            /\ \/ UNCHANGED row
               \/ /\ worker[w].pc = "marking"
                  /\ row' = [row EXCEPT ![c] = [row[c] EXCEPT
                       !.status = worker[w].status,
                       !.failures = worker[w].failures, !.retry = FALSE]]
               \/ row' = [row EXCEPT ![c] = [row[c] EXCEPT
                    !.status = "error", !.failures = n, !.retry = NextRetry(n)]]
               \/ row' = [row EXCEPT ![c] = [row[c] EXCEPT
                    !.status = "active", !.failures = 0, !.retry = FALSE]]
<1> DEFINE c == worker[w].conn
<1>1. /\ c \in Conn /\ worker[w].attempt \in 0..MaxAttempts
      /\ worker[w].exec \in Token
  <2>1. worker[w] \in WorkerState /\ ShapedWorker(worker[w])
    BY TypeParts, WorkerRecord
  <2> QED
    BY <2>1 DEF FencedWrite, ShapedWorker, WorkerState
<1> QED
  BY <1>1 DEF FencedWrite, UpdateConnectionAfterSync, SaveConnectionActivity

LEMMA OtherRowKept ==
  ASSUME TypeOK, NEW w \in Worker, FencedWrite(w),
         NEW c \in Conn, worker[w].conn # c
  PROVE  row'[c] = row[c]
<1>1. row \in [Conn -> Row]
  BY DEF TypeOK, StoreTypeOK
<1>2. UNCHANGED row \/ \E r : row' = [row EXCEPT ![worker[w].conn] = r]
  BY WrittenRow
<1> QED
  BY <1>1, <1>2

-----------------------------------------------------------------------------
(***************************************************************************)
(* Disconnects are final.  A worker about to mark its attempt writes the   *)
(* status it loaded, so that status must not be "revoked" (the eligibility *)
(* check after the claim); a request writes the row it read.               *)
(***************************************************************************)
WorkersEligible == \A w \in Worker : worker[w].pc = "marking" => Eligible(w)

RevokedInvariant ==
  TypeOK /\ RequestsAllowed /\ WorkersEligible /\ RevokedKeepsNothing

LEMMA WorkersEligibleNext ==
  TypeOK /\ WorkersEligible /\ [Next]_vars => WorkersEligible'
<1> SUFFICES ASSUME TypeOK, WorkersEligible, [Next]_vars,
                    NEW w \in Worker, worker'[w].pc = "marking"
             PROVE  worker'[w].status \in {"active", "error"}
  BY DEF WorkersEligible, Eligible
<1> QED
  BY WorkerSteps DEF WorkersEligible, Eligible

LEMMA RevokedRow ==
  ASSUME TypeOK, RequestsAllowed, WorkersEligible, [Next]_vars,
         NEW c \in Conn, ~Disconnect(c)
  PROVE  /\ row[c].status = "revoked" => row'[c] = row[c]
         /\ row'[c].status = "revoked" => row[c].status = "revoked"
<1> USE DEF Syncable
<1>0. row \in [Conn -> Row]
  BY DEF TypeOK, StoreTypeOK
<1>1. CASE UNCHANGED row
  BY <1>1
<1>2. ASSUME NEW d \in Conn, Connect(d)
      PROVE  /\ row[c].status = "revoked" => row'[c] = row[c]
             /\ row'[c].status = "revoked" => row[c].status = "revoked"
  BY <1>0, <1>2 DEF Connect
<1>3. ASSUME NEW d \in Conn, Disconnect(d)
      PROVE  row'[c] = row[c]
  BY <1>0, <1>3 DEF Disconnect, RevokeConnectionAggregate
<1>4. ASSUME NEW h \in Handler, SaveEdit(h)
      PROVE  /\ row[c].status = "revoked" => row'[c] = row[c]
             /\ row'[c].status = "revoked" => row[c].status = "revoked"
  <2> DEFINE edited == Edited(handler[h].snapshot, handler[h].edit)
             r == [edited EXCEPT !.secret = edited.secret /\ edited.private]
  <2>1. /\ handler[h].edit \in Edit /\ handler[h].snapshot \in Row
        /\ edited \in Row /\ row[handler[h].conn].status # "revoked"
        /\ row' = [row EXCEPT ![handler[h].conn] = r]
    BY <1>4, SavedRow
  <2>2. Allowed(handler[h].conn, handler[h].snapshot, handler[h].edit)
    BY <1>4 DEF SaveEdit, RequestsAllowed
  <2>3. handler[h].snapshot.status # "revoked"
    BY <2>1, <2>2 DEF Allowed, Edit
  <2>4. edited.status # "revoked"
    BY <2>1, <2>3 DEF Edited, Edit, Row
  <2>5. r.status # "revoked"
    BY <2>1, <2>4 DEF Row
  <2> HIDE DEF r
  <2> QED
    BY <1>0, <2>1, <2>5
<1>5. ASSUME NEW w \in Worker, FencedWrite(w)
      PROVE  /\ row[c].status = "revoked" => row'[c] = row[c]
             /\ row'[c].status = "revoked" => row[c].status = "revoked"
  <2>1. /\ worker[w].conn \in Conn
        /\ Syncable(worker[w].conn)
    BY <1>5, WrittenRow DEF Fenced
  <2>2. CASE worker[w].conn # c
    <3>1. row'[c] = row[c]
      BY <1>0, <1>5, <2>1, <2>2, WrittenRow
    <3> QED
      BY <3>1
  <2>3. CASE worker[w].conn = c
    <3> DEFINE n == worker[w].attempt
               r1 == [row[c] EXCEPT !.status = worker[w].status,
                        !.failures = worker[w].failures, !.retry = FALSE]
               r2 == [row[c] EXCEPT !.status = "error", !.failures = n,
                                    !.retry = NextRetry(n)]
               r3 == [row[c] EXCEPT !.status = "active", !.failures = 0,
                                    !.retry = FALSE]
    <3>1. row[c] \in Row
      BY <1>0
    <3>2. row[c].status # "revoked"
      BY <2>1, <2>3
    <3>3. /\ r1.status = worker[w].status /\ r2.status = "error"
          /\ r3.status = "active"
      BY <3>1 DEF Row
    <3>4. \/ row'[c] = row[c]
          \/ worker[w].pc = "marking" /\ row'[c] = r1
          \/ row'[c] = r2
          \/ row'[c] = r3
      <4>1. \/ UNCHANGED row
            \/ worker[w].pc = "marking" /\ row' = [row EXCEPT ![c] = r1]
            \/ row' = [row EXCEPT ![c] = r2]
            \/ row' = [row EXCEPT ![c] = r3]
        BY <1>5, <2>3, WrittenRow
      <4> HIDE DEF r1, r2, r3
      <4> QED
        BY <1>0, <4>1
    <3> HIDE DEF r1, r2, r3
    <3> QED
      BY <3>2, <3>3, <3>4 DEF WorkersEligible, Eligible
  <2> QED
    BY <2>2, <2>3
<1> QED
  BY <1>1, <1>2, <1>3, <1>4, <1>5, RowSteps

LEMMA DisconnectKeepsNothing ==
  ASSUME TypeOK, NEW c \in Conn, Disconnect(c),
         row[c].status = "revoked" => /\ ~row[c].secret /\ ~row[c].private
                                      /\ lease[c] = NoLease
  PROVE  /\ row'[c].status = "revoked" /\ ~row'[c].secret /\ ~row'[c].private
         /\ lease'[c] = NoLease
         /\ AuthMethod[c] # "none" => facts'[c] = {}
         /\ row[c].status = "revoked" => row'[c] = row[c]
<1> DEFINE r == [row[c] EXCEPT !.status = "revoked", !.secret = FALSE,
                               !.private = FALSE]
<1>1. /\ row[c] \in Row /\ row \in [Conn -> Row] /\ lease \in [Conn -> Lease]
      /\ facts \in [Environment -> SUBSET Conn] /\ c \in Environment
  BY DEF TypeOK, StoreTypeOK, Environment
<1>2. row'[c] = r
  BY <1>1 DEF Disconnect, RevokeConnectionAggregate
<1>3. r.status = "revoked" /\ ~r.secret /\ ~r.private
  BY <1>1 DEF Row
<1>4. row[c].status = "revoked" => r = row[c]
  BY <1>1 DEF Row
<1>5. lease'[c] = NoLease /\ (AuthMethod[c] # "none" => facts'[c] = {})
  BY <1>1 DEF Disconnect, RevokeConnectionAggregate
<1> QED
  BY <1>2, <1>3, <1>4, <1>5

\* Nobody acquires or publishes for a connection that is not synchronized.
LEMMA LeaseStaysFree ==
  ASSUME TypeOK, [Next]_vars, NEW c \in Conn, ~Syncable(c), lease[c] = NoLease
  PROVE  lease'[c] = NoLease
<1>0. lease \in [Conn -> Lease] /\ ~lease[c].live /\ lease[c].token = None
  BY DEF TypeOK, StoreTypeOK, NoLease
<1>1. ASSUME NEW d \in Conn, Disconnect(d) \/ LeaseExpires(d)
      PROVE  lease'[c] = NoLease
  BY <1>0, <1>1 DEF Disconnect, RevokeConnectionAggregate, LeaseExpires
<1>2. ASSUME NEW d \in Conn, NEW k \in Key, NEW purge \in Policy,
             Enqueue(d, k, purge)
      PROVE  lease'[c] = NoLease
  BY <1>0, <1>2 DEF Enqueue
<1>3. ASSUME NEW w \in Worker, AcquireExecution(w)
      PROVE  lease'[c] = NoLease
  <2>1. worker[w].conn # c
    BY <1>3 DEF AcquireExecution, TryAcquireSyncExecution, CanAcquire
  <2>2. lease' = [lease EXCEPT ![worker[w].conn] =
                    [token |-> FreshToken, live |-> TRUE]]
    BY <1>3, Acquired
  <2>3. lease'[c] = lease[c]
    BY <1>0, <2>1, <2>2
  <2> QED
    BY <2>3
<1>4. ASSUME NEW w \in Worker, ReleaseExecution(w)
      PROVE  lease'[c] = NoLease
  BY <1>0, <1>4 DEF ReleaseExecution, ReleaseSyncExecution
<1> QED
  BY <1>1, <1>2, <1>3, <1>4, LeaseSteps

LEMMA FactsStayAway ==
  ASSUME TypeOK, [Next]_vars, NEW c \in Conn, ~Syncable(c),
         AuthMethod[c] # "none", facts[c] = {}
  PROVE  facts'[c] = {}
<1>0. /\ facts \in [Environment -> SUBSET Conn] /\ c \in Environment
      /\ \A d \in Conn : EnvironmentOf(d) = c => d = c
      /\ \A d \in Conn : EnvironmentOf(d) \in Environment
  BY DEF TypeOK, StoreTypeOK, Environment, EnvironmentOf
<1>1. ASSUME NEW d \in Conn, Disconnect(d)
      PROVE  facts'[c] = {}
  <2>1. facts' = facts \/ facts' = [facts EXCEPT ![d] = {}]
    BY <1>1 DEF Disconnect, RevokeConnectionAggregate
  <2> QED
    BY <1>0, <2>1
<1>2. ASSUME NEW w \in Worker, FencedWrite(w)
      PROVE  facts'[c] = {}
  <2>1. worker[w].conn \in Conn /\ worker[w].conn # c
    BY <1>2, WrittenRow DEF Fenced
  <2>2. EnvironmentOf(worker[w].conn) # c
    BY <1>0, <2>1
  <2>3. UNCHANGED facts \/ SaveConnectionActivity(worker[w].conn, worker[w].exec)
    BY <1>2 DEF FencedWrite
  <2> QED
    BY <1>0, <2>2, <2>3 DEF SaveConnectionActivity
<1>3. ASSUME NEW w \in Worker, PurgeRange(w) \/ Compensate(w)
      PROVE  facts'[c] = {}
  <2>1. ReplaceFacts(worker[w].conn)
    BY <1>3 DEF PurgeRange, Compensate
  <2> QED
    BY <1>0, <2>1 DEF ReplaceFacts
<1> QED
  BY <1>1, <1>2, <1>3, FactSteps

LEMMA RevokedInvariantInit == Init => RevokedInvariant
<1> SUFFICES ASSUME Init PROVE WorkersEligible /\ RevokedKeepsNothing
  BY TypeInit, RequestsAllowedInit DEF RevokedInvariant
<1> QED
  BY DEF Init, StoreInit, NoRow, IdleWorker, WorkersEligible, RevokedKeepsNothing

LEMMA RevokedInvariantNext ==
  RevokedInvariant /\ [Next]_vars => RevokedInvariant'
<1> SUFFICES ASSUME RevokedInvariant, [Next]_vars PROVE RevokedInvariant'
  OBVIOUS
<1> USE DEF RevokedInvariant
<1>1. TypeOK' /\ RequestsAllowed' /\ WorkersEligible'
  BY TypeNext, RequestsAllowedNext, WorkersEligibleNext
<1>2. ASSUME NEW c \in Conn, row'[c].status = "revoked"
      PROVE  /\ ~row'[c].secret /\ ~row'[c].private /\ lease'[c] = NoLease
             /\ AuthMethod[c] # "none" => facts'[c] = {}
  <2>1. CASE Disconnect(c)
    BY <2>1, DisconnectKeepsNothing DEF RevokedKeepsNothing
  <2>2. CASE ~Disconnect(c)
    <3>1. row[c].status = "revoked" /\ row'[c] = row[c]
      BY <1>2, <2>2, RevokedRow
    <3> QED
      BY <2>2, <3>1, LeaseStaysFree, FactsStayAway DEF RevokedKeepsNothing, Syncable
  <2> QED
    BY <2>1, <2>2
<1>3. RevokedKeepsNothing'
  BY <1>2 DEF RevokedKeepsNothing
<1> QED
  BY <1>1, <1>3

\* Once a disconnect has committed, no worker, request or expiry that was under
\* way brings back a credential, a consent, a lease or, for a connection with an
\* environment of its own, a fact.
THEOREM RevokedKeepsNothingHolds == Spec => []RevokedKeepsNothing
<1>1. RevokedInvariant => RevokedKeepsNothing
  BY DEF RevokedInvariant
<1> QED
  BY <1>1, RevokedInvariantInit, RevokedInvariantNext, PTL DEF Spec

\* A revoked row never changes again: neither SaveConnection's whole-row write of
\* an older row nor a worker's state write reaches it.
THEOREM RevokedIsFinalHolds == Spec => RevokedIsFinal
<1>1. RevokedInvariant /\ [Next]_vars =>
        [\A c \in Conn : row[c].status = "revoked" => row'[c] = row[c]]_vars
  <2> SUFFICES ASSUME RevokedInvariant, [Next]_vars,
                      NEW c \in Conn, row[c].status = "revoked"
               PROVE  row'[c] = row[c]
    OBVIOUS
  <2> USE DEF RevokedInvariant
  <2>1. CASE Disconnect(c)
    BY <2>1, DisconnectKeepsNothing DEF RevokedKeepsNothing
  <2>2. CASE ~Disconnect(c)
    BY <2>2, RevokedRow
  <2> QED
    BY <2>1, <2>2
<1> QED
  BY <1>1, RevokedInvariantInit, RevokedInvariantNext, PTL DEF Spec, RevokedIsFinal

-----------------------------------------------------------------------------
(***************************************************************************)
(* The retry budget.  A worker computes the retry from the attempt it made *)
(* itself, but a request may save the failures and the retry it read       *)
(* earlier: the two fields are always written together, so the rows that   *)
(* requests remember keep the budget too.                                  *)
(***************************************************************************)
WithinBudget(r) == r.retry => r.failures \in 1..(MaxAttempts - 1)

BudgetInvariant ==
  /\ \A c \in Conn : WithinBudget(row[c])
  /\ \A h \in Handler : WithinBudget(handler[h].snapshot)

LEMMA BudgetInit == Init => BudgetInvariant
BY DEF Init, StoreInit, ServiceInit, NoRow, IdleHandler, BudgetInvariant,
   WithinBudget

LEMMA WrittenRowInBudget ==
  ASSUME TypeOK, NEW w \in Worker, FencedWrite(w), NEW c \in Conn,
         WithinBudget(row[c])
  PROVE  WithinBudget(row'[c])
<1> DEFINE d == worker[w].conn
           n == worker[w].attempt
           r1 == [row[d] EXCEPT !.status = worker[w].status,
                    !.failures = worker[w].failures, !.retry = FALSE]
           r2 == [row[d] EXCEPT !.status = "error", !.failures = n,
                                !.retry = NextRetry(n)]
           r3 == [row[d] EXCEPT !.status = "active", !.failures = 0,
                                !.retry = FALSE]
<1>1. d \in Conn /\ n \in 0..MaxAttempts
  BY WrittenRow
<1>2. row \in [Conn -> Row] /\ row[d] \in Row
  BY <1>1 DEF TypeOK, StoreTypeOK
<1>3. WithinBudget(r1) /\ WithinBudget(r2) /\ WithinBudget(r3)
  <2>1. ~r1.retry /\ ~r3.retry /\ r2.retry = NextRetry(n) /\ r2.failures = n
    BY <1>2 DEF Row
  <2>2. NextRetry(n) => n \in 1..(MaxAttempts - 1)
    BY <1>1 DEF NextRetry
  <2> HIDE DEF r1, r2, r3
  <2> QED
    BY <2>1, <2>2 DEF WithinBudget
<1>4. \/ UNCHANGED row
      \/ row' = [row EXCEPT ![d] = r1]
      \/ row' = [row EXCEPT ![d] = r2]
      \/ row' = [row EXCEPT ![d] = r3]
  BY WrittenRow
<1> HIDE DEF r1, r2, r3
<1>5. row'[c] \in {row[c], r1, r2, r3}
  BY <1>2, <1>4
<1> QED
  BY <1>3, <1>5

LEMMA BudgetNext == TypeOK /\ BudgetInvariant /\ [Next]_vars => BudgetInvariant'
<1> SUFFICES ASSUME TypeOK, BudgetInvariant, [Next]_vars PROVE BudgetInvariant'
  OBVIOUS
<1>0. row \in [Conn -> Row] /\ handler \in [Handler -> HandlerState]
  BY DEF TypeOK, StoreTypeOK, ServiceTypeOK
<1>1. ASSUME NEW c \in Conn PROVE WithinBudget(row'[c])
  <2>0. WithinBudget(row[c])
    BY DEF BudgetInvariant
  <2>1. CASE UNCHANGED row
    BY <2>0, <2>1
  <2>2. ASSUME NEW d \in Conn, Connect(d) PROVE WithinBudget(row'[c])
    BY <1>0, <2>0, <2>2 DEF Connect, WithinBudget
  <2>3. ASSUME NEW d \in Conn, Disconnect(d) PROVE WithinBudget(row'[c])
    <3> DEFINE r == [row[d] EXCEPT !.status = "revoked", !.secret = FALSE,
                                   !.private = FALSE]
    <3>1. row' = [row EXCEPT ![d] = r]
      BY <2>3 DEF Disconnect, RevokeConnectionAggregate
    <3>2. row[d] \in Row /\ WithinBudget(row[d])
      BY <1>0 DEF BudgetInvariant
    <3>3. WithinBudget(r)
      BY <3>2 DEF WithinBudget, Row
    <3> HIDE DEF r
    <3> QED
      BY <1>0, <2>0, <3>1, <3>3
  <2>4. ASSUME NEW h \in Handler, SaveEdit(h) PROVE WithinBudget(row'[c])
    <3> DEFINE edited == Edited(handler[h].snapshot, handler[h].edit)
               r == [edited EXCEPT !.secret = edited.secret /\ edited.private]
    <3>1. /\ handler[h].edit \in Edit /\ handler[h].snapshot \in Row
          /\ edited \in Row /\ row' = [row EXCEPT ![handler[h].conn] = r]
      BY <2>4, SavedRow
    <3>2. WithinBudget(handler[h].snapshot)
      BY DEF BudgetInvariant
    <3>3. WithinBudget(edited)
      BY <3>1, <3>2 DEF Edited, Edit, Row, WithinBudget
    <3>4. WithinBudget(r)
      BY <3>1, <3>3 DEF Row, WithinBudget
    <3> HIDE DEF r
    <3> QED
      BY <1>0, <2>0, <3>1, <3>4
  <2>5. ASSUME NEW w \in Worker, FencedWrite(w) PROVE WithinBudget(row'[c])
    BY <2>0, <2>5, WrittenRowInBudget
  <2> QED
    BY <2>1, <2>2, <2>3, <2>4, <2>5, RowSteps
<1>2. ASSUME NEW h \in Handler PROVE WithinBudget(handler'[h].snapshot)
  <2>0. WithinBudget(handler[h].snapshot)
    BY DEF BudgetInvariant
  <2>1. CASE UNCHANGED handler
    BY <2>0, <2>1
  <2>2. ASSUME NEW g \in Handler, NEW c \in Conn, NEW edit \in Edit,
               ReadConnection(g, c, edit)
        PROVE  WithinBudget(handler'[h].snapshot)
    <3> DEFINE r == [pc |-> "saving", conn |-> c, edit |-> edit,
                     snapshot |-> row[c]]
    <3>1. WithinBudget(r.snapshot)
      BY DEF BudgetInvariant
    <3>2. handler' = [handler EXCEPT ![g] = r]
      BY <2>2 DEF ReadConnection
    <3> HIDE DEF r
    <3> QED
      BY <1>0, <2>0, <3>1, <3>2
  <2>3. ASSUME NEW g \in Handler, SaveEdit(g) \/ AbandonEdit(g)
        PROVE  WithinBudget(handler'[h].snapshot)
    <3>1. handler' = [handler EXCEPT ![g] = IdleHandler]
      BY <2>3 DEF SaveEdit, AbandonEdit
    <3>2. WithinBudget(IdleHandler.snapshot)
      BY DEF IdleHandler, NoRow, WithinBudget
    <3> QED
      BY <1>0, <2>0, <3>1, <3>2
  <2> QED
    BY <2>1, <2>2, <2>3, HandlerSteps
<1> QED
  BY <1>1, <1>2 DEF BudgetInvariant

\* A retry is scheduled only for a failure that leaves budget (NextRetry), in
\* every row a worker or a request can write.
THEOREM RetryWithinBudgetHolds == Spec => []RetryWithinBudget
<1>1. BudgetInvariant => RetryWithinBudget
  BY DEF BudgetInvariant, WithinBudget, RetryWithinBudget
<1> QED
  BY <1>1, TypeInit, TypeNext, BudgetInit, BudgetNext, PTL DEF Spec

-----------------------------------------------------------------------------
(***************************************************************************)
(* OAuth connections.  The invariant covers the rows that requests         *)
(* remember: an update that read the connection after the callback may     *)
(* save "active" later, but never one that read it while it was pending.   *)
(***************************************************************************)
Usable == {"active", "error", "disabled"}

CallbackInvariant ==
  /\ OAuthOnlyAfterCallback
  /\ \A h \in Handler :
       /\ handler[h].pc = "saving"
       /\ AuthMethod[handler[h].conn] = "oauth2"
       /\ handler[h].snapshot.status \in Usable
       => handler[h].conn \in completed

LEMMA CallbackInit == Init => CallbackInvariant
BY DEF Init, StoreInit, ServiceInit, NoRow, IdleHandler, CallbackInvariant,
   OAuthOnlyAfterCallback

LEMMA CompletedGrows == [Next]_vars => completed \subseteq completed'
BY HandlerSteps DEF ReadConnection, SaveEdit, AbandonEdit

LEMMA CallbackNext ==
  TypeOK /\ RequestsAllowed /\ CallbackInvariant /\ [Next]_vars
    => CallbackInvariant'
<1> SUFFICES ASSUME TypeOK, RequestsAllowed, CallbackInvariant, [Next]_vars
             PROVE  CallbackInvariant'
  OBVIOUS
<1>0. row \in [Conn -> Row] /\ handler \in [Handler -> HandlerState]
  BY DEF TypeOK, StoreTypeOK, ServiceTypeOK
<1>1. ASSUME NEW c \in Conn, AuthMethod[c] = "oauth2", row'[c].status \in Usable
      PROVE  c \in completed'
  <2>0. row[c].status \in Usable => c \in completed'
    BY <1>1, CompletedGrows DEF CallbackInvariant, OAuthOnlyAfterCallback, Usable
  <2>1. CASE UNCHANGED row
    BY <1>1, <2>0, <2>1
  <2>2. ASSUME NEW d \in Conn, Connect(d) PROVE c \in completed'
    BY <1>0, <1>1, <2>0, <2>2 DEF Connect, Usable
  <2>3. ASSUME NEW d \in Conn, Disconnect(d) PROVE c \in completed'
    <3> DEFINE r == [row[d] EXCEPT !.status = "revoked", !.secret = FALSE,
                                   !.private = FALSE]
    <3>1. row' = [row EXCEPT ![d] = r]
      BY <2>3 DEF Disconnect, RevokeConnectionAggregate
    <3>2. r.status = "revoked"
      BY <1>0 DEF Row
    <3> HIDE DEF r
    <3> QED
      BY <1>0, <1>1, <2>0, <3>1, <3>2 DEF Usable
  <2>4. ASSUME NEW h \in Handler, SaveEdit(h) PROVE c \in completed'
    <3> DEFINE edited == Edited(handler[h].snapshot, handler[h].edit)
               r == [edited EXCEPT !.secret = edited.secret /\ edited.private]
    <3>1. /\ handler[h].conn \in Conn /\ handler[h].edit \in Edit
          /\ handler[h].snapshot \in Row
          /\ edited \in Row /\ row' = [row EXCEPT ![handler[h].conn] = r]
      BY <2>4, SavedRow
    <3>2. CASE handler[h].conn # c
      <4>1. row'[c] = row[c]
        BY <1>0, <3>1, <3>2
      <4> QED
        BY <1>1, <2>0, <4>1
    <3>3. CASE handler[h].conn = c
      <4>1. handler[h].pc = "saving"
        BY <2>4 DEF SaveEdit
      <4>2. Allowed(c, handler[h].snapshot, handler[h].edit)
            /\ handler[h].snapshot.status # "absent"
        BY <3>3, <4>1 DEF RequestsAllowed
      <4>3. CASE handler[h].edit = "complete"
        BY <2>4, <3>3, <4>3 DEF SaveEdit
      <4>4. CASE handler[h].edit \in {"enable", "disable"}
        <5>1. handler[h].snapshot.status \notin {"absent", "revoked", "pending"}
          BY <4>2, <4>4 DEF Allowed
        <5>2. handler[h].snapshot.status \in Usable
          BY <3>1, <5>1 DEF Row, Status, Usable
        <5> QED
          BY <1>1, <3>3, <4>1, <5>2, CompletedGrows DEF CallbackInvariant
      <4>5. CASE handler[h].edit = "scopes"
        <5>1. r.status = handler[h].snapshot.status
          BY <3>1, <4>5 DEF Edited, Row
        <5>2. row'[c] = r
          BY <1>0, <3>1, <3>3
        <5> QED
          BY <1>1, <3>3, <4>1, <5>1, <5>2, CompletedGrows DEF CallbackInvariant
      <4>6. CASE handler[h].edit = "rotate"
        BY <1>1, <4>2, <4>6 DEF Allowed
      <4> QED
        BY <3>1, <4>3, <4>4, <4>5, <4>6 DEF Edit
    <3> QED
      BY <3>2, <3>3
  <2>5. ASSUME NEW w \in Worker, FencedWrite(w) PROVE c \in completed'
    <3>1. CASE worker[w].conn = c
      BY <2>0, <2>5, <3>1, WrittenRow DEF Fenced, Syncable, Usable
    <3>2. CASE worker[w].conn # c
      <4>1. row'[c] = row[c]
        BY <2>5, <3>2, OtherRowKept
      <4> QED
        BY <1>1, <2>0, <4>1
    <3> QED
      BY <3>1, <3>2
  <2> QED
    BY <2>1, <2>2, <2>3, <2>4, <2>5, RowSteps
<1>2. ASSUME NEW h \in Handler, handler'[h].pc = "saving",
             AuthMethod[handler'[h].conn] = "oauth2",
             handler'[h].snapshot.status \in Usable
      PROVE  handler'[h].conn \in completed'
  <2>1. CASE handler[h].pc = "saving" /\ handler'[h] = handler[h]
    BY <1>2, <2>1, CompletedGrows DEF CallbackInvariant
  <2>2. ASSUME NEW c \in Conn, NEW edit \in Edit, ReadConnection(h, c, edit),
               handler'[h] = [pc |-> "saving", conn |-> c, edit |-> edit,
                              snapshot |-> row[c]]
        PROVE  handler'[h].conn \in completed'
    <3>1. handler'[h].conn = c /\ handler'[h].snapshot = row[c]
      BY <2>2
    <3> QED
      BY <1>2, <3>1, CompletedGrows
         DEF CallbackInvariant, OAuthOnlyAfterCallback, Usable
  <2> QED
    BY <1>2, <2>1, <2>2, Requests
<1> QED
  BY <1>1, <1>2 DEF CallbackInvariant, OAuthOnlyAfterCallback, Usable

\* A pending OAuth connection leaves that status only by its callback or by a
\* disconnect, even when updates that were read before are saved after it.
THEOREM OAuthOnlyAfterCallbackHolds == Spec => []OAuthOnlyAfterCallback
<1>1. CallbackInvariant => OAuthOnlyAfterCallback
  BY DEF CallbackInvariant
<1> QED
  BY <1>1, TypeInit, TypeNext, RequestsAllowedInit, RequestsAllowedNext,
     CallbackInit, CallbackNext, PTL DEF Spec

-----------------------------------------------------------------------------
(***************************************************************************)
(* Leases and outcomes: what a single step may do to them, given TypeOK.   *)
(***************************************************************************)
LEMMA LeaseStep ==
  ASSUME TypeOK, [Next]_vars, NEW c \in Conn, lease[c].live, lease'[c] # lease[c]
  PROVE  \/ lease'[c] = [lease[c] EXCEPT !.live = FALSE]
         \/ row'[c].status = "revoked"
         \/ \E w \in Worker : /\ worker[w].conn = c
                              /\ worker[w].exec = lease[c].token
                              /\ worker'[w] = IdleWorker
<1>0. lease \in [Conn -> Lease] /\ row \in [Conn -> Row] /\ WorkerOK
  BY TypeParts DEF TypeOK, StoreTypeOK
<1>1. ASSUME NEW d \in Conn, Disconnect(d)
      PROVE  row'[c].status = "revoked"
  <2>1. d = c
    BY <1>0, <1>1 DEF Disconnect, RevokeConnectionAggregate
  <2>2. row'[c] = [row[c] EXCEPT !.status = "revoked", !.secret = FALSE,
                                 !.private = FALSE]
    BY <1>0, <1>1, <2>1 DEF Disconnect, RevokeConnectionAggregate
  <2> QED
    BY <1>0, <2>2 DEF Row
<1>2. ASSUME NEW d \in Conn, NEW k \in Key, NEW purge \in Policy,
             Enqueue(d, k, purge)
      PROVE  FALSE
  BY <1>0, <1>2 DEF Enqueue, CanAcquire
<1>3. ASSUME NEW d \in Conn, LeaseExpires(d)
      PROVE  lease'[c] = [lease[c] EXCEPT !.live = FALSE]
  BY <1>0, <1>3 DEF LeaseExpires
<1>4. ASSUME NEW w \in Worker, AcquireExecution(w)
      PROVE  FALSE
  <2>1. ~lease[worker[w].conn].live
    BY <1>4 DEF AcquireExecution, TryAcquireSyncExecution, CanAcquire
  <2> QED
    BY <1>0, <1>4, <2>1, Acquired
<1>5. ASSUME NEW w \in Worker, ReleaseExecution(w)
      PROVE  /\ worker[w].conn = c /\ worker[w].exec = lease[c].token
             /\ worker'[w] = IdleWorker
  BY <1>0, <1>5 DEF ReleaseExecution, ReleaseSyncExecution, WorkerOK
<1> QED
  BY <1>1, <1>2, <1>3, <1>4, <1>5, LeaseSteps

\* A live execution lease is ended by its holder's release, by time or by a
\* disconnect, and by nothing else.
THEOREM LiveLeaseIsKeptHolds == Spec => LiveLeaseIsKept
<1>1. TypeOK /\ [Next]_vars =>
        [\A c \in Conn : lease[c].live /\ lease'[c] # lease[c] =>
           \/ lease'[c] = [lease[c] EXCEPT !.live = FALSE]
           \/ row'[c].status = "revoked"
           \/ \E w \in Worker : /\ worker[w].conn = c
                                /\ worker[w].exec = lease[c].token
                                /\ worker'[w] = IdleWorker]_vars
  BY LeaseStep
<1> QED
  BY <1>1, TypeInit, TypeNext, PTL DEF Spec, LiveLeaseIsKept

LEMMA OutcomeStep ==
  ASSUME TypeOK, [Next]_vars, NEW j \in Job
  PROVE  /\ Settled(j) => job'[j].status \in {job[j].status, "unused"}
         /\ ~Settled(j) /\ job'[j].status \in {"succeeded", "failed"} =>
              \E w \in Worker : /\ worker[w].job = j
                                /\ worker[w].claim = job[j].token
                                /\ worker[w].pc = job'[j].status
<1> DEFINE Kept == job'[j].status \in {job[j].status, "unused"}
<1> USE DEF Settled
<1>0. job \in [Job -> JobRow] /\ job[j] \in JobRow
  BY DEF TypeOK
<1>1. NoJob.status = "unused"
  BY DEF NoJob
<1>2. ASSUME NEW c, NEW n, NEW p, NEW k
      PROVE  NewJob(c, n, p, k).status = "pending"
  BY DEF NewJob, NoJob
<1>3. CASE UNCHANGED job
  BY <1>3
<1>4. ASSUME NEW c \in Conn, Disconnect(c) PROVE Kept
  BY <1>1, <1>4 DEF Disconnect
<1>5. ASSUME NEW c \in Conn, NEW k \in Key, NEW purge \in Policy,
             Enqueue(c, k, purge)
      PROVE  Kept \/ (~Settled(j) /\ job'[j].status = "pending")
  <2>1. CASE UNCHANGED job
    BY <2>1
  <2>2. CASE j = FreeJob /\ FreeJobs # {} /\ ~UNCHANGED job
    <3>1. ~Settled(j)
      BY <2>2, FreeJobIsFree DEF FreeJobs
    <3>2. job'[j] = NewJob(c, NextAttempt(row[c].failures), purge, k)
      BY <1>5, <2>2 DEF Enqueue
    <3> QED
      BY <1>2, <3>1, <3>2
  <2>3. CASE j # FreeJob /\ ~UNCHANGED job
    <3>1. job'[j] \in {NoJob, job[j]}
      BY <1>5, <2>3 DEF Enqueue
    <3> QED
      BY <1>1, <3>1
  <2> QED
    BY <1>5, <2>1, <2>2, <2>3 DEF Enqueue
<1>6. ASSUME NEW i \in Job, ClaimExpires(i) \/ KeyExpires(i) \/ PurgeFinished(i)
      PROVE  Kept
  <2>1. \/ job' = [job EXCEPT ![i] = [job[i] EXCEPT !.live = FALSE]]
        \/ job' = [job EXCEPT ![i] = [job[i] EXCEPT !.keyLive = FALSE]]
        \/ job' = [job EXCEPT ![i] = NoJob]
    BY <1>0, <1>6 DEF ClaimExpires, KeyExpires, PurgeFinished
  <2>2. /\ [job[j] EXCEPT !.live = FALSE].status = job[j].status
        /\ [job[j] EXCEPT !.keyLive = FALSE].status = job[j].status
    BY <1>0 DEF JobRow
  <2> QED
    BY <1>0, <1>1, <2>1, <2>2
<1>7. ASSUME NEW w \in Worker, SaveJob(w)
      PROVE  Kept \/ (~Settled(j) /\ job'[j].status = "pending")
  <2>1. FreeJob \in Job /\ job[FreeJob].status = "unused"
    BY <1>7, FreeJobIsFree DEF SaveJob, FreeJobs
  <2>2. job' = [job EXCEPT ![FreeJob] = NewJob(worker[w].conn,
                  worker[w].attempt, worker[w].purge, None)]
    BY <1>7 DEF SaveJob
  <2> QED
    BY <1>0, <1>2, <2>1, <2>2
<1>8. ASSUME NEW w \in Worker, ClaimJob(w)
      PROVE  Kept \/ (~Settled(j) /\ job'[j].status = "running")
  <2> DEFINE i == worker[w].job
             q == [job[i] EXCEPT !.status = "running", !.token = FreshToken,
                                 !.live = TRUE]
  <2>1. CASE Claimable(i)
    <3>1. i \in Job /\ job' = [job EXCEPT ![i] = q]
      BY <1>8, <2>1, ClaimedJob
    <3>2. q.status = "running"
      BY <1>0, <3>1 DEF JobRow
    <3>3. ~Settled(i)
      BY <2>1 DEF Claimable
    <3> HIDE DEF q
    <3> QED
      BY <1>0, <3>1, <3>2, <3>3
  <2>2. CASE ~Claimable(i)
    BY <1>3, <1>8, <2>2 DEF ClaimJob
  <2> QED
    BY <2>1, <2>2
<1>9. ASSUME NEW w \in Worker, CompleteJob(w)
      PROVE  \/ Kept
             \/ /\ ~Settled(j) /\ worker[w].job = j
                /\ worker[w].claim = job[j].token
                /\ worker[w].pc = job'[j].status
  <2> DEFINE i == worker[w].job
             q == [job[i] EXCEPT !.status = worker[w].pc, !.token = None,
                                 !.live = FALSE]
  <2>1. CASE OwnsJob(w)
    <3>1. job' = [job EXCEPT ![i] = q]
      BY <1>9, <2>1 DEF CompleteJob, FinishedJob
    <3>2. CASE i = j
      <4>1. q.status = worker[w].pc
        BY <1>0, <3>2 DEF JobRow
      <4>2. job'[j] = q
        BY <1>0, <3>1, <3>2
      <4> QED
        BY <2>1, <3>2, <4>1, <4>2 DEF OwnsJob
    <3>3. CASE i # j
      BY <1>0, <3>1, <3>3
    <3> QED
      BY <3>2, <3>3
  <2>2. CASE ~OwnsJob(w)
    BY <1>9, <2>2 DEF CompleteJob
  <2> QED
    BY <2>1, <2>2
<1> QED
  BY <1>3, <1>4, <1>5, <1>6, <1>7, <1>8, <1>9, JobSteps

\* The outcome of a job is written once, by the worker holding its last claim,
\* and no other step changes it until the row is removed.
THEOREM OutcomeIsFinalHolds == Spec => OutcomeIsFinal
<1>1. TypeOK /\ [Next]_vars =>
        [\A j \in Job :
           /\ Settled(j) => job'[j].status \in {job[j].status, "unused"}
           /\ ~Settled(j) /\ job'[j].status \in {"succeeded", "failed"} =>
                \E w \in Worker : /\ worker[w].job = j
                                  /\ worker[w].claim = job[j].token
                                  /\ worker[w].pc = job'[j].status]_vars
  BY OutcomeStep
<1> QED
  BY <1>1, TypeInit, TypeNext, PTL DEF Spec, OutcomeIsFinal

-----------------------------------------------------------------------------
(***************************************************************************)
(* What most steps leave alone: the history of callbacks, and the secret   *)
(* and the consent of a connection.                                        *)
(***************************************************************************)
\* Only the save of a callback completes a connection.
LEMMA CompletedSteps ==
  ASSUME [Next]_vars
  PROVE  \/ UNCHANGED completed
         \/ \E h \in Handler : SaveEdit(h)
BY HandlerSteps DEF ReadConnection, AbandonEdit

\* A step that is no save leaves the secret and the consent of a connection
\* alone, unless it creates or disconnects the connection.
LEMMA CredentialsKept ==
  ASSUME TypeOK, RequestsAllowed, WorkersEligible, [Next]_vars,
         \A h \in Handler : ~SaveEdit(h),
         NEW c \in Conn, ~Disconnect(c), row[c].status # "absent"
  PROVE  /\ row'[c].secret = row[c].secret /\ row'[c].private = row[c].private
         /\ row'[c].status # "absent"
         /\ (row'[c].status = "revoked") = (row[c].status = "revoked")
<1>0. row \in [Conn -> Row] /\ row[c] \in Row
  BY DEF TypeOK, StoreTypeOK
<1>1. CASE UNCHANGED row
  BY <1>1
<1>2. ASSUME NEW d \in Conn, Connect(d) \/ Disconnect(d)
      PROVE  row'[c] = row[c]
  BY <1>0, <1>2 DEF Connect, Disconnect, RevokeConnectionAggregate
<1>3. ASSUME NEW w \in Worker, FencedWrite(w)
      PROVE  /\ row'[c].secret = row[c].secret /\ row'[c].private = row[c].private
             /\ row'[c].status # "absent"
  <2>1. CASE worker[w].conn # c
    BY <1>3, <2>1, OtherRowKept
  <2>2. CASE worker[w].conn = c
    <3> DEFINE n == worker[w].attempt
               r1 == [row[c] EXCEPT !.status = worker[w].status,
                        !.failures = worker[w].failures, !.retry = FALSE]
               r2 == [row[c] EXCEPT !.status = "error", !.failures = n,
                                    !.retry = NextRetry(n)]
               r3 == [row[c] EXCEPT !.status = "active", !.failures = 0,
                                    !.retry = FALSE]
    <3>1. /\ \A r \in {r1, r2, r3} :
               r.secret = row[c].secret /\ r.private = row[c].private
          /\ r1.status = worker[w].status /\ r2.status = "error"
          /\ r3.status = "active"
      BY <1>0 DEF Row
    <3>2. \/ UNCHANGED row
          \/ worker[w].pc = "marking" /\ row' = [row EXCEPT ![c] = r1]
          \/ row' = [row EXCEPT ![c] = r2]
          \/ row' = [row EXCEPT ![c] = r3]
      BY <1>3, <2>2, WrittenRow
    <3> HIDE DEF r1, r2, r3
    <3>3. \/ row'[c] = row[c]
          \/ worker[w].pc = "marking" /\ row'[c] = r1
          \/ row'[c] = r2
          \/ row'[c] = r3
      BY <1>0, <3>2
    <3> QED
      BY <3>1, <3>3 DEF WorkersEligible, Eligible
  <2> QED
    BY <2>1, <2>2
<1>4. /\ row'[c].secret = row[c].secret /\ row'[c].private = row[c].private
      /\ row'[c].status # "absent"
  BY <1>1, <1>2, <1>3, RowSteps
<1> QED
  BY <1>4, RevokedRow

-----------------------------------------------------------------------------
(***************************************************************************)
(* Claims of jobs.  As with execution leases, a claim that expired may be  *)
(* taken over while its first owner is still at work; two owners never     *)
(* hold the same claim.                                                    *)
(***************************************************************************)
\* The record of a worker is changed by that worker's own steps.
LEMMA OwnSteps ==
  ASSUME TypeOK, [Next]_vars, NEW w \in Worker, worker'[w] # worker[w]
  PROVE  Select(w) \/ WorkerStep(w) \/ DatabaseError(w) \/ Crash(w)
<1>0. WorkerOK
  BY TypeParts
<1>1. ASSUME NEW u \in Worker, u # w, Select(u) \/ DatabaseError(u) \/ Crash(u)
      PROVE  FALSE
  BY <1>0, <1>1 DEF WorkerOK, Select, SelectDue, SelectClaimable, DatabaseError,
     Crash
<1>2. ASSUME NEW u \in Worker, u # w, WorkerStep(u)
      PROVE  FALSE
  BY <1>0, <1>2 DEF WorkerOK, WorkerStep, AcquireExecution, SkipBusy, ReadJob,
     LoadConnection, SaveJob, ClaimJob, MarkAttempt, FetchActivity, Publish,
     PurgeRange, RecordFailure, ConfirmSuccess, Compensate, CompleteJob,
     ReleaseExecution, WriteOr, Go
<1> QED
  BY <1>1, <1>2, Steps DEF vars, syncVars, Connect, Disconnect, Enqueue,
     LeaseExpires, ClaimExpires, KeyExpires, PurgeFinished

LEMMA ClaimSteps ==
  ASSUME TypeOK, [Next]_vars, NEW v \in Worker
  PROVE  worker'[v].claim \in {worker[v].claim, None} \/ ClaimJob(v)
<1>0. WorkerOK /\ worker[v] \in WorkerState
  BY TypeParts, WorkerRecord
<1>1. CASE worker'[v] = worker[v]
  BY <1>1
<1>2. CASE Select(v)
  <2>1. ASSUME NEW c \in Conn, NEW purge \in Policy, SelectDue(v, c, purge)
        PROVE  worker'[v].claim = None
    BY <1>0, <2>1 DEF WorkerOK, SelectDue, IdleWorker
  <2>2. ASSUME NEW j \in Job, SelectClaimable(v, j)
        PROVE  worker'[v].claim = None
    BY <1>0, <2>2 DEF WorkerOK, SelectClaimable, IdleWorker
  <2> QED
    BY <1>2, <2>1, <2>2 DEF Select
<1>3. CASE SkipBusy(v) \/ ReleaseExecution(v) \/ Crash(v)
  BY <1>0, <1>3 DEF WorkerOK, SkipBusy, ReleaseExecution, Crash, IdleWorker
<1>4. CASE DatabaseError(v)
  BY <1>0, <1>4 DEF WorkerOK, WorkerState, DatabaseError, IdleWorker
<1>5. CASE AcquireExecution(v) \/ ReadJob(v) \/ LoadConnection(v) \/ SaveJob(v)
  BY <1>0, <1>5 DEF WorkerOK, WorkerState, AcquireExecution, ReadJob,
     LoadConnection, SaveJob
<1>6. CASE \/ MarkAttempt(v) \/ FetchActivity(v) \/ Publish(v) \/ PurgeRange(v)
           \/ RecordFailure(v) \/ ConfirmSuccess(v) \/ Compensate(v)
           \/ CompleteJob(v)
  <2>1. \E p : Go(v, p)
    BY <1>6 DEF MarkAttempt, FetchActivity, Publish, PurgeRange, RecordFailure,
       ConfirmSuccess, Compensate, CompleteJob, WriteOr
  <2> QED
    BY <1>0, <2>1 DEF WorkerOK, WorkerState, Go
<1> QED
  BY <1>1, <1>2, <1>3, <1>4, <1>5, <1>6, OwnSteps DEF WorkerStep

UniqueJobClaims ==
  \A v, w \in Worker :
    v # w /\ worker[v].claim # None => worker[v].claim # worker[w].claim

LEMMA UniqueJobClaimsNext ==
  TypeOK /\ UniqueJobClaims /\ [Next]_vars => UniqueJobClaims'
<1> SUFFICES ASSUME TypeOK, UniqueJobClaims, [Next]_vars,
                    NEW v \in Worker, NEW w \in Worker, v # w,
                    worker'[v].claim # None
             PROVE  worker'[v].claim # worker'[w].claim
  BY DEF UniqueJobClaims
<1>0. WorkerOK
  BY TypeParts
<1>1. ASSUME NEW u \in Worker, ClaimJob(u), NEW x \in Worker, x # u
      PROVE  /\ \/ worker'[u].claim = worker[u].claim
                \/ worker'[u].claim \notin {worker[y].claim : y \in Worker}
             /\ worker'[x].claim = worker[x].claim
  <2>1. CASE Claimable(worker[u].job)
    <3> DEFINE r == [worker[u] EXCEPT
                       !.pc = IF Eligible(u) THEN "marking" ELSE "failed",
                       !.claim = FreshToken]
    <3>1. /\ worker' = [worker EXCEPT ![u] = r]
          /\ FreshToken \notin {worker[y].claim : y \in Worker}
      BY <1>1, <2>1, ClaimedJob DEF TokensInUse
    <3>2. r.claim = FreshToken
      BY <1>0 DEF WorkerOK, WorkerState
    <3> HIDE DEF r
    <3> QED
      BY <1>0, <1>1, <3>1, <3>2 DEF WorkerOK
  <2>2. CASE ~Claimable(worker[u].job)
    BY <1>0, <1>1, <2>2 DEF ClaimJob, Go, WorkerOK, WorkerState
  <2> QED
    BY <2>1, <2>2
<1>2. CASE ClaimJob(v)
  <2>1. worker'[w].claim = worker[w].claim
    BY <1>1, <1>2
  <2>2. \/ worker'[v].claim = worker[v].claim
        \/ worker'[v].claim # worker[w].claim
    BY <1>1, <1>2
  <2> QED
    BY <2>1, <2>2 DEF UniqueJobClaims
<1>3. CASE ClaimJob(w)
  <2>1. worker'[v].claim = worker[v].claim
    BY <1>1, <1>3
  <2>2. \/ worker'[w].claim = worker[w].claim
        \/ worker'[w].claim # worker[v].claim
    BY <1>1, <1>3
  <2> QED
    BY <2>1, <2>2 DEF UniqueJobClaims
<1>4. CASE ~ClaimJob(v) /\ ~ClaimJob(w)
  BY <1>4, ClaimSteps DEF UniqueJobClaims
<1> QED
  BY <1>2, <1>3, <1>4

OneOwnerPerJob ==
  \A v, w \in Worker :
    /\ worker[v].pc \in Claimed /\ OwnsJob(v)
    /\ worker[w].pc \in Claimed /\ OwnsJob(w)
    /\ worker[v].job = worker[w].job
    => v = w

\* However job claims expire and are reclaimed, CompleteClaimedSyncJob would
\* accept the outcome of at most one worker of a job.
THEOREM OneOwnerPerJobHolds == Spec => []OneOwnerPerJob
<1>1. Init => UniqueJobClaims
  BY DEF Init, UniqueJobClaims, IdleWorker
<1>2. TypeOK /\ UniqueJobClaims => OneOwnerPerJob
  <2> SUFFICES ASSUME TypeOK, UniqueJobClaims, NEW v \in Worker, NEW w \in Worker,
                      worker[v].pc \in Claimed, worker[v].claim = worker[w].claim
               PROVE  v = w
    BY DEF OneOwnerPerJob, OwnsJob
  <2>1. worker[v].claim # None
    BY DEF TypeOK, WorkerShape
  <2> QED
    BY <2>1 DEF UniqueJobClaims
<1> QED
  BY <1>1, <1>2, TypeInit, TypeNext, UniqueJobClaimsNext, PTL DEF Spec
=============================================================================
