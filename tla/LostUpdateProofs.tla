--------------------------- MODULE LostUpdateProofs --------------------------
(***************************************************************************)
(* What the lost updates can lose.  TLC shows that StoredTokenIsRevoked    *)
(* and NoRetryMeansExhausted fail.  Here it is proved, of every behaviour, *)
(* which steps can make them fail: a token leaves its row unrevoked only   *)
(* with the save of a row that was read before the token was stored, and a *)
(* connection loses its retry with its budget unspent only by the save of  *)
(* a row that was read during an attempt, or with an attempt that fails to *)
(* record its end.  The last part of the module is about the lease when    *)
(* nothing fails: then no two executions of a connection overlap.          *)
(***************************************************************************)
EXTENDS LifecycleProofs

USE ConnectionAssumption, SyncAssumption

-----------------------------------------------------------------------------
(***************************************************************************)
(* The token.  Every change a request can make keeps the token of the row  *)
(* it read, and what a worker or a fault writes is not the token, so only  *)
(* the age of the row that is saved can lose one.                          *)
(***************************************************************************)
\* The OAuth token stored for c leaves its row.
TokenGone(c) == AuthMethod[c] = "oauth2" /\ row[c].secret /\ ~row'[c].secret

\* A disconnect that queues the revocation of the token of c.
RevokingDisconnect(c) == Disconnect(c) /\ revocations'[c] = revocations[c] + 1

\* A request that read c before its token was stored saves what it read.
SaveFromBeforeToken(h, c) ==
  /\ SaveEdit(h)
  /\ handler[h].conn = c
  /\ ~handler[h].snapshot.secret

TokenLossExplained ==
  [][\A c \in Conn : TokenGone(c) =>
       \/ RevokingDisconnect(c)
       \/ \E h \in Handler : SaveFromBeforeToken(h, c)]_vars

LEMMA TokenLossStep ==
  ASSUME LifecycleInvariant, [Next]_vars, NEW c \in Conn, TokenGone(c)
  PROVE  \/ RevokingDisconnect(c)
         \/ \E h \in Handler : SaveFromBeforeToken(h, c)
<1> USE DEF TokenGone
<1>0. /\ TypeOK /\ RequestsAllowed /\ WorkersEligible
      /\ RowsConsented /\ RequestsConsented /\ RevokedKeepsNothing
      /\ row \in [Conn -> Row] /\ revocations \in [Conn -> Nat]
  BY DEF LifecycleInvariant, RevokedInvariant, TypeOK, StoreTypeOK
<1>1. row[c].status \notin {"absent", "revoked"}
  BY <1>0 DEF RowsConsented, NoRow, RevokedKeepsNothing
<1>2. CASE Disconnect(c)
  BY <1>0, <1>1, <1>2
     DEF Disconnect, RevokeConnectionAggregate, RevokingDisconnect
<1>3. ASSUME NEW h \in Handler, SaveEdit(h)
      PROVE  SaveFromBeforeToken(h, c)
  <2> DEFINE d == handler[h].conn
             s == handler[h].snapshot
             edited == Edited(s, handler[h].edit)
             r == [edited EXCEPT !.secret = edited.secret /\ edited.private]
  <2>1. /\ d \in Conn /\ handler[h].edit \in Edit /\ s \in Row /\ edited \in Row
        /\ row' = [row EXCEPT ![d] = r]
    BY <1>0, <1>3, SavedRow
  <2>2. s.secret => s.private
    BY <1>0, <1>3 DEF SaveEdit, RequestsConsented, Consented
  <2>3. s.secret => r.secret
    BY <2>1, <2>2 DEF Edited, Edit, Row
  <2>4. d = c /\ ~r.secret
    <3> HIDE DEF r
    <3> QED
      BY <1>0, <2>1
  <2> QED
    BY <1>3, <2>3, <2>4 DEF SaveFromBeforeToken
<1>4. CASE ~Disconnect(c) /\ \A h \in Handler : ~SaveEdit(h)
  BY <1>0, <1>1, <1>4, CredentialsKept
<1> QED
  BY <1>2, <1>3, <1>4

\* The token an OAuth callback stored leaves its row in two ways only: with a
\* disconnect, which queues its revocation (RevokeConnectionAggregate), or when
\* Update or CompleteOAuthConnection saves a row it read before the callback
\* stored the token (SaveConnection).  No worker, error or crash loses one.
THEOREM TokenLossExplainedHolds == Spec => TokenLossExplained
<1>1. LifecycleInvariant /\ [Next]_vars =>
        \A c \in Conn : TokenGone(c) =>
          \/ RevokingDisconnect(c)
          \/ \E h \in Handler : SaveFromBeforeToken(h, c)
  BY TokenLossStep
<1> QED
  BY <1>1, LifecycleInit, LifecycleNext, PTL DEF Spec, TokenLossExplained

-----------------------------------------------------------------------------
(***************************************************************************)
(* Attempts are numbered from one, in every job and in the memory of every *)
(* worker that will record one: a failure recorded as attempt zero would   *)
(* leave neither a retry nor a spent budget.                               *)
(***************************************************************************)
Numbered(r) ==
  /\ r.pc \in {"loaded", "ready"} \cup Claimed => r.attempt > 0
  /\ r.pc = "reread" /\ r.job # None => r.attempt > 0

AttemptsNumbered ==
  /\ \A j \in Job : job[j].status # "unused" => job[j].attempt > 0
  /\ \A w \in Worker : Numbered(worker[w])

LEMMA AttemptsNumberedInit == Init => AttemptsNumbered
BY DEF Init, NoJob, IdleWorker, AttemptsNumbered, Numbered, Claimed

LEMMA NumberedJobs ==
  ASSUME TypeOK, AttemptsNumbered, [Next]_vars, NEW j \in Job,
         job'[j].status # "unused"
  PROVE  job'[j].attempt > 0
<1>0. /\ job \in [Job -> JobRow] /\ job[j] \in JobRow /\ row \in [Conn -> Row]
      /\ \A c \in Conn : row[c].failures \in 0..MaxAttempts
  BY DEF TypeOK, StoreTypeOK, FailuresBounded
<1>1. NoJob.status = "unused"
  BY DEF NoJob
<1>2. ASSUME NEW c, NEW n, NEW p, NEW k
      PROVE  NewJob(c, n, p, k).attempt = n
  BY DEF NewJob, NoJob
<1>3. job[j].status # "unused" => job[j].attempt > 0
  BY DEF AttemptsNumbered
<1>4. CASE UNCHANGED job
  BY <1>3, <1>4
<1>5. ASSUME NEW c \in Conn, Disconnect(c) PROVE job'[j].attempt > 0
  BY <1>1, <1>3, <1>5 DEF Disconnect
<1>6. ASSUME NEW c \in Conn, NEW k \in Key, NEW purge \in Policy,
             Enqueue(c, k, purge)
      PROVE  job'[j].attempt > 0
  <2>1. CASE UNCHANGED job
    BY <1>3, <2>1
  <2>2. CASE j = FreeJob /\ ~UNCHANGED job
    <3>1. job'[j] = NewJob(c, NextAttempt(row[c].failures), purge, k)
      BY <1>6, <2>2 DEF Enqueue
    <3>2. NextAttempt(row[c].failures) > 0
      BY <1>0, NextAttemptType
    <3> QED
      BY <1>2, <3>1, <3>2
  <2>3. CASE j # FreeJob /\ ~UNCHANGED job
    <3>1. job'[j] \in {NoJob, job[j]}
      BY <1>6, <2>3 DEF Enqueue
    <3> QED
      BY <1>1, <1>3, <3>1
  <2> QED
    BY <2>1, <2>2, <2>3
<1>7. ASSUME NEW i \in Job, ClaimExpires(i) \/ KeyExpires(i) \/ PurgeFinished(i)
      PROVE  job'[j].attempt > 0
  <2>1. \/ job' = [job EXCEPT ![i] = [job[i] EXCEPT !.live = FALSE]]
        \/ job' = [job EXCEPT ![i] = [job[i] EXCEPT !.keyLive = FALSE]]
        \/ job' = [job EXCEPT ![i] = NoJob]
    BY <1>0, <1>7 DEF ClaimExpires, KeyExpires, PurgeFinished
  <2>2. /\ [job[j] EXCEPT !.live = FALSE].status = job[j].status
        /\ [job[j] EXCEPT !.live = FALSE].attempt = job[j].attempt
        /\ [job[j] EXCEPT !.keyLive = FALSE].status = job[j].status
        /\ [job[j] EXCEPT !.keyLive = FALSE].attempt = job[j].attempt
    BY <1>0 DEF JobRow
  <2> QED
    BY <1>0, <1>1, <1>3, <2>1, <2>2
<1>8. ASSUME NEW w \in Worker, SaveJob(w)
      PROVE  job'[j].attempt > 0
  <2>1. worker[w].attempt > 0
    BY <1>8 DEF SaveJob, AttemptsNumbered, Numbered
  <2>2. job' = [job EXCEPT ![FreeJob] = NewJob(worker[w].conn,
                  worker[w].attempt, worker[w].purge, None)]
    BY <1>8 DEF SaveJob
  <2> QED
    BY <1>0, <1>2, <1>3, <2>1, <2>2
<1>9. ASSUME NEW w \in Worker, ClaimJob(w)
      PROVE  job'[j].attempt > 0
  <2> DEFINE i == worker[w].job
             q == [job[i] EXCEPT !.status = "running", !.token = FreshToken,
                                 !.live = TRUE]
  <2>1. CASE Claimable(i)
    <3>1. i \in Job /\ job' = [job EXCEPT ![i] = q]
      BY <1>9, <2>1, ClaimedJob
    <3>2. q.attempt = job[i].attempt /\ job[i].attempt > 0
      BY <1>0, <2>1, <3>1 DEF JobRow, Claimable, AttemptsNumbered
    <3> HIDE DEF q
    <3> QED
      BY <1>0, <1>3, <3>1, <3>2
  <2>2. CASE ~Claimable(i)
    BY <1>4, <1>9, <2>2 DEF ClaimJob
  <2> QED
    BY <2>1, <2>2
<1>10. ASSUME NEW w \in Worker, CompleteJob(w)
       PROVE  job'[j].attempt > 0
  <2> DEFINE i == worker[w].job
             q == [job[i] EXCEPT !.status = worker[w].pc, !.token = None,
                                 !.live = FALSE]
  <2>1. CASE OwnsJob(w)
    <3>1. job' = [job EXCEPT ![i] = q]
      BY <1>10, <2>1 DEF CompleteJob, FinishedJob
    <3>2. i \in Job
      BY <1>10 DEF CompleteJob, TypeOK, WorkerShape, Claimed
    <3>3. q.attempt = job[i].attempt /\ job[i].attempt > 0
      BY <1>0, <2>1, <3>2 DEF JobRow, OwnsJob, AttemptsNumbered
    <3> HIDE DEF q
    <3> QED
      BY <1>0, <1>3, <3>1, <3>3
  <2>2. CASE ~OwnsJob(w)
    BY <1>4, <1>10, <2>2 DEF CompleteJob
  <2> QED
    BY <2>1, <2>2
<1> QED
  BY <1>4, <1>5, <1>6, <1>7, <1>8, <1>9, <1>10, JobSteps

LEMMA NumberedWorkers ==
  ASSUME TypeOK, AttemptsNumbered, [Next]_vars, NEW w \in Worker
  PROVE  Numbered(worker'[w])
<1>0. WorkerOK /\ worker[w] \in WorkerState /\ Numbered(worker[w])
  BY TypeParts, WorkerRecord DEF AttemptsNumbered
<1> USE DEF Numbered, Claimed
<1>1. CASE worker'[w] = worker[w]
  BY <1>0, <1>1
<1>2. Numbered(IdleWorker)
  BY DEF IdleWorker
<1>3. ASSUME worker' = [worker EXCEPT ![w] = IdleWorker]
      PROVE  Numbered(worker'[w])
  BY <1>0, <1>2, <1>3 DEF WorkerOK
<1>4. CASE Select(w)
  <2>1. worker'[w].pc \in {"due", "picked"}
    BY <1>0, <1>4 DEF WorkerOK, Select, SelectDue, SelectClaimable, IdleWorker
  <2> QED
    BY <2>1
<1>5. ASSUME NEW p \in PC \ {"reread", "loaded", "ready"}, Go(w, p),
             p \in Claimed => worker[w].pc \in Claimed
      PROVE  Numbered(worker'[w])
  BY <1>0, <1>5 DEF WorkerOK, WorkerState, Go
<1>6. CASE DatabaseError(w)
  <2>1. CASE ErrorPC(w) = "idle"
    BY <1>3, <1>6, <2>1 DEF DatabaseError
  <2>2. CASE ErrorPC(w) # "idle"
    <3> DEFINE again == worker[w].pc = "reread" /\ worker[w].job = None
               r == [worker[w] EXCEPT !.pc = ErrorPC(w),
                                      !.attempt = IF again THEN 1 ELSE worker[w].attempt]
    <3>1. worker'[w] = r
      BY <1>0, <1>6, <2>2 DEF WorkerOK, DatabaseError
    <3>2. /\ r.pc = ErrorPC(w) /\ r.job = worker[w].job
          /\ r.attempt = IF again THEN 1 ELSE worker[w].attempt
      BY <1>0 DEF WorkerState
    <3>3. /\ ErrorPC(w) = "reread" => FALSE
          /\ ErrorPC(w) = "loaded" => again
          /\ ErrorPC(w) = "ready" => worker[w].pc = "reread" /\ worker[w].job # None
          /\ ErrorPC(w) \in Claimed => worker[w].pc \in Claimed
      BY DEF ErrorPC, FailurePC
    <3> HIDE DEF r
    <3> QED
      BY <1>0, <3>1, <3>2, <3>3
  <2> QED
    BY <2>1, <2>2
<1>7. CASE SkipBusy(w) \/ ReleaseExecution(w) \/ Crash(w)
  BY <1>3, <1>7 DEF SkipBusy, ReleaseExecution, Crash
<1>8. CASE AcquireExecution(w)
  BY <1>0, <1>8 DEF WorkerOK, WorkerState, AcquireExecution
<1>9. CASE ReadJob(w)
  <2>1. worker[w].job \in Job
    BY <1>9 DEF ReadJob, TypeOK, WorkerShape
  <2>2. job[worker[w].job].status \in {"pending", "running"}
          => job[worker[w].job].attempt > 0
    BY <2>1 DEF AttemptsNumbered
  <2> QED
    BY <1>0, <1>9, <2>2 DEF WorkerOK, WorkerState, ReadJob
<1>10. CASE LoadConnection(w)
  <2>1. NextAttempt(row[worker[w].conn].failures) > 0
    <3>1. row[worker[w].conn].failures \in 0..MaxAttempts
      BY <1>10 DEF LoadConnection, TypeOK, WorkerShape, FailuresBounded
    <3> QED
      BY <3>1, NextAttemptType
  <2> QED
    BY <1>0, <1>10, <2>1 DEF WorkerOK, WorkerState, LoadConnection
<1>11. CASE SaveJob(w)
  BY <1>0, <1>11 DEF WorkerOK, WorkerState, SaveJob
<1>12. CASE ClaimJob(w)
  BY <1>0, <1>12 DEF WorkerOK, WorkerState, ClaimJob, Go
<1>13. CASE \/ MarkAttempt(w) \/ FetchActivity(w) \/ Publish(w) \/ PurgeRange(w)
            \/ RecordFailure(w) \/ ConfirmSuccess(w) \/ Compensate(w)
            \/ CompleteJob(w)
  <2>1. worker[w].pc \in Claimed
    BY <1>13 DEF MarkAttempt, FetchActivity, Publish, PurgeRange, RecordFailure,
       ConfirmSuccess, Compensate, CompleteJob
  <2>2. /\ {"fetching", "publishing", "confirming", "recording", "failed",
            "succeeded", "compensating", "releasing"}
              \subseteq PC \ {"reread", "loaded", "ready"}
        /\ FailurePC(w) \in PC \ {"reread", "loaded", "ready"}
    BY DEF PC, FailurePC
  <2>3. PICK p \in PC \ {"reread", "loaded", "ready"} : Go(w, p)
    BY <1>13, <2>2 DEF MarkAttempt, FetchActivity, Publish, PurgeRange,
       RecordFailure, ConfirmSuccess, Compensate, CompleteJob, WriteOr
  <2> QED
    BY <1>5, <2>1, <2>3
<1> QED
  BY <1>1, <1>4, <1>6, <1>7, <1>8, <1>9, <1>10, <1>11, <1>12, <1>13, OwnSteps
     DEF WorkerStep

LEMMA AttemptsNumberedNext ==
  TypeOK /\ AttemptsNumbered /\ [Next]_vars => AttemptsNumbered'
<1> SUFFICES ASSUME TypeOK, AttemptsNumbered, [Next]_vars
             PROVE  AttemptsNumbered'
  OBVIOUS
<1>1. \A j \in Job : job'[j].status # "unused" => job'[j].attempt > 0
  BY NumberedJobs
<1>2. \A w \in Worker : Numbered(worker'[w])
  BY NumberedWorkers
<1> QED
  BY <1>1, <1>2 DEF AttemptsNumbered, Numbered

-----------------------------------------------------------------------------
(***************************************************************************)
(* The retry.  Marking an attempt clears the retry of a connection in      *)
(* error; what gives it back is the record of that attempt's end, so until *)
(* then the worker that marked it has to be under way.                     *)
(***************************************************************************)
\* No retry is scheduled although the budget is not spent.
Doubtful(r) == r.status = "error" /\ ~r.retry /\ r.failures # MaxAttempts

InDoubt(c) == Doubtful(row[c])

Attempting == {"fetching", "publishing", "purging", "recording", "confirming"}

Attempts(w, c) == worker[w].conn = c /\ worker[w].pc \in Attempting

\* Nobody is left who would give the connection its retry back.
Stranded(c) == InDoubt(c) /\ ~\E w \in Worker : Attempts(w, c)

\* A request that read c while an attempt was under way saves what it read.
SaveFromAttempt(h, c) ==
  /\ SaveEdit(h)
  /\ handler[h].conn = c
  /\ Doubtful(handler[h].snapshot)

\* A worker leaves its attempt of c with an error or a crash, or with its lease
\* taken over, which refuses its last write.
AttemptLost(w, c) ==
  /\ Attempts(w, c)
  /\ DatabaseError(w) \/ Crash(w) \/ lease[c].token # worker[w].exec

RetryLossExplained ==
  [][\A c \in Conn : ~Stranded(c) /\ Stranded(c)' =>
       \/ \E h \in Handler : SaveFromAttempt(h, c)
       \/ \E w \in Worker : AttemptLost(w, c)]_vars

RetryInvariant == LifecycleInvariant /\ AttemptsNumbered

\* The steps that write a row, by their actions.
LEMMA RowActions ==
  ASSUME [Next]_vars
  PROVE  \/ UNCHANGED row
         \/ \E c \in Conn : Connect(c)
         \/ \E c \in Conn : Disconnect(c)
         \/ \E h \in Handler : SaveEdit(h)
         \/ \E w \in Worker : \/ MarkAttempt(w) \/ RecordFailure(w)
                              \/ ConfirmSuccess(w) \/ DatabaseError(w)
<1>1. ASSUME NEW w \in Worker, WorkerStep(w)
      PROVE  UNCHANGED row \/ MarkAttempt(w) \/ RecordFailure(w) \/ ConfirmSuccess(w)
  <2>1. ASSUME Publish(w) PROVE UNCHANGED row
    BY <2>1 DEF Publish, WriteOr, FencedWrite
  <2> QED
    BY <1>1, <2>1 DEF WorkerStep, AcquireExecution, SkipBusy, ReadJob,
       LoadConnection, SaveJob, ClaimJob, FetchActivity, PurgeRange, Compensate,
       CompleteJob, ReleaseExecution, storeVars
<1>2. ASSUME NEW w \in Worker, Select(w) \/ DatabaseError(w) \/ Crash(w)
      PROVE  UNCHANGED row \/ DatabaseError(w)
  BY <1>2 DEF Select, SelectDue, SelectClaimable, Crash, storeVars
<1> QED
  BY <1>1, <1>2, Steps DEF vars, storeVars, Enqueue, ReadConnection, AbandonEdit,
     LeaseExpires, ClaimExpires, KeyExpires, PurgeFinished

\* What the record of a failure and of a success leave in the row.
LEMMA RecordedRow ==
  ASSUME TypeOK, AttemptsNumbered, NEW w \in Worker, FencedWrite(w),
         worker[w].pc \in {"recording", "confirming"},
         NEW c \in Conn, worker[w].conn = c
  PROVE  ~InDoubt(c)'
<1> DEFINE n == worker[w].attempt
           r2 == [row[c] EXCEPT !.status = "error", !.failures = n,
                                !.retry = NextRetry(n)]
           r3 == [row[c] EXCEPT !.status = "active", !.failures = 0,
                                !.retry = FALSE]
<1>0. /\ row \in [Conn -> Row] /\ row[c] \in Row
      /\ n \in 0..MaxAttempts /\ n > 0
  BY WrittenRow DEF TypeOK, StoreTypeOK, AttemptsNumbered, Numbered, Claimed
<1>1. \/ row' = [row EXCEPT ![c] = r2]
      \/ row' = [row EXCEPT ![c] = r3]
  BY DEF FencedWrite, UpdateConnectionAfterSync
<1>2. /\ r2.failures = n /\ r2.retry = NextRetry(n)
      /\ r3.status = "active"
  BY <1>0 DEF Row
<1>3. ~NextRetry(n) => n = MaxAttempts
  BY <1>0 DEF NextRetry
<1>4. row'[c] = r2 \/ row'[c] = r3
  <2> HIDE DEF r2, r3
  <2> QED
    BY <1>0, <1>1
<1> HIDE DEF r2, r3
<1> QED
  BY <1>2, <1>3, <1>4 DEF InDoubt, Doubtful

\* A connection falls in doubt only by a worker that marks its attempt, or by
\* the save of a row that was read during one.
LEMMA DoubtBegins ==
  ASSUME TypeOK, RequestsAllowed, AttemptsNumbered, [Next]_vars,
         NEW c \in Conn, InDoubt(c)', ~InDoubt(c)
  PROVE  \/ \E h \in Handler : SaveFromAttempt(h, c)
         \/ \E w \in Worker : Attempts(w, c)'
<1> USE DEF InDoubt
<1>0. row \in [Conn -> Row] /\ WorkerOK
  BY TypeParts DEF TypeOK, StoreTypeOK
<1>1. row'[c] # row[c]
  OBVIOUS
<1>2. ASSUME NEW d \in Conn, Connect(d) PROVE FALSE
  BY <1>0, <1>1, <1>2 DEF Connect, Doubtful
<1>3. ASSUME NEW d \in Conn, Disconnect(d) PROVE FALSE
  <2> DEFINE r == [row[d] EXCEPT !.status = "revoked", !.secret = FALSE,
                                 !.private = FALSE]
  <2>1. row' = [row EXCEPT ![d] = r]
    BY <1>3 DEF Disconnect, RevokeConnectionAggregate
  <2>2. r.status = "revoked"
    BY <1>0 DEF Row
  <2> HIDE DEF r
  <2> QED
    BY <1>0, <1>1, <2>1, <2>2 DEF Doubtful
<1>4. ASSUME NEW h \in Handler, SaveEdit(h)
      PROVE  SaveFromAttempt(h, c)
  <2> DEFINE d == handler[h].conn
             s == handler[h].snapshot
             edited == Edited(s, handler[h].edit)
             r == [edited EXCEPT !.secret = edited.secret /\ edited.private]
  <2>1. /\ d \in Conn /\ handler[h].edit \in Edit /\ s \in Row /\ edited \in Row
        /\ row' = [row EXCEPT ![d] = r]
    BY <1>4, SavedRow
  <2>2. r.status = "error" => /\ s.status = "error" /\ r.retry = s.retry
                              /\ r.failures = s.failures
    BY <2>1 DEF Edited, Edit, Row
  <2>3. d = c /\ Doubtful(r)
    <3> HIDE DEF r
    <3> QED
      BY <1>0, <1>1, <2>1
  <2> HIDE DEF r, edited
  <2> QED
    BY <1>4, <2>2, <2>3 DEF SaveFromAttempt, Doubtful
<1>5. ASSUME NEW w \in Worker, worker[w].pc = "marking", FencedWrite(w),
             NEW p \in Attempting, worker'[w].pc = p,
             worker'[w].conn = worker[w].conn
      PROVE  Attempts(w, c)'
  BY <1>1, <1>5, OtherRowKept DEF Attempts
<1>6. ASSUME NEW w \in Worker, MarkAttempt(w)
      PROVE  Attempts(w, c)'
  <2>1. FencedWrite(w) /\ Go(w, "fetching") /\ worker[w].pc = "marking"
    BY <1>1, <1>6 DEF MarkAttempt, WriteOr
  <2>2. worker[w] \in WorkerState
    BY TypeParts, WorkerRecord
  <2> QED
    BY <1>0, <1>5, <2>1, <2>2 DEF Go, WorkerOK, WorkerState, Attempting
<1>7. ASSUME NEW w \in Worker, FencedWrite(w), worker[w].pc # "marking"
      PROVE  FALSE
  <2>1. worker[w].conn = c
    BY <1>1, <1>7, OtherRowKept
  <2>2. worker[w].pc \in {"recording", "confirming"}
    BY <1>1, <1>7 DEF FencedWrite
  <2> QED
    BY <1>7, <2>1, <2>2, RecordedRow
<1>8. ASSUME NEW w \in Worker, RecordFailure(w) \/ ConfirmSuccess(w) PROVE FALSE
  <2>1. FencedWrite(w) /\ worker[w].pc # "marking"
    BY <1>1, <1>8 DEF RecordFailure, ConfirmSuccess, WriteOr
  <2> QED
    BY <1>7, <2>1
<1>9. ASSUME NEW w \in Worker, DatabaseError(w)
      PROVE  Attempts(w, c)'
  <2>1. FencedWrite(w) /\ worker[w].pc = "marking"
    BY <1>1, <1>7, <1>9 DEF DatabaseError
  <2>2. ErrorPC(w) = FailurePC(w) /\ FailurePC(w) \in Attempting
    BY <2>1 DEF ErrorPC, FailurePC, Attempting
  <2>3. worker[w] \in WorkerState
    BY TypeParts, WorkerRecord
  <2>4. /\ worker'[w].pc = FailurePC(w)
        /\ worker'[w].conn = worker[w].conn
    BY <1>0, <1>9, <2>2, <2>3
       DEF DatabaseError, WorkerOK, WorkerState, Attempting
  <2> QED
    BY <1>5, <2>1, <2>2, <2>4
<1> QED
  BY <1>1, <1>2, <1>3, <1>4, <1>6, <1>8, <1>9, RowActions

\* The worker that is attempting a connection in doubt goes on attempting it
\* unless it loses the attempt.
LEMMA DoubtLasts ==
  ASSUME TypeOK, AttemptsNumbered, [Next]_vars,
         NEW c \in Conn, InDoubt(c), InDoubt(c)',
         NEW w \in Worker, Attempts(w, c), ~AttemptLost(w, c)
  PROVE  Attempts(w, c)'
<1> USE DEF Attempts, Attempting
<1>0. WorkerOK /\ worker[w] \in WorkerState
  BY TypeParts, WorkerRecord
<1>1. CASE worker'[w] = worker[w]
  BY <1>1
<1>2. ASSUME NEW p \in Attempting, Go(w, p)
      PROVE  Attempts(w, c)'
  BY <1>0, <1>2 DEF Go, WorkerOK, WorkerState
<1>3. FailurePC(w) \in Attempting
  BY DEF FailurePC
<1>4. Fenced(c, worker[w].exec)
  BY DEF AttemptLost, Fenced, Syncable, InDoubt, Doubtful
<1>5. CASE FetchActivity(w)
  BY <1>2, <1>3, <1>5 DEF FetchActivity
<1>6. CASE Publish(w)
  BY <1>2, <1>3, <1>6 DEF Publish, WriteOr
<1>7. CASE PurgeRange(w)
  BY <1>2, <1>7 DEF PurgeRange
<1>8. ASSUME RecordFailure(w) \/ ConfirmSuccess(w) PROVE FALSE
  <2>1. FencedWrite(w) /\ worker[w].pc \in {"recording", "confirming"}
    BY <1>4, <1>8 DEF RecordFailure, ConfirmSuccess, WriteOr
  <2> QED
    BY <2>1, RecordedRow
<1>9. ASSUME \/ AcquireExecution(w) \/ SkipBusy(w) \/ ReadJob(w)
             \/ LoadConnection(w) \/ SaveJob(w) \/ ClaimJob(w) \/ MarkAttempt(w)
             \/ Compensate(w) \/ CompleteJob(w) \/ ReleaseExecution(w)
             \/ Select(w)
      PROVE  FALSE
  BY <1>9 DEF AcquireExecution, SkipBusy, ReadJob, LoadConnection, SaveJob,
     ClaimJob, MarkAttempt, Compensate, CompleteJob, ReleaseExecution, Select,
     SelectDue, SelectClaimable
<1>10. ~DatabaseError(w) /\ ~Crash(w)
  BY DEF AttemptLost
<1> QED
  BY <1>1, <1>5, <1>6, <1>7, <1>8, <1>9, <1>10, OwnSteps DEF WorkerStep

LEMMA RetryLossStep ==
  ASSUME RetryInvariant, [Next]_vars,
         NEW c \in Conn, ~Stranded(c), Stranded(c)'
  PROVE  \/ \E h \in Handler : SaveFromAttempt(h, c)
         \/ \E w \in Worker : AttemptLost(w, c)
<1>0. TypeOK /\ RequestsAllowed /\ AttemptsNumbered
  BY DEF RetryInvariant, LifecycleInvariant, RevokedInvariant
<1>1. InDoubt(c)' /\ \A w \in Worker : ~Attempts(w, c)'
  BY DEF Stranded
<1>2. CASE ~InDoubt(c)
  BY <1>0, <1>1, <1>2, DoubtBegins
<1>3. CASE InDoubt(c)
  <2>1. PICK w \in Worker : Attempts(w, c)
    BY <1>3 DEF Stranded
  <2> QED
    BY <1>0, <1>1, <1>3, <2>1, DoubtLasts
<1> QED
  BY <1>2, <1>3

\* As long as no connection is stranded, the statement of the comment holds.
LEMMA UnstrandedRows ==
  (\A c \in Conn : ~Stranded(c)) => NoRetryMeansExhausted
<1> SUFFICES ASSUME NEW c \in Conn, ~Stranded(c),
                    row[c].status = "error", ~row[c].retry,
                    \A w \in Worker : worker[w].conn # c
             PROVE  row[c].failures = MaxAttempts
  BY DEF NoRetryMeansExhausted
<1> QED
  BY DEF Stranded, Attempts, InDoubt, Doubtful

\* "A nil value means that the retry budget is exhausted" (Scheduler.RunOnce)
\* comes to fail for a connection, with no attempt of it under way, in two ways
\* only: Update saves a row it read during an attempt, over the record of that
\* attempt, or the attempt ends without its record, by an error, a crash or a
\* lease that was taken over.
THEOREM RetryLossExplainedHolds == Spec => RetryLossExplained
<1>1. Init => RetryInvariant
  BY LifecycleInit, AttemptsNumberedInit DEF RetryInvariant
<1>2. RetryInvariant /\ [Next]_vars => RetryInvariant'
  BY LifecycleNext, AttemptsNumberedNext
     DEF RetryInvariant, LifecycleInvariant, RevokedInvariant
<1>3. RetryInvariant /\ [Next]_vars =>
        \A c \in Conn : ~Stranded(c) /\ Stranded(c)' =>
          \/ \E h \in Handler : SaveFromAttempt(h, c)
          \/ \E w \in Worker : AttemptLost(w, c)
  BY RetryLossStep
<1> QED
  BY <1>1, <1>2, <1>3, PTL DEF Spec, RetryLossExplained

-----------------------------------------------------------------------------
(***************************************************************************)
(* Without faults.  A worker that is executing then holds the live lease   *)
(* of its connection for as long as the connection is not revoked, since a *)
(* lease that runs out under its owner is a fault.                         *)
(***************************************************************************)
HoldersHold ==
  faults = 0 => \A w \in Worker :
    Executing(w) /\ row[worker[w].conn].status # "revoked" => HoldsLease(w)

LEMMA HoldersHoldInit == Init => HoldersHold
BY DEF Init, HoldersHold, Executing, IdleWorker

\* An execution is begun by an acquisition, and keeps its connection and claim.
LEMMA ExecutionSteps ==
  ASSUME TypeOK, [Next]_vars, NEW w \in Worker, Executing(w)'
  PROVE  \/ AcquireExecution(w)
         \/ /\ Executing(w)
            /\ worker'[w].conn = worker[w].conn /\ worker'[w].exec = worker[w].exec
<1> USE DEF Executing
<1>0. WorkerOK /\ worker[w] \in WorkerState
  BY TypeParts, WorkerRecord
<1>1. CASE worker'[w] = worker[w]
  BY <1>1
<1>2. CASE Select(w)
  BY <1>0, <1>2 DEF WorkerOK, Select, SelectDue, SelectClaimable, IdleWorker
<1>3. CASE Crash(w)
  BY <1>0, <1>3 DEF WorkerOK, Crash, IdleWorker
<1>4. ASSUME NEW p, Go(w, p), Executing(w)
      PROVE  /\ worker'[w].conn = worker[w].conn
             /\ worker'[w].exec = worker[w].exec
  BY <1>0, <1>4 DEF WorkerOK, WorkerState, Go
<1>5. CASE DatabaseError(w)
  <2>1. CASE ErrorPC(w) = "idle"
    BY <1>0, <1>5, <2>1 DEF WorkerOK, DatabaseError, IdleWorker
  <2>2. CASE ErrorPC(w) # "idle"
    <3>1. Executing(w)
      BY <1>5, <2>2 DEF DatabaseError, ErrorPC
    <3> QED
      BY <1>0, <1>5, <2>2, <3>1 DEF WorkerOK, WorkerState, DatabaseError
  <2> QED
    BY <2>1, <2>2
<1>6. CASE SkipBusy(w) \/ ReleaseExecution(w)
  BY <1>0, <1>6 DEF WorkerOK, SkipBusy, ReleaseExecution, IdleWorker
<1>7. CASE ReadJob(w) \/ LoadConnection(w) \/ SaveJob(w)
  BY <1>0, <1>7 DEF WorkerOK, WorkerState, ReadJob, LoadConnection, SaveJob
<1>8. CASE ClaimJob(w)
  BY <1>0, <1>8 DEF WorkerOK, WorkerState, ClaimJob, Go
<1>9. CASE \/ MarkAttempt(w) \/ FetchActivity(w) \/ Publish(w) \/ PurgeRange(w)
           \/ RecordFailure(w) \/ ConfirmSuccess(w) \/ Compensate(w)
           \/ CompleteJob(w)
  <2>1. Executing(w) /\ \E p : Go(w, p)
    BY <1>9 DEF MarkAttempt, FetchActivity, Publish, PurgeRange, RecordFailure,
       ConfirmSuccess, Compensate, CompleteJob, WriteOr
  <2> QED
    BY <1>4, <2>1
<1> QED
  BY <1>1, <1>2, <1>3, <1>5, <1>6, <1>7, <1>8, <1>9, OwnSteps DEF WorkerStep

\* Faults are counted and never forgotten.
LEMMA FaultsGrow ==
  ASSUME TypeOK, [Next]_vars
  PROVE  /\ faults' >= faults
         /\ faults' = 0 => \A w \in Worker : ~DatabaseError(w) /\ ~Crash(w)
<1>0. faults \in Nat
  BY DEF TypeOK, SyncAssumption
<1>1. ASSUME NEW w \in Worker, WorkerStep(w) \/ Select(w)
      PROVE  UNCHANGED faults
  BY <1>1 DEF WorkerStep, AcquireExecution, SkipBusy, ReadJob, LoadConnection,
     SaveJob, ClaimJob, MarkAttempt, FetchActivity, Publish, PurgeRange,
     RecordFailure, ConfirmSuccess, Compensate, CompleteJob, ReleaseExecution,
     WriteOr, Select, SelectDue, SelectClaimable
<1>2. ASSUME NEW w \in Worker, DatabaseError(w) \/ Crash(w)
      PROVE  faults' = faults + 1
  BY <1>2 DEF DatabaseError, Crash, Fault
<1>3. UNCHANGED faults \/ faults' = faults + 1
  BY <1>1, <1>2, Steps DEF vars, syncVars, Connect, Disconnect, Enqueue,
     LeaseExpires, ClaimExpires, KeyExpires, PurgeFinished, Fault
<1> QED
  BY <1>0, <1>2, <1>3

LEMMA HoldersHoldNext ==
  ASSUME TypeOK, RequestsAllowed, WorkersEligible, UniqueClaims, HoldersHold,
         [Next]_vars
  PROVE  HoldersHold'
<1> SUFFICES ASSUME faults' = 0, NEW w \in Worker, Executing(w)',
                    row'[worker'[w].conn].status # "revoked"
             PROVE  HoldsLease(w)'
  BY DEF HoldersHold
<1>0. /\ faults = 0 /\ WorkerOK /\ worker[w] \in WorkerState
      /\ lease \in [Conn -> Lease]
  BY FaultsGrow, TypeParts, WorkerRecord DEF TypeOK, StoreTypeOK, SyncAssumption
<1>1. CASE AcquireExecution(w)
  <2> DEFINE r == [worker[w] EXCEPT
                     !.pc = IF worker[w].job = None THEN "reread" ELSE "acquired",
                     !.exec = FreshToken]
  <2>1. /\ worker[w].conn \in Conn /\ worker' = [worker EXCEPT ![w] = r]
        /\ lease' = [lease EXCEPT ![worker[w].conn] =
                        [token |-> FreshToken, live |-> TRUE]]
    BY <1>1, Acquired
  <2>2. r.exec = FreshToken /\ r.conn = worker[w].conn
    BY <1>0 DEF WorkerState
  <2>3. worker'[w] = r
    BY <1>0, <2>1 DEF WorkerOK
  <2>4. lease'[worker[w].conn] = [token |-> FreshToken, live |-> TRUE]
    BY <1>0, <2>1
  <2>5. Executing(w)'
    OBVIOUS
  <2> HIDE DEF r
  <2> QED
    BY <2>2, <2>3, <2>4, <2>5 DEF HoldsLease
<1>2. ASSUME Executing(w), worker'[w].conn = worker[w].conn,
             worker'[w].exec = worker[w].exec, ~AcquireExecution(w)
      PROVE  HoldsLease(w)'
  <2> DEFINE c == worker[w].conn
             t == worker[w].exec
  <2>1. c \in Conn /\ t \in Token /\ t # None
    BY <1>2 DEF TypeOK, WorkerShape, Executing
  <2>2. row[c].status # "revoked"
    <3>1. CASE Disconnect(c)
      <4>1. row'[c] = [row[c] EXCEPT !.status = "revoked", !.secret = FALSE,
                                     !.private = FALSE] /\ row[c] \in Row
        BY <2>1, <3>1 DEF Disconnect, RevokeConnectionAggregate, TypeOK, StoreTypeOK
      <4>2. row'[c].status = "revoked"
        BY <4>1 DEF Row
      <4> QED
        BY <1>2, <4>2
    <3>2. CASE ~Disconnect(c)
      BY <1>2, <2>1, <3>2, RevokedRow
    <3> QED
      BY <3>1, <3>2
  <2>3. HoldsLease(w) /\ lease[c] = [token |-> t, live |-> TRUE]
    BY <1>0, <1>2, <2>2 DEF HoldersHold, HoldsLease
  <2>4. lease[c].token = t /\ lease[c].live
    BY <2>3
  <2>5. lease'[c] = lease[c]
    <3>1. ASSUME NEW d \in Conn, Disconnect(d)
          PROVE  lease'[c] = lease[c]
      <4>1. d # c
        <5>1. SUFFICES ASSUME d = c PROVE FALSE
          OBVIOUS
        <5>2. row'[c] = [row[c] EXCEPT !.status = "revoked", !.secret = FALSE,
                                       !.private = FALSE] /\ row[c] \in Row
          BY <2>1, <3>1, <5>1
             DEF Disconnect, RevokeConnectionAggregate, TypeOK, StoreTypeOK
        <5>3. row'[c].status = "revoked"
          BY <5>2 DEF Row
        <5> QED
          BY <1>2, <5>3
      <4> QED
        BY <1>0, <2>1, <3>1, <4>1 DEF Disconnect, RevokeConnectionAggregate
    <3>2. ASSUME NEW d \in Conn, NEW k \in Key, NEW purge \in Policy,
                 Enqueue(d, k, purge)
          PROVE  lease'[c] = lease[c]
      BY <1>0, <2>1, <2>4, <3>2 DEF Enqueue, CanAcquire
    <3>3. ASSUME NEW d \in Conn, LeaseExpires(d)
          PROVE  lease'[c] = lease[c]
      <4>1. d # c
        BY <1>0, <2>3, <3>3 DEF LeaseExpires, Fault
      <4> QED
        BY <1>0, <2>1, <3>3, <4>1 DEF LeaseExpires
    <3>4. ASSUME NEW u \in Worker, AcquireExecution(u)
          PROVE  lease'[c] = lease[c]
      <4>1. worker[u].conn # c
        BY <2>4, <3>4 DEF AcquireExecution, TryAcquireSyncExecution, CanAcquire
      <4> QED
        BY <1>0, <2>1, <3>4, <4>1, Acquired
    <3>5. ASSUME NEW u \in Worker, ReleaseExecution(u)
          PROVE  lease'[c] = lease[c]
      <4>1. u # w
        BY <1>0, <3>5 DEF ReleaseExecution, Executing, IdleWorker, WorkerOK
      <4>2. worker[u].exec # t
        BY <2>1, <4>1 DEF UniqueClaims
      <4> QED
        BY <1>0, <2>1, <2>4, <3>5, <4>2 DEF ReleaseExecution, ReleaseSyncExecution
    <3> QED
      BY <3>1, <3>2, <3>3, <3>4, <3>5, LeaseSteps
  <2> QED
    BY <1>2, <2>3, <2>5 DEF HoldsLease, Executing
<1> QED
  BY <1>1, <1>2, ExecutionSteps

\* As long as nothing fails, a connection that is not revoked is executed by one
\* worker at most, and that worker holds its live lease to the end
\* (TryAcquireSyncExecution, ReleaseSyncExecution).
OneExecution ==
  faults = 0 => \A v, w \in Worker :
    /\ Executing(v) /\ Executing(w) /\ worker[v].conn = worker[w].conn
    /\ row[worker[v].conn].status # "revoked"
    => v = w /\ HoldsLease(v)

\* Without errors, crashes and stalls the execution lease is a lock: no run of
\* the scheduler, queued job or manual request executes a connection twice at once.
THEOREM OneExecutionHolds == Spec => []OneExecution
<1> DEFINE Inv == RevokedInvariant /\ UniqueClaims /\ HoldersHold
<1>1. Init => Inv
  BY RevokedInvariantInit, UniqueClaimsInit, HoldersHoldInit
<1>2. Inv /\ [Next]_vars => Inv'
  BY RevokedInvariantNext, UniqueClaimsNext, HoldersHoldNext DEF RevokedInvariant
<1>3. Inv => OneExecution
  <2> SUFFICES ASSUME Inv, faults = 0, NEW v \in Worker, NEW w \in Worker,
                      Executing(v), Executing(w), worker[v].conn = worker[w].conn,
                      row[worker[v].conn].status # "revoked"
               PROVE  v = w /\ HoldsLease(v)
    BY DEF OneExecution
  <2>1. HoldsLease(v) /\ HoldsLease(w)
    BY DEF HoldersHold
  <2>2. worker[v].exec = worker[w].exec
    BY <2>1 DEF HoldsLease
  <2>3. worker[v].exec # None
    BY DEF RevokedInvariant, TypeOK, WorkerShape
  <2> QED
    BY <2>1, <2>2, <2>3 DEF UniqueClaims
<1> HIDE DEF Inv
<1> QED
  BY <1>1, <1>2, <1>3, PTL DEF Spec
=============================================================================
