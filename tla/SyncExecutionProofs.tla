------------------------- MODULE SyncExecutionProofs -------------------------
(***************************************************************************)
(* Theorems about SyncExecution.                                           *)
(*                                                                         *)
(* TypeOK is proved by parts, one per variable that the steps change:      *)
(* StoreOK, ServiceOK, JobOK and WorkerOK.  A step changes one or two of   *)
(* them; the lemmas that say how one worker's record or one job's row may  *)
(* change without losing its shape are stated once.                        *)
(***************************************************************************)
EXTENDS SyncExecution, TLAPS

USE ConnectionAssumption, SyncAssumption

StoreOK == StoreTypeOK /\ \A c \in Conn : row[c].failures \in 0..MaxAttempts

ServiceOK ==
  /\ ServiceTypeOK
  /\ \A h \in Handler : handler[h].snapshot.failures \in 0..MaxAttempts

\* JobShape for one row, and WorkerShape for one worker's record.
ShapedJob(r) ==
  /\ (r.status = "running") = (r.token # None)
  /\ r.live => r.status = "running"
  /\ r.status # "unused" => r.conn \in Conn

ShapedWorker(r) ==
  /\ r.pc # "idle" => r.conn \in Conn
  /\ r.pc \notin {"idle", "due", "picked"} => r.exec \in Token
  /\ r.pc \in {"picked", "acquired", "ready"} \cup Claimed => r.job \in Job
  /\ r.pc \in Claimed => r.claim \in Token

JobOK == job \in [Job -> JobRow] /\ \A j \in Job : ShapedJob(job[j])

WorkerOK ==
  worker \in [Worker -> WorkerState] /\ \A w \in Worker : ShapedWorker(worker[w])

LEMMA TypeParts ==
  TypeOK <=> StoreOK /\ ServiceOK /\ JobOK /\ WorkerOK /\ faults \in 0..MaxFaults
<1>1. JobShape <=> \A j \in Job : ShapedJob(job[j])
  BY DEF JobShape, ShapedJob
<1>2. WorkerShape <=> \A w \in Worker : ShapedWorker(worker[w])
  BY DEF WorkerShape, ShapedWorker, Executing
<1> QED
  BY <1>1, <1>2 DEF TypeOK, StoreOK, ServiceOK, JobOK, WorkerOK, FailuresBounded

LEMMA TypePartsNext ==
  TypeOK' <=> /\ StoreOK' /\ ServiceOK' /\ JobOK' /\ WorkerOK'
              /\ faults' \in 0..MaxFaults
<1>1. JobShape' <=> (\A j \in Job : ShapedJob(job[j]))'
  BY DEF JobShape, ShapedJob
<1>2. WorkerShape' <=> (\A w \in Worker : ShapedWorker(worker[w]))'
  BY DEF WorkerShape, ShapedWorker, Executing
<1> QED
  BY <1>1, <1>2 DEF TypeOK, StoreOK, ServiceOK, JobOK, WorkerOK, FailuresBounded

LEMMA FreshTokenIsFresh ==
  ASSUME FreshTokens # {}
  PROVE  FreshToken \in Token /\ FreshToken \notin TokensInUse
BY DEF FreshToken, FreshTokens

LEMMA FreeJobIsFree ==
  ASSUME FreeJobs # {}
  PROVE  FreeJob \in FreeJobs /\ FreeJob \in Job
BY DEF FreeJob, FreeJobs

-----------------------------------------------------------------------------
(***************************************************************************)
(* What leaves the parts alone.                                            *)
(***************************************************************************)
LEMMA StoreSame == StoreOK /\ UNCHANGED storeVars => StoreOK'
BY DEF StoreOK, StoreTypeOK, storeVars

LEMMA ServiceSame == ServiceOK /\ UNCHANGED serviceVars => ServiceOK'
BY DEF ServiceOK, ServiceTypeOK, serviceVars

LEMMA JobSame == JobOK /\ UNCHANGED job => JobOK'
BY DEF JobOK

LEMMA WorkerSame == WorkerOK /\ UNCHANGED worker => WorkerOK'
BY DEF WorkerOK

LEMMA SetWorker ==
  ASSUME WorkerOK, NEW w \in Worker, NEW r \in WorkerState, ShapedWorker(r),
         worker' = [worker EXCEPT ![w] = r]
  PROVE  WorkerOK'
<1>1. worker' \in [Worker -> WorkerState]
  BY DEF WorkerOK
<1>2. \A v \in Worker : worker'[v] = IF v = w THEN r ELSE worker[v]
  BY DEF WorkerOK
<1>3. \A v \in Worker : ShapedWorker(worker'[v])
  BY <1>2 DEF WorkerOK
<1> QED
  BY <1>1, <1>3 DEF WorkerOK

LEMMA IdleWorkerType == IdleWorker \in WorkerState /\ ShapedWorker(IdleWorker)
BY DEF WorkerState, IdleWorker, PC, Status, ShapedWorker, Claimed

LEMMA WorkerRecord ==
  ASSUME WorkerOK, NEW w \in Worker
  PROVE  worker[w] \in WorkerState /\ ShapedWorker(worker[w])
BY DEF WorkerOK

\* A step inside one execution, which keeps what the worker holds.
LEMMA GoWorker ==
  ASSUME WorkerOK, NEW w \in Worker, NEW p \in PC, Go(w, p),
         p \notin {"idle", "due", "picked"}, Executing(w),
         p \in {"acquired", "ready"} => worker[w].job \in Job,
         p \in Claimed => worker[w].pc \in Claimed
  PROVE  WorkerOK'
<1> DEFINE r == [worker[w] EXCEPT !.pc = p]
<1>1. worker[w] \in WorkerState /\ ShapedWorker(worker[w])
  BY WorkerRecord
<1>2. r \in WorkerState
  BY <1>1 DEF WorkerState
<1>3. ShapedWorker(r)
  BY <1>1 DEF ShapedWorker, Executing, WorkerState, Claimed
<1>4. worker' = [worker EXCEPT ![w] = r]
  BY <1>1 DEF Go, WorkerOK
<1> QED
  BY <1>2, <1>3, <1>4, SetWorker

LEMMA SetJob ==
  ASSUME JobOK, NEW j \in Job, NEW r \in JobRow, ShapedJob(r),
         job' = [job EXCEPT ![j] = r]
  PROVE  JobOK'
<1>1. job' \in [Job -> JobRow]
  BY DEF JobOK
<1>2. \A i \in Job : job'[i] = IF i = j THEN r ELSE job[i]
  BY DEF JobOK
<1>3. \A i \in Job : ShapedJob(job'[i])
  BY <1>2 DEF JobOK
<1> QED
  BY <1>1, <1>3 DEF JobOK

LEMMA NoJobType == NoJob \in JobRow /\ ShapedJob(NoJob)
BY DEF JobRow, NoJob, ShapedJob

LEMMA JobRecord ==
  ASSUME JobOK, NEW j \in Job
  PROVE  job[j] \in JobRow /\ ShapedJob(job[j])
BY DEF JobOK

LEMMA NewJobType ==
  ASSUME NEW c \in Conn, NEW n \in 0..MaxAttempts, NEW p \in BOOLEAN,
         NEW k \in Key \cup {None}
  PROVE  NewJob(c, n, p, k) \in JobRow /\ ShapedJob(NewJob(c, n, p, k))
BY NoJobType DEF NewJob, NoJob, JobRow, ShapedJob

LEMMA NextAttemptType ==
  ASSUME NEW n \in 0..MaxAttempts
  PROVE  NextAttempt(n) \in 1..MaxAttempts
BY DEF NextAttempt

-----------------------------------------------------------------------------
LEMMA TypeInit == Init => TypeOK
<1> SUFFICES ASSUME Init PROVE TypeOK
  OBVIOUS
<1> USE DEF Init, StoreInit, ServiceInit
<1>1. StoreOK
  BY DEF StoreOK, StoreTypeOK, Row, NoRow, Status, Lease, NoLease, Environment
<1>2. ServiceOK
  BY DEF ServiceOK, ServiceTypeOK, HandlerState, IdleHandler, Row, NoRow, Status
<1>3. JobOK
  BY NoJobType DEF JobOK
<1>4. WorkerOK
  BY IdleWorkerType DEF WorkerOK
<1>5. faults \in 0..MaxFaults
  OBVIOUS
<1> QED
  BY <1>1, <1>2, <1>3, <1>4, <1>5, TypeParts

-----------------------------------------------------------------------------
(***************************************************************************)
(* The handlers of the API.                                                *)
(***************************************************************************)
LEMMA TypeConnect ==
  ASSUME TypeOK, NEW c \in Conn, Connect(c), UNCHANGED syncVars
  PROVE  TypeOK'
<1>0. StoreOK /\ ServiceOK /\ JobOK /\ WorkerOK /\ faults \in 0..MaxFaults
  BY TypeParts
<1>1. StoreOK'
  <2>1. row' \in [Conn -> Row]
    BY <1>0 DEF Connect, StoreOK, StoreTypeOK, Row, Status
  <2>2. \A d \in Conn : row'[d].failures \in 0..MaxAttempts
    BY <1>0 DEF Connect, StoreOK, StoreTypeOK
  <2> QED
    BY <1>0, <2>1, <2>2 DEF Connect, StoreOK, StoreTypeOK
<1>2. ServiceOK'
  BY <1>0 DEF Connect, ServiceOK, ServiceTypeOK
<1>3. JobOK' /\ WorkerOK' /\ faults' \in 0..MaxFaults
  BY <1>0, JobSame, WorkerSame DEF syncVars
<1> QED
  BY <1>1, <1>2, <1>3, TypePartsNext

LEMMA EditedType ==
  ASSUME NEW r \in Row, r.failures \in 0..MaxAttempts, NEW edit \in Edit
  PROVE  Edited(r, edit) \in Row /\ Edited(r, edit).failures \in 0..MaxAttempts
BY DEF Edited, Edit, Row, Status

LEMMA TypeReadConnection ==
  ASSUME TypeOK, NEW h \in Handler, NEW c \in Conn, NEW edit \in Edit,
         ReadConnection(h, c, edit), UNCHANGED syncVars
  PROVE  TypeOK'
<1>0. StoreOK /\ ServiceOK /\ JobOK /\ WorkerOK /\ faults \in 0..MaxFaults
  BY TypeParts
<1> DEFINE r == [pc |-> "saving", conn |-> c, edit |-> edit, snapshot |-> row[c]]
<1>1. StoreOK' /\ JobOK' /\ WorkerOK' /\ faults' \in 0..MaxFaults
  BY <1>0, StoreSame, JobSame, WorkerSame DEF ReadConnection, syncVars
<1>2. r \in HandlerState /\ r.snapshot.failures \in 0..MaxAttempts
  BY <1>0 DEF HandlerState, StoreOK, StoreTypeOK
<1>3. /\ handler' \in [Handler -> HandlerState]
      /\ \A g \in Handler : handler'[g] = IF g = h THEN r ELSE handler[g]
  BY <1>0, <1>2 DEF ReadConnection, ServiceOK, ServiceTypeOK
<1>4. states' \subseteq Conn /\ completed' \subseteq Conn
  BY <1>0 DEF ReadConnection, ServiceOK, ServiceTypeOK
<1>5. ServiceOK'
  BY <1>0, <1>2, <1>3, <1>4 DEF ServiceOK, ServiceTypeOK
<1> QED
  BY <1>1, <1>5, TypePartsNext

LEMMA IdleHandlerType ==
  IdleHandler \in HandlerState /\ IdleHandler.snapshot.failures \in 0..MaxAttempts
BY DEF IdleHandler, HandlerState, NoRow, Row, Status

LEMMA SetIdleHandler ==
  ASSUME ServiceOK, NEW h \in Handler,
         handler' = [handler EXCEPT ![h] = IdleHandler],
         states' \subseteq Conn, completed' \subseteq Conn
  PROVE  ServiceOK'
<1>1. /\ handler' \in [Handler -> HandlerState]
      /\ \A g \in Handler : handler'[g] = IF g = h THEN IdleHandler ELSE handler[g]
  BY IdleHandlerType DEF ServiceOK, ServiceTypeOK
<1>2. IdleHandler.pc = "idle"
  BY DEF IdleHandler
<1> QED
  BY <1>1, <1>2, IdleHandlerType DEF ServiceOK, ServiceTypeOK

LEMMA TypeSaveEdit ==
  ASSUME TypeOK, NEW h \in Handler, SaveEdit(h), UNCHANGED syncVars
  PROVE  TypeOK'
<1>0. StoreOK /\ ServiceOK /\ JobOK /\ WorkerOK /\ faults \in 0..MaxFaults
  BY TypeParts
<1> DEFINE c == handler[h].conn
           edited == Edited(handler[h].snapshot, handler[h].edit)
           r == [edited EXCEPT !.secret = edited.secret /\ edited.private]
<1>1. c \in Conn /\ edited \in Row /\ edited.failures \in 0..MaxAttempts
  <2>1. /\ c \in Conn /\ handler[h].edit \in Edit /\ handler[h].snapshot \in Row
        /\ handler[h].snapshot.failures \in 0..MaxAttempts
    BY <1>0 DEF SaveEdit, ServiceOK, ServiceTypeOK, HandlerState
  <2> QED
    BY <2>1, EditedType
<1>2. r \in Row /\ r.failures \in 0..MaxAttempts
  BY <1>1 DEF Row
<1>3. row' = [row EXCEPT ![c] = r]
  BY DEF SaveEdit, SaveConnection
<1>4. StoreOK'
  BY <1>0, <1>1, <1>2, <1>3 DEF SaveEdit, StoreOK, StoreTypeOK
<1>5. states' \subseteq Conn /\ completed' \subseteq Conn
  BY <1>0, <1>1 DEF SaveEdit, ServiceOK, ServiceTypeOK
<1>6. ServiceOK'
  BY <1>0, <1>5, SetIdleHandler DEF SaveEdit
<1>7. JobOK' /\ WorkerOK' /\ faults' \in 0..MaxFaults
  BY <1>0, JobSame, WorkerSame DEF syncVars
<1> QED
  BY <1>4, <1>6, <1>7, TypePartsNext

LEMMA TypeAbandonEdit ==
  ASSUME TypeOK, NEW h \in Handler, AbandonEdit(h), UNCHANGED syncVars
  PROVE  TypeOK'
<1>0. StoreOK /\ ServiceOK /\ JobOK /\ WorkerOK /\ faults \in 0..MaxFaults
  BY TypeParts
<1>1. StoreOK' /\ JobOK' /\ WorkerOK' /\ faults' \in 0..MaxFaults
  BY <1>0, StoreSame, JobSame, WorkerSame DEF AbandonEdit, syncVars
<1>2. states' \subseteq Conn /\ completed' \subseteq Conn
  BY <1>0 DEF AbandonEdit, ServiceOK, ServiceTypeOK
<1>3. ServiceOK'
  BY <1>0, <1>2, SetIdleHandler DEF AbandonEdit
<1> QED
  BY <1>1, <1>3, TypePartsNext

LEMMA TypeServiceStep ==
  ASSUME TypeOK, NEW h \in Handler, ServiceStep(h), UNCHANGED syncVars
  PROVE  TypeOK'
BY TypeReadConnection, TypeSaveEdit, TypeAbandonEdit DEF ServiceStep

-----------------------------------------------------------------------------
LEMMA TypeDisconnect ==
  ASSUME TypeOK, NEW c \in Conn, Disconnect(c)
  PROVE  TypeOK'
<1>0. StoreOK /\ ServiceOK /\ JobOK /\ WorkerOK /\ faults \in 0..MaxFaults
  BY TypeParts
<1> USE DEF Disconnect, RevokeConnectionAggregate
<1> DEFINE r == [row[c] EXCEPT !.status = "revoked", !.secret = FALSE,
                               !.private = FALSE]
<1>1. StoreOK'
  <2>1. row[c] \in Row /\ row[c].failures \in 0..MaxAttempts
    BY <1>0 DEF StoreOK, StoreTypeOK
  <2>2. r \in Row /\ r.failures \in 0..MaxAttempts
    BY <2>1 DEF Row, Status
  <2>3. row' = [row EXCEPT ![c] = r]
    OBVIOUS
  <2>4. row' \in [Conn -> Row] /\ \A d \in Conn : row'[d].failures \in 0..MaxAttempts
    BY <1>0, <2>2, <2>3 DEF StoreOK, StoreTypeOK
  <2>5. lease' \in [Conn -> Lease]
    BY <1>0 DEF StoreOK, StoreTypeOK, Lease, NoLease
  <2>6. facts' \in [Environment -> SUBSET Conn] /\ revocations' \in [Conn -> Nat]
    BY <1>0 DEF StoreOK, StoreTypeOK, Environment
  <2> QED
    BY <2>4, <2>5, <2>6 DEF StoreOK, StoreTypeOK
<1>2. JobOK'
  BY <1>0, NoJobType DEF JobOK
<1>3. ServiceOK' /\ WorkerOK' /\ faults' \in 0..MaxFaults
  BY <1>0, ServiceSame, WorkerSame
<1> QED
  BY <1>1, <1>2, <1>3, TypePartsNext

LEMMA TypeEnqueue ==
  ASSUME TypeOK, NEW c \in Conn, NEW k \in Key, NEW purge \in Policy,
         Enqueue(c, k, purge)
  PROVE  TypeOK'
<1>0. StoreOK /\ ServiceOK /\ JobOK /\ WorkerOK /\ faults \in 0..MaxFaults
  BY TypeParts
<1>1. StoreOK'
  BY <1>0 DEF Enqueue, StoreOK, StoreTypeOK, Lease, NoLease
<1>2. JobOK'
  <2> DEFINE n == NextAttempt(row[c].failures)
             known == {j \in Job : job[j].conn = c /\ job[j].key = k}
             replaced == {j \in known : ~job[j].keyLive}
             new == NewJob(c, n, purge, k)
  <2>1. new \in JobRow /\ ShapedJob(new)
    <3>1. n \in 0..MaxAttempts
      BY <1>0, NextAttemptType DEF StoreOK
    <3> HIDE DEF n
    <3> QED
      BY <3>1, NewJobType
  <2>2. \A j \in Job : job[j] \in JobRow /\ ShapedJob(job[j])
    BY <1>0 DEF JobOK
  <2>3. CASE job' = job
    BY <1>0, <2>3, JobSame
  <2>4. CASE job' = [j \in Job |-> IF j = FreeJob THEN new
                                   ELSE IF j \in replaced THEN NoJob ELSE job[j]]
    <3> HIDE DEF new, replaced
    <3> QED
      BY <2>1, <2>2, <2>4, NoJobType DEF JobOK
  <2> QED
    BY <2>3, <2>4 DEF Enqueue
<1>3. ServiceOK' /\ WorkerOK' /\ faults' \in 0..MaxFaults
  BY <1>0, ServiceSame, WorkerSame DEF Enqueue
<1> QED
  BY <1>1, <1>2, <1>3, TypePartsNext

-----------------------------------------------------------------------------
(***************************************************************************)
(* Expiry and retention.                                                   *)
(***************************************************************************)
LEMMA FaultType == faults \in 0..MaxFaults /\ Fault => faults' \in 0..MaxFaults
BY DEF Fault

LEMMA TypeLeaseExpires ==
  ASSUME TypeOK, NEW c \in Conn, LeaseExpires(c)
  PROVE  TypeOK'
<1>0. StoreOK /\ ServiceOK /\ JobOK /\ WorkerOK /\ faults \in 0..MaxFaults
  BY TypeParts
<1>1. StoreOK'
  <2>1. [lease[c] EXCEPT !.live = FALSE] \in Lease
    <3>1. lease[c] \in Lease
      BY <1>0 DEF StoreOK, StoreTypeOK
    <3> QED
      BY <3>1 DEF Lease
  <2>2. lease' = [lease EXCEPT ![c] = [lease[c] EXCEPT !.live = FALSE]]
    BY <1>0 DEF LeaseExpires, StoreOK, StoreTypeOK
  <2>3. lease' \in [Conn -> Lease]
    BY <1>0, <2>1, <2>2 DEF StoreOK, StoreTypeOK
  <2> QED
    BY <1>0, <2>3 DEF LeaseExpires, StoreOK, StoreTypeOK
<1>2. ServiceOK' /\ JobOK' /\ WorkerOK'
  BY <1>0, ServiceSame, JobSame, WorkerSame DEF LeaseExpires
<1>3. faults' \in 0..MaxFaults
  BY <1>0, FaultType DEF LeaseExpires
<1> QED
  BY <1>1, <1>2, <1>3, TypePartsNext

LEMMA TypeClaimExpires ==
  ASSUME TypeOK, NEW j \in Job, ClaimExpires(j)
  PROVE  TypeOK'
<1>0. StoreOK /\ ServiceOK /\ JobOK /\ WorkerOK /\ faults \in 0..MaxFaults
  BY TypeParts
<1> DEFINE r == [job[j] EXCEPT !.live = FALSE]
<1>1. r \in JobRow /\ ShapedJob(r)
  <2>1. job[j] \in JobRow /\ ShapedJob(job[j])
    BY <1>0, JobRecord
  <2>2. r \in JobRow
    BY <2>1 DEF JobRow
  <2>3. ShapedJob(r)
    BY <2>1 DEF JobRow, ShapedJob
  <2> QED
    BY <2>2, <2>3
<1>2. JobOK'
  BY <1>0, <1>1, SetJob DEF ClaimExpires
<1>3. StoreOK' /\ ServiceOK' /\ WorkerOK'
  BY <1>0, StoreSame, ServiceSame, WorkerSame DEF ClaimExpires
<1>4. faults' \in 0..MaxFaults
  BY <1>0, FaultType DEF ClaimExpires
<1> QED
  BY <1>2, <1>3, <1>4, TypePartsNext

LEMMA TypeKeyExpires ==
  ASSUME TypeOK, NEW j \in Job, KeyExpires(j)
  PROVE  TypeOK'
<1>0. StoreOK /\ ServiceOK /\ JobOK /\ WorkerOK /\ faults \in 0..MaxFaults
  BY TypeParts
<1> DEFINE r == [job[j] EXCEPT !.keyLive = FALSE]
<1>1. r \in JobRow /\ ShapedJob(r)
  <2>1. job[j] \in JobRow /\ ShapedJob(job[j])
    BY <1>0, JobRecord
  <2>2. r \in JobRow
    BY <2>1 DEF JobRow
  <2>3. ShapedJob(r)
    BY <2>1 DEF JobRow, ShapedJob
  <2> QED
    BY <2>2, <2>3
<1>2. JobOK'
  BY <1>0, <1>1, SetJob DEF KeyExpires
<1>3. StoreOK' /\ ServiceOK' /\ WorkerOK' /\ faults' \in 0..MaxFaults
  BY <1>0, StoreSame, ServiceSame, WorkerSame DEF KeyExpires
<1> QED
  BY <1>2, <1>3, TypePartsNext

LEMMA TypePurgeFinished ==
  ASSUME TypeOK, NEW j \in Job, PurgeFinished(j)
  PROVE  TypeOK'
<1>0. StoreOK /\ ServiceOK /\ JobOK /\ WorkerOK /\ faults \in 0..MaxFaults
  BY TypeParts
<1>1. JobOK'
  BY <1>0, NoJobType, SetJob DEF PurgeFinished
<1>2. StoreOK' /\ ServiceOK' /\ WorkerOK' /\ faults' \in 0..MaxFaults
  BY <1>0, StoreSame, ServiceSame, WorkerSame DEF PurgeFinished
<1> QED
  BY <1>1, <1>2, TypePartsNext

-----------------------------------------------------------------------------
(***************************************************************************)
(* The workers.                                                            *)
(***************************************************************************)
LEMMA TypeSelectDue ==
  ASSUME TypeOK, NEW w \in Worker, NEW c \in Conn, NEW purge \in Policy,
         SelectDue(w, c, purge)
  PROVE  TypeOK'
<1>0. StoreOK /\ ServiceOK /\ JobOK /\ WorkerOK /\ faults \in 0..MaxFaults
  BY TypeParts
<1> DEFINE r == [IdleWorker EXCEPT !.pc = "due", !.conn = c, !.purge = purge]
<1>1. r \in WorkerState
  BY IdleWorkerType DEF WorkerState, PC
<1>2. ShapedWorker(r)
  BY IdleWorkerType DEF ShapedWorker, WorkerState, Claimed
<1>3. WorkerOK'
  BY <1>0, <1>1, <1>2, SetWorker DEF SelectDue
<1>4. StoreOK' /\ ServiceOK' /\ JobOK' /\ faults' \in 0..MaxFaults
  BY <1>0, StoreSame, ServiceSame, JobSame DEF SelectDue
<1> QED
  BY <1>3, <1>4, TypePartsNext

LEMMA TypeSelectClaimable ==
  ASSUME TypeOK, NEW w \in Worker, NEW j \in Job, SelectClaimable(w, j)
  PROVE  TypeOK'
<1>0. StoreOK /\ ServiceOK /\ JobOK /\ WorkerOK /\ faults \in 0..MaxFaults
  BY TypeParts
<1> DEFINE r == [IdleWorker EXCEPT !.pc = "picked", !.conn = job[j].conn,
                                   !.job = j]
<1>1. job[j].conn \in Conn
  BY <1>0 DEF SelectClaimable, Claimable, JobOK, ShapedJob
<1>2. r \in WorkerState
  BY <1>1, IdleWorkerType DEF WorkerState, PC
<1>3. ShapedWorker(r)
  BY <1>1, IdleWorkerType DEF ShapedWorker, WorkerState, Claimed
<1>4. WorkerOK'
  BY <1>0, <1>2, <1>3, SetWorker DEF SelectClaimable
<1>5. StoreOK' /\ ServiceOK' /\ JobOK' /\ faults' \in 0..MaxFaults
  BY <1>0, StoreSame, ServiceSame, JobSame DEF SelectClaimable
<1> QED
  BY <1>4, <1>5, TypePartsNext

\* What an acquisition writes: a token nothing else mentions.
LEMMA Acquired ==
  ASSUME TypeOK, NEW w \in Worker, AcquireExecution(w)
  PROVE  /\ worker[w].conn \in Conn
         /\ FreshToken \in Token /\ FreshToken \notin TokensInUse
         /\ lease' = [lease EXCEPT ![worker[w].conn] =
                        [token |-> FreshToken, live |-> TRUE]]
         /\ worker' = [worker EXCEPT ![w] = [worker[w] EXCEPT
              !.pc = IF worker[w].job = None THEN "reread" ELSE "acquired",
              !.exec = FreshToken]]
<1>0. StoreOK /\ WorkerOK
  BY TypeParts
<1>1. worker[w].conn \in Conn
  BY <1>0 DEF AcquireExecution, WorkerOK, ShapedWorker
<1>2. FreshToken \in Token /\ FreshToken \notin TokensInUse
  BY FreshTokenIsFresh DEF AcquireExecution
<1>3. lease' = [lease EXCEPT ![worker[w].conn] =
                  [token |-> FreshToken, live |-> TRUE]]
  BY DEF AcquireExecution, TryAcquireSyncExecution
<1>4. lease'[worker[w].conn].token = FreshToken
  BY <1>0, <1>1, <1>3 DEF StoreOK, StoreTypeOK
<1>5. worker' = [worker EXCEPT ![w] = [worker[w] EXCEPT
        !.pc = IF worker[w].job = None THEN "reread" ELSE "acquired",
        !.exec = FreshToken]]
  BY <1>0, <1>4 DEF AcquireExecution, WorkerOK
<1> QED
  BY <1>1, <1>2, <1>3, <1>5

LEMMA TypeAcquireExecution ==
  ASSUME TypeOK, NEW w \in Worker, AcquireExecution(w)
  PROVE  TypeOK'
<1>0. StoreOK /\ ServiceOK /\ JobOK /\ WorkerOK /\ faults \in 0..MaxFaults
  BY TypeParts
<1> DEFINE pc == IF worker[w].job = None THEN "reread" ELSE "acquired"
           r == [worker[w] EXCEPT !.pc = pc, !.exec = FreshToken]
<1>1. worker[w] \in WorkerState /\ ShapedWorker(worker[w])
  BY <1>0, WorkerRecord
<1>2. FreshToken \in Token /\ worker[w].conn \in Conn
  BY Acquired
<1>3. r \in WorkerState
  BY <1>1, <1>2 DEF WorkerState, PC
<1>4. ShapedWorker(r)
  BY <1>1, <1>2 DEF ShapedWorker, WorkerState, Claimed
<1>5. WorkerOK'
  BY <1>0, <1>3, <1>4, Acquired, SetWorker
<1>6. lease' \in [Conn -> Lease]
  <2>1. [token |-> FreshToken, live |-> TRUE] \in Lease
    BY <1>2 DEF Lease
  <2>2. lease' = [lease EXCEPT ![worker[w].conn] =
                    [token |-> FreshToken, live |-> TRUE]]
    BY Acquired
  <2> QED
    BY <1>0, <2>1, <2>2 DEF StoreOK, StoreTypeOK
<1>7. StoreOK'
  BY <1>0, <1>6 DEF AcquireExecution, StoreOK, StoreTypeOK
<1>8. ServiceOK' /\ JobOK' /\ faults' \in 0..MaxFaults
  BY <1>0, ServiceSame, JobSame DEF AcquireExecution
<1> QED
  BY <1>5, <1>7, <1>8, TypePartsNext

LEMMA TypeSkipBusy ==
  ASSUME TypeOK, NEW w \in Worker, SkipBusy(w)
  PROVE  TypeOK'
<1>0. StoreOK /\ ServiceOK /\ JobOK /\ WorkerOK /\ faults \in 0..MaxFaults
  BY TypeParts
<1>1. WorkerOK'
  BY <1>0, IdleWorkerType, SetWorker DEF SkipBusy
<1>2. StoreOK' /\ ServiceOK' /\ JobOK' /\ faults' \in 0..MaxFaults
  BY <1>0, StoreSame, ServiceSame, JobSame DEF SkipBusy
<1> QED
  BY <1>1, <1>2, TypePartsNext

LEMMA TypeReadJob ==
  ASSUME TypeOK, NEW w \in Worker, ReadJob(w)
  PROVE  TypeOK'
<1>0. StoreOK /\ ServiceOK /\ JobOK /\ WorkerOK /\ faults \in 0..MaxFaults
  BY TypeParts
<1> DEFINE j == worker[w].job
           r == [worker[w] EXCEPT !.pc = "reread", !.attempt = job[j].attempt,
                                  !.purge = job[j].purge]
           s == [worker[w] EXCEPT !.pc = "releasing"]
<1>1. worker[w] \in WorkerState /\ ShapedWorker(worker[w])
  BY <1>0, WorkerRecord
<1>2. /\ worker[w].conn \in Conn /\ worker[w].exec \in Token
      /\ job[j].attempt \in 0..MaxAttempts /\ job[j].purge \in BOOLEAN
  BY <1>0, <1>1 DEF ReadJob, ShapedWorker, JobOK, JobRow
<1>3. r \in WorkerState /\ s \in WorkerState
  BY <1>1, <1>2 DEF WorkerState, PC
<1>4. ShapedWorker(r) /\ ShapedWorker(s)
  BY <1>1, <1>2 DEF ShapedWorker, WorkerState, Claimed
<1>5. worker' = [worker EXCEPT ![w] = r] \/ worker' = [worker EXCEPT ![w] = s]
  BY <1>0 DEF ReadJob, WorkerOK
<1>6. WorkerOK'
  BY <1>0, <1>3, <1>4, <1>5, SetWorker
<1>7. StoreOK' /\ ServiceOK' /\ JobOK' /\ faults' \in 0..MaxFaults
  BY <1>0, StoreSame, ServiceSame, JobSame DEF ReadJob
<1> QED
  BY <1>6, <1>7, TypePartsNext

LEMMA TypeLoadConnection ==
  ASSUME TypeOK, NEW w \in Worker, LoadConnection(w)
  PROVE  TypeOK'
<1>0. StoreOK /\ ServiceOK /\ JobOK /\ WorkerOK /\ faults \in 0..MaxFaults
  BY TypeParts
<1> DEFINE c == worker[w].conn
           fresh == worker[w].job = None
           pc == IF fresh THEN "loaded" ELSE "ready"
           n == IF fresh THEN NextAttempt(row[c].failures) ELSE worker[w].attempt
           r == [worker[w] EXCEPT !.pc = pc, !.status = row[c].status,
                                  !.failures = row[c].failures, !.attempt = n]
<1>1. worker[w] \in WorkerState /\ ShapedWorker(worker[w])
  BY <1>0, WorkerRecord
<1>2. c \in Conn /\ worker[w].exec \in Token
  BY <1>1 DEF LoadConnection, ShapedWorker
<1>3. row[c].failures \in 0..MaxAttempts /\ row[c].status \in Status
  BY <1>0, <1>2 DEF StoreOK, StoreTypeOK, Row
<1>4. n \in 0..MaxAttempts
  BY <1>1, <1>3, NextAttemptType DEF WorkerState
<1>5. r \in WorkerState
  <2> HIDE DEF n
  <2> QED
    BY <1>1, <1>3, <1>4 DEF WorkerState, PC
<1>6. ShapedWorker(r)
  <2> HIDE DEF n
  <2> QED
    BY <1>1, <1>2 DEF ShapedWorker, WorkerState, Claimed
<1>7. worker' = [worker EXCEPT ![w] = r]
  BY <1>0 DEF LoadConnection, WorkerOK
<1>8. WorkerOK'
  BY <1>0, <1>5, <1>6, <1>7, SetWorker
<1>9. StoreOK' /\ ServiceOK' /\ JobOK' /\ faults' \in 0..MaxFaults
  BY <1>0, StoreSame, ServiceSame, JobSame DEF LoadConnection
<1> QED
  BY <1>8, <1>9, TypePartsNext

LEMMA TypeSaveJob ==
  ASSUME TypeOK, NEW w \in Worker, SaveJob(w)
  PROVE  TypeOK'
<1>0. StoreOK /\ ServiceOK /\ JobOK /\ WorkerOK /\ faults \in 0..MaxFaults
  BY TypeParts
<1> DEFINE r == [worker[w] EXCEPT !.pc = "ready", !.job = FreeJob]
           q == NewJob(worker[w].conn, worker[w].attempt, worker[w].purge, None)
<1>1. worker[w] \in WorkerState /\ ShapedWorker(worker[w])
  BY <1>0, WorkerRecord
<1>2. FreeJob \in Job
  BY FreeJobIsFree DEF SaveJob
<1>3. worker[w].conn \in Conn /\ worker[w].exec \in Token
  BY <1>1 DEF SaveJob, ShapedWorker
<1>4. r \in WorkerState
  BY <1>1, <1>2 DEF WorkerState, PC
<1>5. ShapedWorker(r)
  BY <1>1, <1>2, <1>3 DEF ShapedWorker, WorkerState, Claimed
<1>6. worker' = [worker EXCEPT ![w] = r]
  BY <1>0 DEF SaveJob, WorkerOK
<1>7. WorkerOK'
  BY <1>0, <1>4, <1>5, <1>6, SetWorker
<1>8. q \in JobRow /\ ShapedJob(q)
  <2>1. worker[w].attempt \in 0..MaxAttempts /\ worker[w].purge \in BOOLEAN
    BY <1>1 DEF WorkerState
  <2> QED
    BY <1>3, <2>1, NewJobType
<1>9. JobOK'
  BY <1>0, <1>2, <1>8, SetJob DEF SaveJob
<1>10. StoreOK' /\ ServiceOK' /\ faults' \in 0..MaxFaults
  BY <1>0, StoreSame, ServiceSame DEF SaveJob
<1> QED
  BY <1>7, <1>9, <1>10, TypePartsNext

\* What a claim writes when the job can be claimed.
LEMMA ClaimedJob ==
  ASSUME TypeOK, NEW w \in Worker, ClaimJob(w), Claimable(worker[w].job)
  PROVE  /\ worker[w].job \in Job
         /\ FreshToken \in Token /\ FreshToken \notin TokensInUse
         /\ job' = [job EXCEPT ![worker[w].job] = [job[worker[w].job] EXCEPT
              !.status = "running", !.token = FreshToken, !.live = TRUE]]
         /\ worker' = [worker EXCEPT ![w] = [worker[w] EXCEPT
              !.pc = IF Eligible(w) THEN "marking" ELSE "failed",
              !.claim = FreshToken]]
<1>0. JobOK /\ WorkerOK
  BY TypeParts
<1>1. worker[w].job \in Job
  BY <1>0 DEF ClaimJob, WorkerOK, ShapedWorker
<1>2. FreshToken \in Token /\ FreshToken \notin TokensInUse
  BY FreshTokenIsFresh DEF ClaimJob
<1>3. job' = [job EXCEPT ![worker[w].job] = [job[worker[w].job] EXCEPT
        !.status = "running", !.token = FreshToken, !.live = TRUE]]
  BY <1>0, <1>1 DEF ClaimJob, JobOK
<1>4. worker' = [worker EXCEPT ![w] = [worker[w] EXCEPT
        !.pc = IF Eligible(w) THEN "marking" ELSE "failed", !.claim = FreshToken]]
  BY <1>0 DEF ClaimJob, WorkerOK
<1> QED
  BY <1>1, <1>2, <1>3, <1>4

LEMMA TypeClaimJob ==
  ASSUME TypeOK, NEW w \in Worker, ClaimJob(w)
  PROVE  TypeOK'
<1>0. StoreOK /\ ServiceOK /\ JobOK /\ WorkerOK /\ faults \in 0..MaxFaults
  BY TypeParts
<1> DEFINE j == worker[w].job
<1>1. worker[w] \in WorkerState /\ ShapedWorker(worker[w])
  BY <1>0, WorkerRecord
<1>2. worker[w].conn \in Conn /\ worker[w].exec \in Token /\ j \in Job
  BY <1>1 DEF ClaimJob, ShapedWorker
<1>3. StoreOK' /\ ServiceOK' /\ faults' \in 0..MaxFaults
  BY <1>0, StoreSame, ServiceSame DEF ClaimJob
<1>4. CASE Claimable(j)
  <2> DEFINE pc == IF Eligible(w) THEN "marking" ELSE "failed"
             r == [worker[w] EXCEPT !.pc = pc, !.claim = FreshToken]
             q == [job[j] EXCEPT !.status = "running", !.token = FreshToken,
                                 !.live = TRUE]
  <2>1. FreshToken \in Token
    BY <1>4, ClaimedJob
  <2>2. r \in WorkerState
    BY <1>1, <2>1 DEF WorkerState, PC
  <2>3. ShapedWorker(r)
    BY <1>1, <1>2, <2>1 DEF ShapedWorker, WorkerState, Claimed
  <2>4. WorkerOK'
    BY <1>0, <1>4, <2>2, <2>3, ClaimedJob, SetWorker
  <2>5. job[j] \in JobRow /\ ShapedJob(job[j])
    BY <1>0, <1>2, JobRecord
  <2>6. q \in JobRow
    BY <2>1, <2>5 DEF JobRow
  <2>7. job[j].conn \in Conn
    BY <1>4, <2>5 DEF Claimable, ShapedJob
  <2>8. ShapedJob(q)
    BY <2>1, <2>5, <2>7 DEF ShapedJob, JobRow
  <2>9. JobOK'
    BY <1>0, <1>2, <1>4, <2>6, <2>8, ClaimedJob, SetJob
  <2> QED
    BY <1>3, <2>4, <2>9, TypePartsNext
<1>5. CASE ~Claimable(j)
  <2>1. Go(w, "releasing") /\ UNCHANGED job /\ Executing(w)
    BY <1>5 DEF ClaimJob, Executing
  <2>2. WorkerOK'
    BY <1>0, <2>1, GoWorker DEF PC, Claimed
  <2> QED
    BY <1>0, <1>3, <2>1, <2>2, JobSame, TypePartsNext
<1> QED
  BY <1>4, <1>5

\* The conditional writes keep the types of the rows they write.
LEMMA FencedWriteType ==
  ASSUME TypeOK, NEW w \in Worker, worker[w].pc # "idle",
         FencedWrite(w) \/ UNCHANGED <<row, facts>>,
         UNCHANGED <<lease, revocations>>
  PROVE  StoreOK'
<1>0. StoreOK /\ WorkerOK
  BY TypeParts
<1> DEFINE c == worker[w].conn
           n == worker[w].attempt
<1>1. worker[w] \in WorkerState /\ ShapedWorker(worker[w])
  BY <1>0, WorkerRecord
<1>2. /\ c \in Conn /\ n \in 0..MaxAttempts
      /\ worker[w].status \in Status /\ worker[w].failures \in 0..MaxAttempts
  BY <1>1 DEF ShapedWorker, WorkerState
<1>3. row[c] \in Row
  BY <1>0, <1>2 DEF StoreOK, StoreTypeOK
<1>4. ASSUME NEW status \in Status, NEW failures \in 0..MaxAttempts,
             NEW retry \in BOOLEAN, UNCHANGED facts,
             UpdateConnectionAfterSync(c, worker[w].exec, status, failures, retry)
      PROVE  StoreOK'
  <2> DEFINE r == [row[c] EXCEPT !.status = status, !.failures = failures,
                                 !.retry = retry]
  <2>1. r \in Row /\ r.failures \in 0..MaxAttempts
    <3>1. failures \in Nat
      OBVIOUS
    <3>2. r \in Row
      BY <1>3, <3>1 DEF Row
    <3>3. r.failures = failures
      BY <1>3 DEF Row
    <3> QED
      BY <3>2, <3>3
  <2>2. row' = [row EXCEPT ![c] = r]
    BY <1>4 DEF UpdateConnectionAfterSync
  <2> HIDE DEF r
  <2>3. row' \in [Conn -> Row] /\ \A d \in Conn : row'[d].failures \in 0..MaxAttempts
    BY <1>0, <2>1, <2>2 DEF StoreOK, StoreTypeOK
  <2> QED
    BY <1>0, <1>4, <2>3 DEF StoreOK, StoreTypeOK
<1>5. CASE UNCHANGED <<row, facts>>
  BY <1>0, <1>5, StoreSame DEF storeVars
<1>6. CASE SaveConnectionActivity(c, worker[w].exec) /\ UNCHANGED row
  BY <1>0, <1>2, <1>6
     DEF SaveConnectionActivity, StoreOK, StoreTypeOK, Environment, EnvironmentOf
<1>7. {"active", "error"} \subseteq Status /\ NextRetry(n) \in BOOLEAN
      /\ 0 \in 0..MaxAttempts
  BY DEF Status, NextRetry
<1>8. CASE FencedWrite(w) /\ worker[w].pc = "marking"
  BY <1>2, <1>4, <1>8 DEF FencedWrite
<1>9. CASE FencedWrite(w) /\ worker[w].pc = "publishing"
  BY <1>6, <1>9 DEF FencedWrite
<1>10. CASE FencedWrite(w) /\ worker[w].pc = "recording"
  BY <1>2, <1>4, <1>7, <1>10 DEF FencedWrite
<1>11. CASE FencedWrite(w) /\ worker[w].pc = "confirming"
  BY <1>4, <1>7, <1>11 DEF FencedWrite
<1> QED
  BY <1>5, <1>8, <1>9, <1>10, <1>11 DEF FencedWrite

LEMMA FailurePCType ==
  ASSUME NEW w \in Worker
  PROVE  FailurePC(w) \in PC \cap Claimed
BY DEF FailurePC, PC, Claimed

LEMMA TypeWriteOr ==
  ASSUME TypeOK, NEW w \in Worker, worker[w].pc \in Claimed,
         NEW p \in PC \cap Claimed, NEW q \in PC \cap Claimed, WriteOr(w, p, q)
  PROVE  TypeOK'
<1>0. StoreOK /\ ServiceOK /\ JobOK /\ WorkerOK /\ faults \in 0..MaxFaults
  BY TypeParts
<1>1. StoreOK'
  BY FencedWriteType DEF WriteOr, Claimed
<1>2. Executing(w)
  BY DEF Executing, Claimed
<1>3. WorkerOK'
  <2>1. \A s \in PC \cap Claimed : Go(w, s) => WorkerOK'
    BY <1>0, <1>2, GoWorker DEF Claimed
  <2> QED
    BY <2>1 DEF WriteOr
<1>4. ServiceOK' /\ JobOK' /\ faults' \in 0..MaxFaults
  BY <1>0, ServiceSame, JobSame DEF WriteOr
<1> QED
  BY <1>1, <1>3, <1>4, TypePartsNext

LEMMA TypeWrites ==
  ASSUME TypeOK, NEW w \in Worker,
         MarkAttempt(w) \/ Publish(w) \/ RecordFailure(w) \/ ConfirmSuccess(w)
  PROVE  TypeOK'
<1>1. {"fetching", "confirming", "failed", "succeeded", "compensating"}
        \subseteq PC \cap Claimed
  BY DEF PC, Claimed
<1>2. worker[w].pc \in Claimed
  BY DEF MarkAttempt, Publish, RecordFailure, ConfirmSuccess, Claimed
<1> QED
  BY <1>1, <1>2, FailurePCType, TypeWriteOr
     DEF MarkAttempt, Publish, RecordFailure, ConfirmSuccess

LEMMA TypeFetchActivity ==
  ASSUME TypeOK, NEW w \in Worker, FetchActivity(w)
  PROVE  TypeOK'
<1>0. StoreOK /\ ServiceOK /\ JobOK /\ WorkerOK /\ faults \in 0..MaxFaults
  BY TypeParts
<1>1. Executing(w) /\ worker[w].pc \in Claimed
  BY DEF FetchActivity, Executing, Claimed
<1>2. "publishing" \in PC \cap Claimed
  BY DEF PC, Claimed
<1>3. PICK p \in PC \cap Claimed : Go(w, p)
  BY <1>2, FailurePCType DEF FetchActivity
<1>4. WorkerOK'
  BY <1>0, <1>1, <1>3, GoWorker DEF Claimed
<1>5. StoreOK' /\ ServiceOK' /\ JobOK' /\ faults' \in 0..MaxFaults
  BY <1>0, StoreSame, ServiceSame, JobSame DEF FetchActivity
<1> QED
  BY <1>4, <1>5, TypePartsNext

LEMMA TypePurges ==
  ASSUME TypeOK, NEW w \in Worker, PurgeRange(w) \/ Compensate(w)
  PROVE  TypeOK'
<1>0. StoreOK /\ ServiceOK /\ JobOK /\ WorkerOK /\ faults \in 0..MaxFaults
  BY TypeParts
<1>1. Executing(w) /\ worker[w].pc \in Claimed
  BY DEF PurgeRange, Compensate, Executing, Claimed
<1>2. {"recording", "failed"} \subseteq PC \cap Claimed
  BY DEF PC, Claimed
<1>3. PICK p \in PC \cap Claimed : Go(w, p)
  BY <1>2 DEF PurgeRange, Compensate
<1>4. WorkerOK'
  BY <1>0, <1>1, <1>3, GoWorker DEF Claimed
<1>5. worker[w].conn \in Conn
  BY <1>0, <1>1 DEF WorkerOK, ShapedWorker, Claimed
<1>6. StoreOK'
  BY <1>0, <1>5 DEF PurgeRange, Compensate, ReplaceFacts, StoreOK, StoreTypeOK
<1>7. ServiceOK' /\ JobOK' /\ faults' \in 0..MaxFaults
  BY <1>0, ServiceSame, JobSame DEF PurgeRange, Compensate
<1> QED
  BY <1>4, <1>6, <1>7, TypePartsNext

LEMMA TypeCompleteJob ==
  ASSUME TypeOK, NEW w \in Worker, CompleteJob(w)
  PROVE  TypeOK'
<1>0. StoreOK /\ ServiceOK /\ JobOK /\ WorkerOK /\ faults \in 0..MaxFaults
  BY TypeParts
<1> DEFINE j == worker[w].job
           q == [job[j] EXCEPT !.status = worker[w].pc, !.token = None,
                               !.live = FALSE]
<1>1. Executing(w) /\ "releasing" \in PC \ Claimed /\ Go(w, "releasing")
  BY DEF CompleteJob, Executing, PC, Claimed
<1>2. WorkerOK'
  BY <1>0, <1>1, GoWorker
<1>3. StoreOK' /\ ServiceOK' /\ faults' \in 0..MaxFaults
  BY <1>0, StoreSame, ServiceSame DEF CompleteJob
<1>4. CASE UNCHANGED job
  BY <1>0, <1>2, <1>3, <1>4, JobSame, TypePartsNext
<1>5. CASE OwnsJob(w) /\ job' = FinishedJob(w)
  <2>1. j \in Job
    BY <1>0 DEF CompleteJob, WorkerOK, ShapedWorker, Claimed
  <2>2. job[j] \in JobRow /\ ShapedJob(job[j])
    BY <1>0, <2>1, JobRecord
  <2>3. q \in JobRow
    BY <2>2 DEF JobRow, CompleteJob
  <2>4. ShapedJob(q)
    BY <1>5, <2>2 DEF ShapedJob, JobRow, CompleteJob, OwnsJob
  <2>5. job' = [job EXCEPT ![j] = q]
    BY <1>5 DEF FinishedJob
  <2>6. JobOK'
    BY <1>0, <2>1, <2>3, <2>4, <2>5, SetJob
  <2> QED
    BY <1>2, <1>3, <2>6, TypePartsNext
<1> QED
  BY <1>4, <1>5 DEF CompleteJob

LEMMA TypeReleaseExecution ==
  ASSUME TypeOK, NEW w \in Worker, ReleaseExecution(w)
  PROVE  TypeOK'
<1>0. StoreOK /\ ServiceOK /\ JobOK /\ WorkerOK /\ faults \in 0..MaxFaults
  BY TypeParts
<1>1. WorkerOK'
  BY <1>0, IdleWorkerType, SetWorker DEF ReleaseExecution
<1>2. NoLease \in Lease
  BY DEF NoLease, Lease
<1>3. StoreOK'
  BY <1>0, <1>2 DEF ReleaseExecution, ReleaseSyncExecution, StoreOK, StoreTypeOK
<1>4. ServiceOK' /\ JobOK' /\ faults' \in 0..MaxFaults
  BY <1>0, ServiceSame, JobSame DEF ReleaseExecution
<1> QED
  BY <1>1, <1>3, <1>4, TypePartsNext

LEMMA TypeWorkerStep ==
  ASSUME TypeOK, NEW w \in Worker, WorkerStep(w)
  PROVE  TypeOK'
BY TypeAcquireExecution, TypeSkipBusy, TypeReadJob, TypeLoadConnection,
   TypeSaveJob, TypeClaimJob, TypeWrites, TypeFetchActivity, TypePurges,
   TypeCompleteJob, TypeReleaseExecution DEF WorkerStep

LEMMA TypeCrash ==
  ASSUME TypeOK, NEW w \in Worker, Crash(w)
  PROVE  TypeOK'
<1>0. StoreOK /\ ServiceOK /\ JobOK /\ WorkerOK /\ faults \in 0..MaxFaults
  BY TypeParts
<1>1. WorkerOK'
  BY <1>0, IdleWorkerType, SetWorker DEF Crash
<1>2. StoreOK' /\ ServiceOK' /\ JobOK' /\ faults' \in 0..MaxFaults
  BY <1>0, StoreSame, ServiceSame, JobSame, FaultType DEF Crash
<1> QED
  BY <1>1, <1>2, TypePartsNext

LEMMA TypeDatabaseError ==
  ASSUME TypeOK, NEW w \in Worker, DatabaseError(w)
  PROVE  TypeOK'
<1>0. StoreOK /\ ServiceOK /\ JobOK /\ WorkerOK /\ faults \in 0..MaxFaults
  BY TypeParts
<1>1. StoreOK'
  BY FencedWriteType DEF DatabaseError
<1>2. ServiceOK' /\ JobOK' /\ faults' \in 0..MaxFaults
  BY <1>0, ServiceSame, JobSame, FaultType DEF DatabaseError
<1>3. CASE ErrorPC(w) = "idle"
  <2>1. worker' = [worker EXCEPT ![w] = IdleWorker]
    BY <1>3 DEF DatabaseError
  <2> QED
    BY <1>0, <1>1, <1>2, <2>1, IdleWorkerType, SetWorker, TypePartsNext
<1>4. CASE ErrorPC(w) # "idle"
  <2> DEFINE p == ErrorPC(w)
             n == IF worker[w].pc = "reread" /\ worker[w].job = None THEN 1
                  ELSE worker[w].attempt
             r == [worker[w] EXCEPT !.pc = p, !.attempt = n]
  <2>1. worker[w] \in WorkerState /\ ShapedWorker(worker[w])
    BY <1>0, WorkerRecord
  <2>2. n \in 0..MaxAttempts
    BY <2>1 DEF WorkerState
  <2>3. /\ p \in PC \ {"idle", "due", "picked", "acquired"}
        /\ p \in Claimed => worker[w].pc \in Claimed
        /\ p = "ready" => worker[w].job # None
        /\ Executing(w)
    BY <1>4 DEF ErrorPC, FailurePC, PC, Claimed, Executing, DatabaseError
  <2> HIDE DEF p, n
  <2>4. r \in WorkerState
    BY <2>1, <2>2, <2>3 DEF WorkerState
  <2>5. ShapedWorker(r)
    BY <2>1, <2>3 DEF ShapedWorker, WorkerState, Claimed, Executing
  <2>6. worker' = [worker EXCEPT ![w] = r]
    BY <1>0, <1>4 DEF DatabaseError, WorkerOK, p, n
  <2> QED
    BY <1>0, <1>1, <1>2, <2>4, <2>5, <2>6, SetWorker, TypePartsNext
<1> QED
  BY <1>3, <1>4

LEMMA TypeNext == TypeOK /\ [Next]_vars => TypeOK'
<1> SUFFICES ASSUME TypeOK, [Next]_vars PROVE TypeOK'
  OBVIOUS
<1>1. CASE ApiStep
  BY <1>1, TypeConnect, TypeDisconnect, TypeEnqueue, TypeServiceStep DEF ApiStep
<1>2. CASE Expiry
  BY <1>2, TypeLeaseExpires, TypeClaimExpires, TypeKeyExpires, TypePurgeFinished
     DEF Expiry
<1>3. CASE \E w \in Worker : Select(w)
  BY <1>3, TypeSelectDue, TypeSelectClaimable DEF Select
<1>4. CASE \E w \in Worker : WorkerStep(w) \/ DatabaseError(w) \/ Crash(w)
  BY <1>4, TypeWorkerStep, TypeDatabaseError, TypeCrash
<1>5. CASE UNCHANGED vars
  BY <1>5, TypeParts, TypePartsNext, StoreSame, ServiceSame, JobSame, WorkerSame
     DEF vars, syncVars
<1> QED
  BY <1>1, <1>2, <1>3, <1>4, <1>5 DEF Next

\* The type invariant, for any sets of connections, workers, jobs, requests and
\* keys: every variable keeps its type, a job has a claim exactly while it runs,
\* and a worker holds what the point it has reached in executeAcquired supposes.
THEOREM TypeCorrect == Spec => []TypeOK
<1>1. Init => TypeOK
  BY TypeInit
<1>2. TypeOK /\ [Next]_vars => TypeOK'
  BY TypeNext
<1> QED
  BY <1>1, <1>2, PTL DEF Spec
=============================================================================
