--------------------------- MODULE LifecycleProofs ----------------------------
(***************************************************************************)
(* SyncExecution implements ConnectionLifecycle.  The invariant says what  *)
(* rows, and the rows that requests remember, keep in each phase: the      *)
(* consent is that of the creation, there is no secret without it, and a   *)
(* connection that waits for its callback has no secret, lease or facts.   *)
(* Each step then changes one connection at most (OneConnection), and that *)
(* connection as its phase allows (PhaseStep).                             *)
(***************************************************************************)
EXTENDS SyncSafetyProofs

USE ConnectionAssumption, SyncAssumption

Waiting(c) == AuthMethod[c] = "oauth2" /\ c \notin completed

Consented(c, r) ==
  /\ r.private = (c \in Private)
  /\ r.secret => r.private
  /\ Waiting(c) => ~r.secret

RowsConsented ==
  \A c \in Conn :
    /\ row[c].status = "absent" => row[c] = NoRow /\ c \notin completed
    /\ row[c].status \notin {"absent", "revoked"} => Consented(c, row[c])

RequestsConsented ==
  \A h \in Handler : handler[h].pc = "saving" =>
    /\ row[handler[h].conn].status # "absent"
    /\ Consented(handler[h].conn, handler[h].snapshot)

WaitingKeepsNothing ==
  \A c \in Conn : row[c].status = "absent" \/ Waiting(c) =>
    /\ lease[c] = NoLease
    /\ AuthMethod[c] # "none" => facts[c] = {}

LifecycleInvariant ==
  /\ RevokedInvariant /\ CallbackInvariant
  /\ RowsConsented /\ RequestsConsented /\ WaitingKeepsNothing

LEMMA LifecycleInit == Init => LifecycleInvariant
<1> SUFFICES ASSUME Init
             PROVE  RowsConsented /\ RequestsConsented /\ WaitingKeepsNothing
  BY RevokedInvariantInit, CallbackInit DEF LifecycleInvariant
<1> USE DEF Init, StoreInit, ServiceInit
<1>1. RowsConsented
  BY DEF RowsConsented, NoRow
<1>2. RequestsConsented
  BY DEF RequestsConsented, IdleHandler
<1>3. WaitingKeepsNothing
  BY DEF WaitingKeepsNothing, Environment
<1> QED
  BY <1>1, <1>2, <1>3

-----------------------------------------------------------------------------
(***************************************************************************)
(* The invariant is kept.                                                  *)
(***************************************************************************)

\* A row that does not exist is written by the connection's creation only.
LEMMA AbsentRow ==
  ASSUME TypeOK, RequestsConsented, [Next]_vars,
         NEW c \in Conn, row[c].status = "absent", ~Connect(c)
  PROVE  row'[c] = row[c] /\ (c \notin completed => c \notin completed')
<1>0. row \in [Conn -> Row]
  BY DEF TypeOK, StoreTypeOK
<1>1. ASSUME NEW d \in Conn, Connect(d) \/ Disconnect(d)
      PROVE  row'[c] = row[c]
  BY <1>0, <1>1 DEF Connect, Disconnect, RevokeConnectionAggregate
<1>2. ASSUME NEW h \in Handler, SaveEdit(h)
      PROVE  /\ row'[c] = row[c]
             /\ c \notin completed => c \notin completed'
  <2>1. handler[h].conn # c
    BY <1>2 DEF SaveEdit, RequestsConsented
  <2>2. \E r : row' = [row EXCEPT ![handler[h].conn] = r]
    BY <1>2, SavedRow
  <2> QED
    BY <1>0, <1>2, <2>1, <2>2 DEF SaveEdit
<1>3. ASSUME NEW w \in Worker, FencedWrite(w)
      PROVE  row'[c] = row[c]
  <2>1. worker[w].conn # c
    BY <1>3, WrittenRow DEF Fenced, Syncable
  <2> QED
    BY <1>3, <2>1, OtherRowKept
<1> QED
  BY <1>1, <1>2, <1>3, RowSteps, CompletedSteps

\* The row a request saves is consented to as the row it read.
LEMMA SavedRowConsented ==
  ASSUME TypeOK, RequestsAllowed, RequestsConsented, NEW h \in Handler, SaveEdit(h),
         NEW c \in Conn, handler[h].conn = c
  PROVE  /\ row[c].status # "absent" /\ row'[c].status # "absent"
         /\ Consented(c, row[c])'
         /\ \A d \in Conn \ {c} : row'[d] = row[d]
<1> DEFINE edit == handler[h].edit
           edited == Edited(handler[h].snapshot, edit)
           r == [edited EXCEPT !.secret = edited.secret /\ edited.private]
<1>0. handler[h].pc = "saving" /\ row \in [Conn -> Row]
  BY DEF SaveEdit, TypeOK, StoreTypeOK
<1>1. /\ edit \in Edit /\ handler[h].snapshot \in Row
      /\ edited \in Row /\ row' = [row EXCEPT ![c] = r]
  BY SavedRow
<1>2. /\ row[c].status # "absent" /\ Consented(c, handler[h].snapshot)
      /\ handler[h].snapshot.status # "absent"
      /\ Allowed(c, handler[h].snapshot, edit)
  BY <1>0 DEF RequestsConsented, RequestsAllowed
<1>3. /\ r.private = edited.private /\ r.status = edited.status
      /\ r.secret => edited.secret /\ edited.private
  BY <1>1 DEF Row
<1>4. edited.private = (c \in Private) /\ edited.status # "absent"
  BY <1>1, <1>2 DEF Consented, Edited, Edit, Row
<1>5. completed' = IF edit = "complete" THEN completed \cup {c} ELSE completed
  BY DEF SaveEdit
<1>6. Waiting(c)' => ~edited.secret
  <2>1. edit = "rotate" => AuthMethod[c] = "token"
    BY <1>2 DEF Allowed
  <2>2. edit = "complete" => ~Waiting(c)'
    BY <1>5 DEF Waiting
  <2>3. edit \in {"scopes", "enable", "disable"} =>
          edited.secret = handler[h].snapshot.secret
    BY <1>1 DEF Edited, Row
  <2>4. edit # "complete" => (Waiting(c)' => Waiting(c))
    BY <1>5 DEF Waiting
  <2> QED
    BY <1>1, <1>2, <2>1, <2>2, <2>3, <2>4 DEF Edit, Consented, Waiting
<1>7. row'[c] = r /\ \A d \in Conn \ {c} : row'[d] = row[d]
  <2> HIDE DEF r
  <2> QED
    BY <1>0, <1>1
<1> QED
  BY <1>1, <1>2, <1>3, <1>4, <1>6, <1>7 DEF Consented

LEMMA ConsentedStill ==
  ASSUME [Next]_vars, NEW c \in Conn, NEW r, Consented(c, r)
  PROVE  Consented(c, r)'
BY CompletedGrows DEF Consented, Waiting

\* What becomes of a row that exists.
LEMMA PresentRow ==
  ASSUME LifecycleInvariant, [Next]_vars, NEW c \in Conn, row[c].status # "absent"
  PROVE  /\ row'[c].status # "absent"
         /\ row'[c].status # "revoked" => Consented(c, row[c])'
<1> USE DEF LifecycleInvariant, RevokedInvariant
<1>1. CASE Disconnect(c)
  <2>1. row'[c].status = "revoked"
    BY <1>1, DisconnectKeepsNothing DEF RevokedKeepsNothing
  <2> QED
    BY <2>1
<1>2. ASSUME ~Disconnect(c), NEW h \in Handler, SaveEdit(h)
      PROVE  /\ row'[c].status # "absent"
             /\ row'[c].status # "revoked" => Consented(c, row[c])'
  <2>1. handler[h].conn \in Conn
    BY <1>2, SavedRow
  <2>2. CASE handler[h].conn = c
    BY <1>2, <2>2, SavedRowConsented
  <2>3. CASE handler[h].conn # c
    <3>1. row'[c] = row[c]
      BY <1>2, <2>1, <2>3, SavedRowConsented
    <3>2. row[c].status # "revoked" => Consented(c, row[c])
      BY DEF RowsConsented
    <3> QED
      BY <3>1, <3>2, CompletedGrows DEF Consented, Waiting
  <2> QED
    BY <2>2, <2>3
<1>3. CASE ~Disconnect(c) /\ \A h \in Handler : ~SaveEdit(h)
  <2>1. /\ row'[c].secret = row[c].secret /\ row'[c].private = row[c].private
        /\ row'[c].status # "absent"
        /\ (row'[c].status = "revoked") = (row[c].status = "revoked")
    BY <1>3, CredentialsKept
  <2>2. row[c].status # "revoked" => Consented(c, row[c])
    BY DEF RowsConsented
  <2> QED
    BY <2>1, <2>2, CompletedGrows DEF Consented, Waiting
<1> QED
  BY <1>1, <1>2, <1>3

LEMMA RowsConsentedNext ==
  ASSUME LifecycleInvariant, [Next]_vars
  PROVE  RowsConsented'
<1> USE DEF LifecycleInvariant, RevokedInvariant
<1> SUFFICES ASSUME NEW c \in Conn
             PROVE  /\ row'[c].status = "absent" => row'[c] = NoRow /\ c \notin completed'
                    /\ row'[c].status \notin {"absent", "revoked"} =>
                         Consented(c, row[c])'
  BY DEF RowsConsented
<1>1. CASE row[c].status # "absent"
  BY <1>1, PresentRow
<1>2. CASE row[c].status = "absent" /\ Connect(c)
  <2>1. row[c] \in Row /\ row \in [Conn -> Row]
    BY DEF TypeOK, StoreTypeOK
  <2>2. /\ row'[c].status # "absent"
        /\ row'[c].private = (c \in Private)
        /\ row'[c].secret = (AuthMethod[c] = "token" /\ c \in Private)
    BY <1>2, <2>1 DEF Connect
  <2> QED
    BY <2>2 DEF Consented, Waiting
<1>3. CASE row[c].status = "absent" /\ ~Connect(c)
  <2>1. row'[c] = row[c] /\ (c \notin completed => c \notin completed')
    BY <1>3, AbsentRow
  <2> QED
    BY <1>3, <2>1 DEF RowsConsented
<1> QED
  BY <1>1, <1>2, <1>3

LEMMA RequestsConsentedNext ==
  ASSUME LifecycleInvariant, [Next]_vars
  PROVE  RequestsConsented'
<1> USE DEF LifecycleInvariant, RevokedInvariant
<1> SUFFICES ASSUME NEW h \in Handler, handler'[h].pc = "saving"
             PROVE  /\ row'[handler'[h].conn].status # "absent"
                    /\ Consented(handler[h].conn, handler[h].snapshot)'
  BY DEF RequestsConsented
<1>1. CASE handler[h].pc = "saving" /\ handler'[h] = handler[h]
  <2>1. handler[h].conn \in Conn
    BY <1>1 DEF TypeOK, ServiceTypeOK
  <2>2. /\ row[handler[h].conn].status # "absent"
        /\ Consented(handler[h].conn, handler[h].snapshot)
    BY <1>1 DEF RequestsConsented
  <2>3. row'[handler[h].conn].status # "absent"
    BY <2>1, <2>2, PresentRow
  <2> QED
    BY <1>1, <2>2, <2>3, CompletedGrows DEF Consented, Waiting
<1>2. ASSUME NEW c \in Conn, NEW edit \in Edit, ReadConnection(h, c, edit),
             handler'[h] = [pc |-> "saving", conn |-> c, edit |-> edit,
                            snapshot |-> row[c]]
      PROVE  /\ row'[handler'[h].conn].status # "absent"
             /\ Consented(handler[h].conn, handler[h].snapshot)'
  <2>1. handler'[h].conn = c /\ handler'[h].snapshot = row[c]
    BY <1>2
  <2>2. row[c].status # "absent" /\ Allowed(c, row[c], edit) /\ row' = row
    BY <1>2 DEF ReadConnection, storeVars
  <2>3. row[c].status # "revoked"
    BY <2>2 DEF Allowed, Edit
  <2>4. Consented(c, row[c])
    BY <2>2, <2>3 DEF RowsConsented
  <2> QED
    BY <2>1, <2>2, <2>4, CompletedGrows DEF Consented, Waiting
<1> QED
  BY <1>1, <1>2, Requests

LEMMA WaitingKeepsNothingNext ==
  ASSUME LifecycleInvariant, [Next]_vars
  PROVE  WaitingKeepsNothing'
<1> USE DEF LifecycleInvariant, RevokedInvariant
<1> SUFFICES ASSUME NEW c \in Conn, row'[c].status = "absent" \/ Waiting(c)'
             PROVE  /\ lease'[c] = NoLease
                    /\ AuthMethod[c] # "none" => facts'[c] = {}
  BY DEF WaitingKeepsNothing
<1>1. row[c].status = "absent" \/ Waiting(c)
  BY PresentRow, CompletedGrows DEF Waiting
<1>2. ~Syncable(c)
  BY <1>1 DEF Syncable, Waiting, CallbackInvariant, OAuthOnlyAfterCallback
<1> QED
  BY <1>1, <1>2, LeaseStaysFree, FactsStayAway DEF WaitingKeepsNothing

LEMMA LifecycleNext ==
  LifecycleInvariant /\ [Next]_vars => LifecycleInvariant'
BY RevokedInvariantNext, CallbackNext, RowsConsentedNext, RequestsConsentedNext,
   WaitingKeepsNothingNext DEF LifecycleInvariant, RevokedInvariant

\* No access token ciphertext is stored without an enabled consent row
\* (SaveConnection), not even by a request that saves what it read long before.
CredentialNeedsConsent == \A c \in Conn : row[c].secret => row[c].private

\* Whatever requests, callbacks, disconnects and workers overlap, a stored
\* credential is covered by a consent that is there at the same time.
THEOREM CredentialNeedsConsentHolds == Spec => []CredentialNeedsConsent
<1>1. LifecycleInvariant => CredentialNeedsConsent
  <2> SUFFICES ASSUME LifecycleInvariant, NEW c \in Conn, row[c].secret
               PROVE  row[c].private
    BY DEF CredentialNeedsConsent
  <2>1. CASE row[c].status = "absent"
    BY <2>1 DEF LifecycleInvariant, RowsConsented, NoRow
  <2>2. CASE row[c].status = "revoked"
    BY <2>2 DEF LifecycleInvariant, RevokedInvariant, RevokedKeepsNothing
  <2>3. CASE row[c].status \notin {"absent", "revoked"}
    BY <2>3 DEF LifecycleInvariant, RowsConsented, Consented
  <2> QED
    BY <2>1, <2>2, <2>3
<1> QED
  BY <1>1, LifecycleInit, LifecycleNext, PTL DEF Spec

-----------------------------------------------------------------------------
(***************************************************************************)
(* The refinement.                                                         *)
(***************************************************************************)
Untouched(c) ==
  /\ row'[c] = row[c] /\ lease'[c] = lease[c]
  /\ AuthMethod[c] # "none" => facts'[c] = facts[c]
  /\ c \in completed' <=> c \in completed

\* A step touches one connection at most.
LEMMA OneConnection ==
  ASSUME TypeOK, [Next]_vars
  PROVE  \/ \A d \in Conn : Untouched(d)
         \/ \E c \in Conn : \A d \in Conn \ {c} : Untouched(d)
<1> USE DEF Untouched
<1>0. /\ row \in [Conn -> Row] /\ lease \in [Conn -> Lease]
      /\ facts \in [Environment -> SUBSET Conn] /\ WorkerOK
      /\ \A c, d \in Conn : EnvironmentOf(c) = d => c = d
      /\ Conn \subseteq Environment
  BY TypeParts DEF TypeOK, StoreTypeOK, EnvironmentOf, Environment
<1>1. CASE UNCHANGED <<row, lease, facts, completed>>
  BY <1>1
<1>2. ASSUME NEW c \in Conn,
             Connect(c) \/ Disconnect(c) \/ LeaseExpires(c)
               \/ \E k \in Key, purge \in Policy : Enqueue(c, k, purge)
      PROVE  \A d \in Conn \ {c} : Untouched(d)
  BY <1>0, <1>2 DEF Connect, Disconnect, RevokeConnectionAggregate, LeaseExpires,
     Enqueue, serviceVars
<1>3. ASSUME NEW h \in Handler, SaveEdit(h)
      PROVE  \E c \in Conn : \A d \in Conn \ {c} : Untouched(d)
  <2> DEFINE c == handler[h].conn
  <2>1. c \in Conn /\ \E r : row' = [row EXCEPT ![c] = r]
    BY <1>3, SavedRow
  <2>2. UNCHANGED <<lease, facts>> /\ completed' \in {completed, completed \cup {c}}
    BY <1>3 DEF SaveEdit
  <2> HIDE DEF c
  <2> QED
    BY <1>0, <2>1, <2>2
<1>4. ASSUME NEW w \in Worker, worker[w].conn \in Conn, FencedWrite(w),
             UNCHANGED <<lease, completed>>
      PROVE  \A d \in Conn \ {worker[w].conn} : Untouched(d)
  <2>1. UNCHANGED facts \/ SaveConnectionActivity(worker[w].conn, worker[w].exec)
    BY <1>4 DEF FencedWrite
  <2>2. ASSUME NEW d \in Conn, d # worker[w].conn, AuthMethod[d] # "none"
        PROVE  facts'[d] = facts[d]
    BY <1>0, <1>4, <2>1, <2>2 DEF SaveConnectionActivity
  <2> QED
    BY <1>4, <2>2, OtherRowKept
<1>5. ASSUME NEW w \in Worker, worker[w].conn \in Conn,
             ReplaceFacts(worker[w].conn), UNCHANGED <<row, lease, completed>>
      PROVE  \A d \in Conn \ {worker[w].conn} : Untouched(d)
  BY <1>0, <1>5 DEF ReplaceFacts
<1>6. ASSUME NEW w \in Worker,
             WorkerStep(w) \/ Select(w) \/ DatabaseError(w) \/ Crash(w)
      PROVE  \/ UNCHANGED <<row, lease, facts, completed>>
             \/ \E c \in Conn : \A d \in Conn \ {c} : Untouched(d)
  <2>0. worker[w].pc # "idle" => worker[w].conn \in Conn
    BY DEF TypeOK, WorkerShape
  <2>1. CASE AcquireExecution(w)
    <3>1. /\ worker[w].conn \in Conn /\ UNCHANGED <<row, facts, completed>>
          /\ lease' = [lease EXCEPT ![worker[w].conn] =
                          [token |-> FreshToken, live |-> TRUE]]
      BY <2>1, Acquired DEF AcquireExecution, serviceVars
    <3> QED
      BY <1>0, <3>1
  <2>2. CASE ReleaseExecution(w)
    <3>1. worker[w].conn \in Conn
      BY <2>0, <2>2 DEF ReleaseExecution
    <3>2. \A d \in Conn \ {worker[w].conn} : Untouched(d)
      BY <1>0, <2>2, <3>1 DEF ReleaseExecution, ReleaseSyncExecution, serviceVars
    <3> QED
      BY <3>1, <3>2
  <2>3. CASE MarkAttempt(w) \/ Publish(w) \/ RecordFailure(w) \/ ConfirmSuccess(w)
    <3>1. /\ worker[w].conn \in Conn /\ UNCHANGED <<lease, completed>>
          /\ FencedWrite(w) \/ UNCHANGED <<row, facts>>
      BY <2>0, <2>3 DEF MarkAttempt, Publish, RecordFailure, ConfirmSuccess,
         WriteOr, serviceVars
    <3> QED
      BY <1>4, <3>1
  <2>4. CASE PurgeRange(w) \/ Compensate(w)
    <3>1. /\ worker[w].conn \in Conn /\ UNCHANGED <<row, lease, completed>>
          /\ ReplaceFacts(worker[w].conn)
      BY <2>0, <2>4 DEF PurgeRange, Compensate, serviceVars
    <3> QED
      BY <1>5, <3>1
  <2>5. CASE DatabaseError(w)
    <3>1. /\ worker[w].conn \in Conn /\ UNCHANGED <<lease, completed>>
          /\ FencedWrite(w) \/ UNCHANGED <<row, facts>>
      BY <2>0, <2>5 DEF DatabaseError, serviceVars
    <3> QED
      BY <1>4, <3>1
  <2>6. CASE Select(w) \/ Crash(w)
    BY <2>6 DEF Select, SelectDue, SelectClaimable, Crash, storeVars, serviceVars
  <2>7. CASE \/ SkipBusy(w) \/ ReadJob(w) \/ LoadConnection(w) \/ SaveJob(w)
             \/ ClaimJob(w) \/ FetchActivity(w) \/ CompleteJob(w)
    BY <2>7 DEF SkipBusy, ReadJob, LoadConnection, SaveJob, ClaimJob,
       FetchActivity, CompleteJob, storeVars, serviceVars
  <2> QED
    BY <1>6, <2>1, <2>2, <2>3, <2>4, <2>5, <2>6, <2>7 DEF WorkerStep
<1>7. ASSUME \/ UNCHANGED vars
             \/ \E h \in Handler, c \in Conn, edit \in Edit : ReadConnection(h, c, edit)
             \/ \E h \in Handler : AbandonEdit(h)
             \/ \E j \in Job : ClaimExpires(j) \/ KeyExpires(j) \/ PurgeFinished(j)
      PROVE  UNCHANGED <<row, lease, facts, completed>>
  BY <1>7 DEF vars, storeVars, serviceVars, ReadConnection, AbandonEdit,
     ClaimExpires, KeyExpires, PurgeFinished
<1> QED
  BY <1>1, <1>2, <1>3, <1>6, <1>7, Steps

\* KeptFor(c) says which of the four things are there.
LEMMA KeptMembers ==
  ASSUME NEW c \in Conn
  PROVE  /\ KeptFor(c) \subseteq Lifecycle!Kind
         /\ "consent" \in KeptFor(c) <=> row[c].private
         /\ "credential" \in KeptFor(c) <=> row[c].secret
         /\ "lease" \in KeptFor(c) <=> lease[c] # NoLease
         /\ "facts" \in KeptFor(c) <=> AuthMethod[c] # "none" /\ facts[c] # {}
BY DEF KeptFor, Lifecycle!Kind

LEMMA KeptMembersNext ==
  ASSUME NEW c \in Conn
  PROVE  /\ KeptFor(c)' \subseteq Lifecycle!Kind
         /\ "consent" \in KeptFor(c)' <=> row'[c].private
         /\ "credential" \in KeptFor(c)' <=> row'[c].secret
         /\ "lease" \in KeptFor(c)' <=> lease'[c] # NoLease
         /\ "facts" \in KeptFor(c)' <=> AuthMethod[c] # "none" /\ facts'[c] # {}
BY DEF KeptFor, Lifecycle!Kind

\* What the invariant says of a connection in each phase.
PhaseOK(c) ==
  /\ Phase(c) \in {"none", "offered", "open", "closed"}
  /\ KeptFor(c) \in Lifecycle!Keeping
  /\ Phase(c) \in {"none", "closed"} => KeptFor(c) = {}
  /\ Phase(c) = "offered" => KeptFor(c) \subseteq {"consent"}
  /\ Phase(c) \in {"offered", "open"} => row[c].private = (c \in Private)

LEMMA PhaseKeeps == LifecycleInvariant => \A c \in Conn : PhaseOK(c)
<1> SUFFICES ASSUME LifecycleInvariant, NEW c \in Conn PROVE PhaseOK(c)
  OBVIOUS
<1> USE DEF PhaseOK
<1> USE DEF LifecycleInvariant, RevokedInvariant
<1>1. CASE row[c].status = "absent"
  <2>1. ~row[c].private /\ ~row[c].secret
    BY <1>1 DEF RowsConsented, NoRow
  <2>2. lease[c] = NoLease /\ (AuthMethod[c] # "none" => facts[c] = {})
    BY <1>1 DEF WaitingKeepsNothing
  <2>3. Phase(c) = "none" /\ KeptFor(c) = {}
    BY <1>1, <2>1, <2>2 DEF Phase, KeptFor
  <2> QED
    BY <2>3 DEF Lifecycle!Keeping
<1>2. CASE row[c].status = "revoked"
  <2>1. Phase(c) = "closed" /\ KeptFor(c) = {}
    BY <1>2 DEF Phase, KeptFor, RevokedKeepsNothing
  <2> QED
    BY <2>1 DEF Lifecycle!Keeping
<1>3. CASE row[c].status \notin {"absent", "revoked"}
  <2>1. Phase(c) = IF Waiting(c) THEN "offered" ELSE "open"
    BY <1>3 DEF Phase, Waiting
  <2>2. Consented(c, row[c])
    BY <1>3 DEF RowsConsented
  <2>3. KeptFor(c) \in Lifecycle!Keeping
    BY <2>2, KeptMembers DEF Consented, Lifecycle!Keeping
  <2>4. Waiting(c) => KeptFor(c) \subseteq {"consent"}
    <3>1. Waiting(c) => /\ ~row[c].secret /\ lease[c] = NoLease
                        /\ AuthMethod[c] # "none" => facts[c] = {}
      BY <2>2 DEF Consented, WaitingKeepsNothing
    <3> QED
      BY <3>1 DEF KeptFor
  <2> QED
    BY <2>1, <2>2, <2>3, <2>4 DEF Consented
<1> QED
  BY <1>1, <1>2, <1>3

LEMMA PhaseKeepsNext == LifecycleInvariant' => (\A c \in Conn : PhaseOK(c))'
BY PhaseKeeps, PTL

\* How a step may change the phase of a connection and what is kept for it.
LEMMA PhaseStep ==
  ASSUME LifecycleInvariant, LifecycleInvariant', [Next]_vars, NEW c \in Conn
  PROVE  \/ Phase(c)' = Phase(c) /\ KeptFor(c)' = KeptFor(c)
         \/ /\ Phase(c) = "none" /\ Phase(c)' = "offered"
            /\ AuthMethod[c] = "oauth2"
         \/ /\ Phase(c) = "none" /\ Phase(c)' = "open"
            /\ AuthMethod[c] # "oauth2"
            /\ KeptFor(c)' \subseteq {"consent", "credential"}
         \/ /\ Phase(c) = "offered" /\ Phase(c)' = "open"
            /\ KeptFor(c)' \subseteq {"consent", "credential"}
         \/ Phase(c) = "open" /\ Phase(c)' = "open"
         \/ Phase(c) \in {"offered", "open"} /\ Phase(c)' = "closed"
<1> USE DEF LifecycleInvariant, RevokedInvariant, PhaseOK
<1>1. CASE row[c].status = "absent" /\ Connect(c)
  <2>1. /\ row'[c].status \notin {"absent", "revoked"}
        /\ UNCHANGED <<lease, facts, completed>> /\ c \notin completed
    BY <1>1 DEF Connect, TypeOK, StoreTypeOK, RowsConsented
  <2>2. Phase(c) = "none" /\ Phase(c)' = IF AuthMethod[c] = "oauth2" THEN "offered"
                                          ELSE "open"
    BY <1>1, <2>1 DEF Phase
  <2>3. /\ lease'[c] = NoLease
        /\ AuthMethod[c] # "none" => facts'[c] = {}
    BY <1>1, <2>1 DEF WaitingKeepsNothing
  <2>4. KeptFor(c)' \subseteq {"consent", "credential"}
    BY <2>3 DEF KeptFor
  <2> QED
    BY <2>2, <2>4
<1>2. CASE row[c].status = "absent" /\ ~Connect(c)
  <2>1. row'[c].status = "absent"
    BY <1>2, AbsentRow
  <2>2. Phase(c) = "none" /\ Phase(c)' = "none"
    BY <1>2, <2>1 DEF Phase
  <2> QED
    BY <2>2, PhaseKeeps, PhaseKeepsNext
<1>3. CASE row[c].status = "revoked"
  <2>1. row'[c].status = "revoked"
    <3>1. CASE Disconnect(c)
      BY <3>1, DisconnectKeepsNothing DEF RevokedKeepsNothing
    <3>2. CASE ~Disconnect(c)
      BY <1>3, <3>2, RevokedRow
    <3> QED
      BY <3>1, <3>2
  <2>2. Phase(c) = "closed" /\ Phase(c)' = "closed"
    BY <1>3, <2>1 DEF Phase
  <2> QED
    BY <2>2, PhaseKeeps, PhaseKeepsNext
<1>4. CASE row[c].status \notin {"absent", "revoked"}
  <2>1. /\ row'[c].status # "absent"
        /\ Phase(c) = IF Waiting(c) THEN "offered" ELSE "open"
    BY <1>4, PresentRow DEF Phase, Waiting
  <2>2. CASE row'[c].status = "revoked"
    <3>1. Phase(c)' = "closed"
      BY <2>2 DEF Phase
    <3> QED
      BY <2>1, <3>1
  <2>3. CASE row'[c].status # "revoked"
    <3>1. Phase(c)' = IF Waiting(c)' THEN "offered" ELSE "open"
      BY <2>1, <2>3 DEF Phase, Waiting
    <3>2. Waiting(c)' => Waiting(c)
      BY CompletedGrows DEF Waiting
    <3>3. CASE ~Waiting(c)
      BY <2>1, <3>1, <3>2, <3>3
    <3>4. CASE Waiting(c) /\ Waiting(c)'
      <4>1. Phase(c) = "offered" /\ Phase(c)' = "offered"
        BY <2>1, <3>1, <3>4
      <4>2. /\ KeptFor(c) \subseteq {"consent"} /\ KeptFor(c)' \subseteq {"consent"}
            /\ row[c].private = (c \in Private) /\ row'[c].private = (c \in Private)
        BY <4>1, PhaseKeeps, PhaseKeepsNext
      <4>3. "consent" \in KeptFor(c) <=> "consent" \in KeptFor(c)'
        BY <4>2, KeptMembers, KeptMembersNext
      <4>4. KeptFor(c)' = KeptFor(c)
        BY <4>2, <4>3
      <4> QED
        BY <4>1, <4>4
    <3>5. CASE Waiting(c) /\ ~Waiting(c)'
      <4>1. Phase(c) = "offered" /\ Phase(c)' = "open"
        BY <2>1, <3>1, <3>5
      <4>2. \E h \in Handler : SaveEdit(h)
        BY <3>5, CompletedSteps DEF Waiting
      <4>3. UNCHANGED <<lease, facts>>
        BY <4>2 DEF SaveEdit
      <4>4. /\ lease'[c] = NoLease
            /\ AuthMethod[c] # "none" => facts'[c] = {}
        BY <3>5, <4>3 DEF WaitingKeepsNothing
      <4>5. KeptFor(c)' \subseteq {"consent", "credential"}
        BY <4>4 DEF KeptFor
      <4> QED
        BY <4>1, <4>5
    <3> QED
      BY <3>3, <3>4, <3>5
  <2> QED
    BY <2>2, <2>3
<1> QED
  BY <1>1, <1>2, <1>3, <1>4

LEMMA UntouchedView ==
  ASSUME NEW c \in Conn, Untouched(c)
  PROVE  Phase(c)' = Phase(c) /\ KeptFor(c)' = KeptFor(c)
<1>1. Phase(c)' = Phase(c)
  BY DEF Untouched, Phase
<1>2. KeptFor(c)' = KeptFor(c)
  BY DEF Untouched, KeptFor
<1> QED
  BY <1>1, <1>2

LEMMA LifecycleInitial == Init => Lifecycle!Init
<1> SUFFICES ASSUME Init, NEW c \in Conn
             PROVE  Phase(c) = "none" /\ KeptFor(c) = {}
  BY DEF Lifecycle!Init
<1>1. row[c] = NoRow /\ lease[c] = NoLease
  BY DEF Init, StoreInit
<1>2. AuthMethod[c] # "none" => facts[c] = {}
  BY DEF Init, StoreInit, Environment
<1> QED
  BY <1>1, <1>2 DEF NoRow, Phase, KeptFor

LEMMA LifecycleStep ==
  ASSUME LifecycleInvariant, LifecycleInvariant', [Next]_vars
  PROVE  [Lifecycle!Next]_(Lifecycle!lifecycleVars)
<1>1. CASE \A d \in Conn : Untouched(d)
  <2>1. \A d \in Conn : Phase(d)' = Phase(d) /\ KeptFor(d)' = KeptFor(d)
    BY <1>1, UntouchedView
  <2> QED
    BY <2>1 DEF Lifecycle!lifecycleVars
<1>2. ASSUME NEW c \in Conn, \A d \in Conn \ {c} : Untouched(d)
      PROVE  [Lifecycle!Next]_(Lifecycle!lifecycleVars)
  <2> USE DEF PhaseOK
  <2> DEFINE phase == [d \in Conn |-> Phase(d)]
             phase1 == [d \in Conn |-> Phase(d)']
             kept == [d \in Conn |-> KeptFor(d)]
             kept1 == [d \in Conn |-> KeptFor(d)']
  <2>1. \A d \in Conn \ {c} : Phase(d)' = Phase(d) /\ KeptFor(d)' = KeptFor(d)
    BY <1>2, UntouchedView
  <2>2. \A p : Phase(c)' = p => phase1 = [phase EXCEPT ![c] = p]
    BY <2>1
  <2>3. kept1 \in [Conn -> Lifecycle!Keeping]
    BY PhaseKeepsNext
  <2>4. Lifecycle!Keeps(c)
    BY <2>1, <2>3 DEF Lifecycle!Keeps
  <2>5. /\ phase[c] = Phase(c) /\ phase1[c] = Phase(c)'
        /\ kept[c] = KeptFor(c) /\ kept1[c] = KeptFor(c)'
    OBVIOUS
  <2>6. \A p : Phase(c)' = p => Lifecycle!Enters(c, p)
    BY <2>2 DEF Lifecycle!Enters
  <2>7. Phase(c) \in {"offered", "open"} /\ Phase(c)' \in {"offered", "open"}
          => Lifecycle!SameConsent(c)
    BY PhaseKeeps, PhaseKeepsNext, KeptMembers, KeptMembersNext
       DEF Lifecycle!SameConsent
  <2>8. CASE Phase(c)' = Phase(c) /\ KeptFor(c)' = KeptFor(c)
    <3>1. \A d \in Conn : Phase(d)' = Phase(d) /\ KeptFor(d)' = KeptFor(d)
      BY <2>1, <2>8
    <3> QED
      BY <3>1 DEF Lifecycle!lifecycleVars
  <2>9. CASE Phase(c) = "none" /\ Phase(c)' = "offered" /\ AuthMethod[c] = "oauth2"
    <3>1. KeptFor(c)' \subseteq {"consent"}
      BY <2>9, PhaseKeepsNext
    <3> QED
      BY <2>4, <2>6, <2>9, <3>1 DEF Lifecycle!Next, Lifecycle!Offer
  <2>10. CASE /\ Phase(c) = "none" /\ Phase(c)' = "open"
              /\ AuthMethod[c] # "oauth2"
              /\ KeptFor(c)' \subseteq {"consent", "credential"}
    BY <2>4, <2>6, <2>10 DEF Lifecycle!Next, Lifecycle!Open
  <2>11. CASE /\ Phase(c) = "offered" /\ Phase(c)' = "open"
              /\ KeptFor(c)' \subseteq {"consent", "credential"}
    BY <2>4, <2>6, <2>7, <2>11 DEF Lifecycle!Next, Lifecycle!Open
  <2>12. CASE Phase(c) = "open" /\ Phase(c)' = "open"
    <3>1. phase1 = phase
      BY <2>1, <2>12
    <3> QED
      BY <2>4, <2>7, <2>12, <3>1 DEF Lifecycle!Next, Lifecycle!Use
  <2>13. CASE Phase(c) \in {"offered", "open"} /\ Phase(c)' = "closed"
    <3>1. KeptFor(c)' = {}
      BY <2>13, PhaseKeepsNext
    <3> QED
      BY <2>4, <2>6, <2>13, <3>1 DEF Lifecycle!Next, Lifecycle!Close
  <2> QED
    BY <2>8, <2>9, <2>10, <2>11, <2>12, <2>13, PhaseStep
<1> QED
  BY <1>1, <1>2, OneConnection DEF LifecycleInvariant, RevokedInvariant

\* The handlers, the callback and the workers together keep what the life cycle
\* promises: consent first, nothing before the callback, nothing after a
\* disconnect, and no step for one connection that changes another.
THEOREM LifecycleImplemented == Spec => ImplementsLifecycle
<1>1. LifecycleInvariant /\ [Next]_vars => [Lifecycle!Next]_(Lifecycle!lifecycleVars)
  BY LifecycleNext, LifecycleStep
<1> QED
  BY <1>1, LifecycleInit, LifecycleNext, LifecycleInitial, PTL
     DEF Spec, ImplementsLifecycle, Lifecycle!Spec
=============================================================================
