--------------------------- MODULE ConnectionStore ---------------------------
(***************************************************************************)
(* The rows the connection handlers and the sync workers share, and the    *)
(* SQL statements that change them: provider_connections with the          *)
(* execution lease kept in its sync_cursor column, activity_facts and the  *)
(* provider_token_revocation_jobs queue.  One operator stands for one      *)
(* statement or one transaction; every operator is atomic, because the     *)
(* database is serializable.                                               *)
(*                                                                         *)
(* One subject and one provider are modelled: subjects share nothing, and  *)
(* the connections of one subject share facts only through the provider's  *)
(* global environment.                                                     *)
(***************************************************************************)
EXTENDS Naturals

CONSTANTS
  Conn,         \* connection ids
  Token,        \* claim tokens (gen_random_uuid)
  AuthMethod,   \* [Conn -> {"none", "token", "oauth2"}]
  Private,      \* the connections created with includePrivate
  Shared,       \* the provider's global environment
  None          \* "no value": SQL NULL, Go nil

ASSUME ConnectionAssumption ==
  /\ AuthMethod \in [Conn -> {"none", "token", "oauth2"}]
  /\ Private \subseteq {c \in Conn : AuthMethod[c] # "none"}
  /\ Shared \notin Conn
  /\ None \notin Token

VARIABLES
  row,          \* provider_connections, with the consent row as a field
  lease,        \* the execution lease keys of sync_cursor
  facts,        \* per environment, the connections whose facts are stored
  revocations   \* revocation jobs queued for the connection's OAuth token

storeVars == <<row, lease, facts, revocations>>

Status == {"absent", "pending", "active", "error", "disabled", "revoked"}

(***************************************************************************)
(* failures is consecutive_failures, retry says that next_sync_attempt_at  *)
(* is set, secret that an access token ciphertext is stored, private that  *)
(* an enabled row of provider_connection_private_consents exists.  Times,  *)
(* scopes, account names and messages are left out.                        *)
(***************************************************************************)
Row == [status : Status, failures : Nat, retry : BOOLEAN,
        secret : BOOLEAN, private : BOOLEAN]

NoRow == [status |-> "absent", failures |-> 0, retry |-> FALSE,
          secret |-> FALSE, private |-> FALSE]

(***************************************************************************)
(* live is "sync_execution_expires_at > now()".  An expired lease keeps    *)
(* its token until somebody acquires or clears it.                         *)
(***************************************************************************)
Lease == [token : Token \cup {None}, live : BOOLEAN]

NoLease == [token |-> None, live |-> FALSE]

Environment == Conn \cup {Shared}

\* A credential-backed connection owns its environment, a public one does not.
EnvironmentOf(c) == IF AuthMethod[c] = "none" THEN Shared ELSE c

StoreInit ==
  /\ row = [c \in Conn |-> NoRow]
  /\ lease = [c \in Conn |-> NoLease]
  /\ facts = [e \in Environment |-> {}]
  /\ revocations = [c \in Conn |-> 0]

StoreTypeOK ==
  /\ row \in [Conn -> Row]
  /\ lease \in [Conn -> Lease]
  /\ facts \in [Environment -> SUBSET Conn]
  /\ revocations \in [Conn -> Nat]

-----------------------------------------------------------------------------

Syncable(c) == row[c].status \in {"active", "error"}

\* The predicate UpdateConnectionAfterSync and LockSyncConnection share.
Fenced(c, t) == Syncable(c) /\ lease[c].token = t

SaveOverRevoked(c) == TRUE   \* mutant: the WHERE clause is missing

\* INSERT ... ON CONFLICT (id) DO UPDATE ... WHERE status <> 'revoked', and the
\* consent row, in one transaction.  Without consent no credential is stored.
CanSave(c) == row[c].status # "revoked"

SaveConnection(c, r) ==
  /\ CanSave(c)
  /\ row' = [row EXCEPT ![c] = [r EXCEPT !.secret = r.secret /\ r.private]]

\* The worker's state write: never the credentials, never the consent.
UpdateConnectionAfterSync(c, t, status, failures, retry) ==
  /\ Fenced(c, t)
  /\ row' = [row EXCEPT ![c] = [@ EXCEPT !.status = status,
                                         !.failures = failures,
                                         !.retry = retry]]

\* Mutant: an expired lease is not taken over.
CanAcquireUnleased(c) == Syncable(c) /\ lease[c].token = None

\* Mutant: the status is not looked at.
CanAcquireAny(c) == row[c].status # "absent" /\ ~lease[c].live

CanAcquire(c) == Syncable(c) /\ ~lease[c].live

\* Mutant: taking over an expired lease keeps its token.
TakeOverSameToken(c, t) ==
  /\ CanAcquire(c)
  /\ lease' = [lease EXCEPT ![c] = [token |-> IF @.token = None THEN t
                                              ELSE @.token,
                                    live |-> TRUE]]

TryAcquireSyncExecution(c, t) ==
  /\ CanAcquire(c)
  /\ lease' = [lease EXCEPT ![c] = [token |-> t, live |-> TRUE]]

\* Mutant: the token is not compared.
ReleaseAnyExecution(c, t) == lease' = [lease EXCEPT ![c] = NoLease]

\* Clears the lease of whoever holds token t now, and nobody else's.
ReleaseSyncExecution(c, t) ==
  lease' = [lease EXCEPT ![c] = IF @.token = t THEN NoLease ELSE @]

\* Mutant: neither the status nor the claim is checked.
SaveActivityUnfenced(c, t) ==
  facts' = [facts EXCEPT ![EnvironmentOf(c)] = @ \cup {c}]

SaveConnectionActivity(c, t) ==
  /\ Fenced(c, t)
  /\ facts' = [facts EXCEPT ![EnvironmentOf(c)] = @ \cup {c}]

\* ReplaceFacts with no replacement: the facts of the subject in the
\* environment of c, whichever connection published them.  Not fenced.
ReplaceFacts(c) == facts' = [facts EXCEPT ![EnvironmentOf(c)] = {}]

\* The local half of a disconnect, one transaction.
RevokeConnectionAggregate(c) ==
  /\ row[c].status # "absent"
  /\ revocations' = [revocations EXCEPT ![c] =
       IF row[c].status # "revoked" /\ AuthMethod[c] = "oauth2" /\ row[c].secret
         THEN @ + 1 ELSE @]
  /\ row' = [row EXCEPT ![c] = [@ EXCEPT !.status = "revoked",
                                         !.secret = FALSE,
                                         !.private = FALSE]]
  /\ lease' = [lease EXCEPT ![c] = IF row[c].status = "revoked"
                                     THEN @ ELSE NoLease]
  /\ facts' = IF AuthMethod[c] = "none" THEN facts
              ELSE [facts EXCEPT ![c] = {}]
=============================================================================
