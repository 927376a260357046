-------------------------- MODULE ConnectionService --------------------------
(***************************************************************************)
(* The API's handlers over provider_connections.  An update and an OAuth   *)
(* callback read the whole row in one statement and write the whole row    *)
(* back in a later transaction (the read runs on the pool, before the      *)
(* request's transaction begins), so whatever commits in between is        *)
(* overwritten.  The disconnect is in SyncExecution, with the jobs.        *)
(***************************************************************************)
EXTENDS ConnectionStore

CONSTANT Handler   \* API requests in flight

VARIABLES
  handler,         \* what each request has read and will save
  states,          \* the connections whose one-time OAuth state is unused
  completed        \* history: the connections whose OAuth callback was saved

serviceVars == <<handler, states, completed>>

(***************************************************************************)
(* What a request asks for.  "rotate" is a new access token, "scopes" any  *)
(* change that leaves the status alone, "complete" the OAuth callback.     *)
(***************************************************************************)
Edit == {"scopes", "enable", "disable", "rotate", "complete"}

IdleHandler == [pc |-> "idle", conn |-> None, edit |-> None, snapshot |-> NoRow]

HandlerState ==
  [pc : {"idle", "saving"}, conn : Conn \cup {None},
   edit : Edit \cup {None}, snapshot : Row]

ServiceInit ==
  /\ handler = [h \in Handler |-> IdleHandler]
  /\ states = {}
  /\ completed = {}

ServiceTypeOK ==
  /\ handler \in [Handler -> HandlerState]
  /\ \A h \in Handler : handler[h].pc = "saving" =>
       handler[h].conn \in Conn /\ handler[h].edit \in Edit
  /\ states \subseteq Conn
  /\ completed \subseteq Conn

-----------------------------------------------------------------------------

\* ConnectPublic, ConnectToken and BeginOAuth: the row a new connection gets.
Connect(c) ==
  /\ row[c].status = "absent"
  /\ row' = [row EXCEPT ![c] =
       [status   |-> IF AuthMethod[c] = "oauth2" THEN "pending" ELSE "active",
        failures |-> 0,
        retry    |-> FALSE,
        secret   |-> AuthMethod[c] = "token" /\ c \in Private,
        private  |-> c \in Private]]
  /\ states' = IF AuthMethod[c] = "oauth2" THEN states \cup {c} ELSE states
  /\ UNCHANGED <<lease, facts, revocations, handler, completed>>

\* Mutant: a pending connection may be enabled and disabled.
AllowedWhenPending(c, r, edit) ==
  CASE edit \in {"scopes", "enable", "disable"} -> r.status # "revoked"
    [] edit = "rotate"   -> r.status # "revoked" /\ r.private
                              /\ AuthMethod[c] = "token"
    [] edit = "complete" -> r.status = "pending" /\ AuthMethod[c] = "oauth2"

\* The guards of Update and CompleteOAuthConnection on the row they read.
Allowed(c, r, edit) ==
  CASE edit = "scopes"             -> r.status # "revoked"
    [] edit \in {"enable", "disable"} -> r.status \notin {"revoked", "pending"}
    [] edit = "rotate"             -> /\ r.status # "revoked"
                                      /\ r.private
                                      /\ AuthMethod[c] = "token"
    [] edit = "complete"           -> /\ r.status = "pending"
                                      /\ AuthMethod[c] = "oauth2"

\* The row Update and CompleteOAuthConnection save for the row r they read.
Edited(r, edit) ==
  CASE edit = "scopes"   -> r
    [] edit = "enable"   -> [r EXCEPT !.status = "active"]
    [] edit = "disable"  -> [r EXCEPT !.status = "disabled"]
    [] edit = "rotate"   -> [r EXCEPT !.status = "active", !.secret = TRUE]
    [] edit = "complete" -> [r EXCEPT !.status = "active", !.secret = r.private]

\* The callback has used up its state before it reads the connection.
ReadConnection(h, c, edit) ==
  /\ handler[h].pc = "idle"
  /\ row[c].status # "absent"
  /\ edit = "complete" => c \in states
  /\ Allowed(c, row[c], edit)
  /\ handler' = [handler EXCEPT ![h] = [pc |-> "saving", conn |-> c,
                                        edit |-> edit, snapshot |-> row[c]]]
  /\ states' = IF edit = "complete" THEN states \ {c} ELSE states
  /\ UNCHANGED <<storeVars, completed>>

SaveEdit(h) ==
  /\ handler[h].pc = "saving"
  /\ LET c == handler[h].conn
         edit == handler[h].edit
     IN /\ SaveConnection(c, Edited(handler[h].snapshot, edit))
        /\ completed' = IF edit = "complete" THEN completed \cup {c}
                        ELSE completed
  /\ handler' = [handler EXCEPT ![h] = IdleHandler]
  /\ UNCHANGED <<lease, facts, revocations, states>>

\* The save finds the row revoked, or the request is cancelled before it saves.
AbandonEdit(h) ==
  /\ handler[h].pc = "saving"
  /\ handler' = [handler EXCEPT ![h] = IdleHandler]
  /\ UNCHANGED <<storeVars, states, completed>>

ServiceStep(h) ==
  \/ \E c \in Conn, edit \in Edit : ReadConnection(h, c, edit)
  \/ SaveEdit(h)
  \/ AbandonEdit(h)
=============================================================================
