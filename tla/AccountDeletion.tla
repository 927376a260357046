--------------------------- MODULE AccountDeletion ---------------------------
(***************************************************************************)
(* Deletion of an account or of one subject: a request goes through        *)
(* durable stages (credentials revoked, primary data deleted, completed),  *)
(* each in a serializable transaction that checks the lease of the claim   *)
(* and, up to the deletion, legal holds.  Executors run it, lose their     *)
(* leases, die and resume; meanwhile sign-ins, OAuth flows and requests    *)
(* that were admitted before the account was locked go on, readers refresh *)
(* timelines, and the tokens are revoked by the workers of TokenRevocation.*)
(*                                                                         *)
(* An executor stands for one claim of a batch, too.  The inbox is drained *)
(* in the transaction of the claim, so a request in it counts as asked.    *)
(* The status "failed" decides nothing and is left out; so is the time     *)
(* until a request that failed or met a hold may be claimed again.         *)
(***************************************************************************)
EXTENDS TokenRevocation

CONSTANTS
  Account,     \* the one account
  Login,       \* subjects whose id is a login, as ClaimPublicSubject leaves it
  Target,      \* what deletion requests and legal holds may name
  Executor,    \* deletion executors
  MaxAttempts  \* bound: claims of a request (100 in AcquireDeletionClaim)

ASSUME DeletionAssumption ==
  /\ Account \notin Subject
  /\ Login \subseteq Subject
  /\ Target \subseteq Subject \cup {Account}
  /\ NoOne \notin Executor
  /\ MaxAttempts \in Nat \ {0}

VARIABLES
  request,     \* deletion_requests with deletion_request_claims
  executor,    \* what each executor is doing
  user,        \* users
  session,     \* user_sessions: there is one
  tombstone,   \* deleted_identity_tombstones_v2: the email is there
  subject,     \* subjects; a public one with the facts of its refresh
  content,     \* what its owner added to a subject: none, some, a token
  state,       \* auth_challenges of OAuth flows, by subject
  writer,      \* a request admitted earlier that has not committed
  refreshing,  \* timelines for which a reader's request awaits a provider
  hold,        \* legal_holds
  setback,     \* history: stages that met what no attempt can mend
  owed         \* history: tokens there when the credentials were revoked

accountVars == <<user, session, tombstone, subject, content, state>>
clientVars == <<writer, refreshing>>
observed == <<setback, owed>>
deletionVars == <<request, executor, accountVars, clientVars, hold, observed>>
vars == <<deletionVars, queueVars, events>>

-----------------------------------------------------------------------------

Stage == {"none", "requested", "credentials_revoked", "primary_deleted", "completed"}

NoRequest == [stage |-> "none", frozen |-> {}, holder |-> NoOne,
              leased |-> FALSE, attempts |-> 0]

Request == [stage : Stage, frozen : SUBSET Subject, holder : Executor \cup {NoOne},
            leased : BOOLEAN, attempts : 0..MaxAttempts]

Off == [pc |-> "idle"]

ExecutorState ==
  {Off} \cup [pc : {"load", "revoke", "delete", "verify", "complete", "fail", "defer"},
              target : Target, frozen : SUBSET Subject]

Quiet == [op |-> "none"]

Writing == {Quiet, [op |-> "sign_in"]}
             \cup [op : {"create", "link", "state", "store"}, subject : Subject]

Init ==
  /\ InitQueue
  /\ events = 0
  /\ request = [t \in Target |-> NoRequest]
  /\ executor = [x \in Executor |-> Off]
  /\ user = "active"
  /\ session \in BOOLEAN
  /\ tombstone = FALSE
  /\ subject \in [Subject -> {"none", "public", "owned"}]
  /\ \A s \in Subject : subject[s] = "public" => s \in Login
  /\ content \in {c \in [Subject -> {"none", "token"}] :
                   \A s \in Subject : c[s] # "none" => subject[s] = "owned"}
  /\ state = [s \in Subject |-> "none"]
  /\ writer = Quiet
  /\ refreshing = {}
  /\ hold = {}
  /\ setback = {}
  /\ owed = {}

-----------------------------------------------------------------------------
(***************************************************************************)
(* The account in use.                                                     *)
(***************************************************************************)

Exists(s) == subject[s] \in {"public", "owned", "orphan"}

\* ClaimPublicSubject takes a row without owner; InsertSubject a new id.
Creatable(s) ==
  \/ subject[s] \in {"public", "orphan"}
  \/ subject[s] = "none" /\ s \notin Login

\* Admitted: the mail link or passkey was verified, or the session used.
Admit(op) ==
  /\ Event
  /\ writer = Quiet
  /\ IF op.op = "sign_in" THEN user = "active" /\ ~session ELSE session
  /\ op.op = "create" => Creatable(op.subject)
  /\ op.op = "link" => subject[op.subject] = "owned"
  /\ op.op \in {"sign_in", "create", "link"}
  /\ writer' = op
  /\ UNCHANGED <<accountVars, refreshing, request, executor, hold, observed, queueVars>>

\* Mutant: the session is inserted for who was active when admitted.
InsertSession(active) == TRUE

\* InsertActiveSession.
InsertActiveSession(active) == active

SignIn ==
  /\ writer.op = "sign_in"
  /\ session' = InsertActiveSession(user = "active")
  /\ writer' = Quiet
  /\ UNCHANGED <<user, tombstone, subject, content, state, refreshing, request,
                 executor, hold, observed, queueVars, events>>

\* The owner is a foreign key.
CreateSubject ==
  /\ writer.op = "create"
  /\ subject' = IF user # "gone" /\ Creatable(writer.subject)
                THEN [subject EXCEPT ![writer.subject] = "owned"] ELSE subject
  /\ writer' = Quiet
  /\ UNCHANGED <<user, session, tombstone, content, state, refreshing, request,
                 executor, hold, observed, queueVars, events>>

\* The state of an OAuth flow is committed on its own and has no foreign key.
PutState ==
  /\ writer.op = "link"
  /\ state' = [state EXCEPT ![writer.subject] = "open"]
  /\ writer' = [writer EXCEPT !.op = "state"]
  /\ UNCHANGED <<user, session, tombstone, subject, content, refreshing, request,
                 executor, hold, observed, queueVars, events>>

\* The pending connection, for every row that a request of the owner adds to
\* a subject: a foreign key asks that the subject is there, or there again.
Link ==
  /\ writer.op = "state"
  /\ content' = IF Exists(writer.subject) /\ content[writer.subject] = "none"
                THEN [content EXCEPT ![writer.subject] = "some"] ELSE content
  /\ writer' = Quiet
  /\ UNCHANGED <<user, session, tombstone, subject, state, refreshing, request,
                 executor, hold, observed, queueVars, events>>

\* The callback consumes the state, then waits for the provider.
ConsumeState(s) ==
  /\ writer = Quiet
  /\ state[s] = "open"
  /\ state' = [state EXCEPT ![s] = "used"]
  /\ writer' = [op |-> "store", subject |-> s]
  /\ UNCHANGED <<user, session, tombstone, subject, content, refreshing, request,
                 executor, hold, observed, queueVars, events>>

\* The environment of the connection is deleted with its subject, and does
\* not come back with it.
StoreToken ==
  /\ writer.op = "store"
  /\ content' = IF content[writer.subject] = "some"
                THEN [content EXCEPT ![writer.subject] = "token"] ELSE content
  /\ writer' = Quiet
  /\ UNCHANGED <<user, session, tombstone, subject, state, refreshing, request,
                 executor, hold, observed, queueVars, events>>

\* A reader asks for a timeline: refreshProvider reads the subject and waits
\* for the provider.  An unknown login is read as a public forge subject.
StartRefresh(s) ==
  /\ Event
  /\ s \notin refreshing
  /\ Exists(s) \/ s \in Login
  /\ refreshing' = refreshing \cup {s}
  /\ UNCHANGED <<accountVars, writer, request, executor, hold, observed, queueVars>>

\* Mutant: the subject is stored as the refresh read it, owner included.
EnsureSubject(s) ==
  IF Exists(s) THEN subject ELSE [subject EXCEPT ![s] = "owned"]

\* EnsurePublicSubject: ON CONFLICT DO NOTHING; it asks for no owner, session
\* or tombstone.
EnsurePublicSubject(s) ==
  IF Exists(s) THEN subject ELSE [subject EXCEPT ![s] = "public"]

\* ReplaceFacts stores the facts with their subject; the refresh cache follows
\* on its own, for a subject that is still there.  Or there were no facts, or
\* the provider failed.
ReplaceFacts(s) ==
  /\ s \in refreshing
  /\ refreshing' = refreshing \ {s}
  /\ subject' \in {subject, EnsurePublicSubject(s)}
  /\ UNCHANGED <<user, session, tombstone, content, state, writer, request,
                 executor, hold, observed, queueVars, events>>

\* A day after the state expired, used or not.
PurgeState(s) ==
  /\ state[s] # "none"
  /\ state' = [state EXCEPT ![s] = "none"]
  /\ UNCHANGED <<user, session, tombstone, subject, content, clientVars, request,
                 executor, hold, observed, queueVars, events>>

\* The tombstone of a deletion that a hold deferred for longer than the
\* backups are kept.  After the primary deletion it outlives them.
PurgeTombstone ==
  /\ tombstone
  /\ user = "pending"
  /\ Account \notin hold
  /\ tombstone' = FALSE
  /\ UNCHANGED <<user, session, subject, content, state, clientVars, request,
                 executor, hold, observed, queueVars, events>>

PlaceHold(t) ==
  /\ Event
  /\ t \notin hold
  /\ hold' = hold \cup {t}
  /\ UNCHANGED <<accountVars, clientVars, request, executor, observed, queueVars>>

\* Every hold has an expiry.
HoldExpires(t) ==
  /\ t \in hold
  /\ hold' = hold \ {t}
  /\ UNCHANGED <<accountVars, clientVars, request, executor, observed, queueVars, events>>

-----------------------------------------------------------------------------
(***************************************************************************)
(* Requests and their claims.                                              *)
(***************************************************************************)

Ask(t) ==
  /\ Event
  /\ request[t].stage = "none"
  /\ IF t = Account THEN user = "active" ELSE subject[t] = "owned"
  /\ request' = [request EXCEPT ![t].stage = "requested"]
  /\ UNCHANGED <<accountVars, clientVars, executor, hold, observed, queueVars>>

\* ListClaimableDeletionRequests and AcquireDeletionClaim.
Claimable(t) ==
  /\ request[t].stage \notin {"none", "completed"}
  /\ request[t].attempts < MaxAttempts
  /\ ~request[t].leased

Claim(x, t) ==
  /\ executor[x] = Off
  /\ Claimable(t)
  /\ request' = [request EXCEPT ![t].holder = x, ![t].leased = TRUE,
                                ![t].attempts = @ + 1]
  /\ executor' = [executor EXCEPT ![x] =
       [pc |-> "load", target |-> t, frozen |-> {}]]
  /\ UNCHANGED <<accountVars, clientVars, hold, observed, queueVars, events>>

Owns(x) == request[executor[x].target].holder = x

\* A failed request resumes from its last stage.
Resume(stage) ==
  CASE stage = "requested"           -> "revoke"
    [] stage = "credentials_revoked" -> "delete"
    [] stage = "primary_deleted"     -> "verify"

Load(x) ==
  LET row == request[executor[x].target] IN
  /\ executor[x].pc = "load"
  /\ executor' = IF Owns(x)
                 THEN [executor EXCEPT ![x].pc = Resume(row.stage),
                                       ![x].frozen = row.frozen]
                 ELSE [executor EXCEPT ![x] = Off]
  /\ UNCHANGED <<accountVars, clientVars, request, hold, observed, queueVars, events>>

\* lockDeletionLeasePGX: token and lease, on the database's clock.
Leased(x) == Owns(x) /\ request[executor[x].target].leased

\* Mutant: a hold on the target itself only.
DirectHold(t) == t \in hold

\* HasActiveDeletionHold.
Held(t) ==
  \/ t \in hold
  \/ t = Account /\ \E s \in hold \ {Account} : subject[s] = "owned"
  \/ t # Account /\ Account \in hold /\ subject[t] = "owned"

\* The outcome of a stage that could not be done.
Turn(x, pc) ==
  executor' = [executor EXCEPT ![x].pc = pc]

\* Without the lease neither the stage nor the failure is recorded.
LeaseLost(x) ==
  /\ executor[x].pc \in {"revoke", "delete", "complete", "fail", "defer"}
  /\ ~Leased(x)
  /\ executor' = [executor EXCEPT ![x] = Off]
  /\ UNCHANGED <<accountVars, clientVars, request, hold, observed, queueVars, events>>

HitHold(x) ==
  /\ executor[x].pc \in {"revoke", "delete"}
  /\ Leased(x)
  /\ Held(executor[x].target)
  /\ Turn(x, "defer")
  /\ UNCHANGED <<accountVars, clientVars, request, hold, observed, queueVars, events>>

\* Mutant: the scope is taken from the request as it was loaded.
LoadedScope(x) == executor[x].frozen

\* The subjects as they are now.
FrozenScope(x) ==
  IF executor[x].target = Account THEN {s \in Subject : subject[s] = "owned"}
  ELSE {executor[x].target}

\* ErrDeletionNotFound: another deletion removed the target.
Vanished(t) == IF t = Account THEN user = "gone" ELSE ~Exists(t)

NotFound(x) ==
  /\ executor[x].pc = "revoke"
  /\ Leased(x)
  /\ ~Held(executor[x].target)
  /\ Vanished(executor[x].target)
  /\ Turn(x, "fail")
  /\ setback' = setback \cup {<<executor[x].target, "requested">>}
  /\ UNCHANGED <<accountVars, clientVars, request, hold, owed, queueVars, events>>

Tokens(subjects) == {s \in subjects : content[s] = "token"}

\* Revokes sessions and states, fixes the scope, queues its tokens.
RevokeDeletionCredentials(x) ==
  LET t == executor[x].target
      scope == FrozenScope(x) IN
  /\ executor[x].pc = "revoke"
  /\ Leased(x)
  /\ ~Held(t)
  /\ ~Vanished(t)
  /\ Enqueue(Tokens(scope))
  /\ owed' = owed \cup Tokens(IF t = Account THEN {s \in Subject : subject[s] = "owned"}
                              ELSE {t})
  /\ IF t = Account
     THEN /\ user' = "pending"
          /\ tombstone' = TRUE
          /\ session' = FALSE
          /\ state' = [s \in Subject |-> IF s \in scope THEN "none" ELSE state[s]]
     ELSE UNCHANGED <<user, tombstone, session, state>>
  /\ request' = [request EXCEPT ![t].stage = "credentials_revoked",
                                ![t].frozen = scope]
  /\ executor' = [executor EXCEPT ![x].pc = "delete", ![x].frozen = scope]
  /\ UNCHANGED <<subject, content, clientVars, hold, setback,
                 worker, revoked, events>>

\* Mutant: the tombstone of the first stage is relied on.
KeepTombstone(t) == tombstone

\* persistDeletionIdentityTombstonePGX, again.
Tombstoned(t) == IF t = Account THEN TRUE ELSE tombstone

\* Deletes the scope, then the user; subjects created since lose their owner.
DeletePrimaryData(x) ==
  LET t == executor[x].target
      scope == executor[x].frozen IN
  /\ executor[x].pc = "delete"
  /\ Leased(x)
  /\ ~Held(t)
  /\ tombstone' = Tombstoned(t)
  /\ content' = [s \in Subject |-> IF s \in scope THEN "none" ELSE content[s]]
  /\ subject' = [s \in Subject |->
       IF s \in scope THEN "deleted"
       ELSE IF t = Account /\ subject[s] = "owned" THEN "orphan"
       ELSE subject[s]]
  /\ IF t = Account
     THEN /\ user' = "gone"
          /\ session' = FALSE
          /\ state' = [s \in Subject |-> IF s \in scope THEN "none" ELSE state[s]]
     ELSE UNCHANGED <<user, session, state>>
  /\ request' = [request EXCEPT ![t].stage = "primary_deleted", ![t].frozen = scope]
  /\ executor' = [executor EXCEPT ![x].pc = "verify"]
  /\ UNCHANGED <<clientVars, hold, observed, queueVars, events>>

\* An OAuth state put or used, or a subject that is back.
Returned(s) == state[s] # "none" \/ Exists(s)

\* CountDeletionResiduals.  OAuth states count whether used or not, and so do
\* the facts and the refresh cache of a subject that a refresh put back, unless
\* a later refresh found nothing and retention removed the cache.
Residuals(t, scope, filled) ==
  \/ \E s \in scope : state[s] # "none" \/ content[s] # "none" \/ s \in filled
  \/ t = Account /\ (session \/ \E s \in Subject : subject[s] = "owned")

\* Reads on the pool, without the lease.
VerifyDeletion(x) ==
  LET t == executor[x].target
      scope == executor[x].frozen IN
  /\ executor[x].pc = "verify"
  /\ \E filled \in SUBSET {s \in Subject : Exists(s)} :
       /\ Turn(x, IF Residuals(t, scope, filled) THEN "fail" ELSE "complete")
       /\ setback' = IF Residuals(t, scope, filled) /\ \E s \in scope : Returned(s)
                     THEN setback \cup {<<t, "primary_deleted">>} ELSE setback
  /\ UNCHANGED <<accountVars, clientVars, request, hold, owed, queueVars, events>>

\* Mutant: the claim of a completed request is kept.
FinishedClaimed(t) == [request[t] EXCEPT !.stage = "completed"]

Finished(t) ==
  [request[t] EXCEPT !.stage = "completed", !.holder = NoOne, !.leased = FALSE]

\* An account whose tombstone is missing is not completed.
CompleteDeletion(x) ==
  LET t == executor[x].target IN
  /\ executor[x].pc = "complete"
  /\ Leased(x)
  /\ IF t = Account /\ ~tombstone
     THEN Turn(x, "fail") /\ UNCHANGED request
     ELSE /\ request' = [request EXCEPT ![t] = Finished(t)]
          /\ executor' = [executor EXCEPT ![x] = Off]
  /\ UNCHANGED <<accountVars, clientVars, hold, observed, queueVars, events>>

Unclaimed(t) ==
  [request[t] EXCEPT !.holder = NoOne, !.leased = FALSE]

FailDeletion(x) ==
  LET t == executor[x].target IN
  /\ executor[x].pc = "fail"
  /\ Leased(x)
  /\ request' = [request EXCEPT ![t] = Unclaimed(t)]
  /\ executor' = [executor EXCEPT ![x] = Off]
  /\ UNCHANGED <<accountVars, clientVars, hold, observed, queueVars, events>>

\* Mutant: a deferral costs an attempt.
Spent(attempts) == attempts

\* A deferral does not: GREATEST(attempts - 1, 0).
GivenBack(attempts) == IF attempts > 0 THEN attempts - 1 ELSE 0

DeferDeletionForLegalHold(x) ==
  LET t == executor[x].target IN
  /\ executor[x].pc = "defer"
  /\ Leased(x)
  /\ request' = [request EXCEPT ![t] =
       [Unclaimed(t) EXCEPT !.attempts = GivenBack(request[t].attempts)]]
  /\ executor' = [executor EXCEPT ![x] = Off]
  /\ UNCHANGED <<accountVars, clientVars, hold, observed, queueVars, events>>

\* A database error fails the attempt; a crash leaves it to its lease.
ExecutorFault(x) ==
  /\ executor[x] # Off
  /\ Event
  /\ \/ executor[x].pc \in {"revoke", "delete", "verify", "complete"} /\ Turn(x, "fail")
     \/ executor' = [executor EXCEPT ![x] = Off]
  /\ UNCHANGED <<accountVars, clientVars, request, hold, observed, queueVars>>

\* The lease is longer than a run, so it expires under an executor that is
\* alive only by a fault (a pause, a clock that jumps).
DeletionLeaseExpires(t) ==
  /\ request[t].leased
  /\ IF \E x \in Executor : executor[x] # Off /\ executor[x].target = t /\ Owns(x)
     THEN Event ELSE UNCHANGED events
  /\ request' = [request EXCEPT ![t].leased = FALSE]
  /\ UNCHANGED <<accountVars, clientVars, executor, hold, observed, queueVars>>

-----------------------------------------------------------------------------

UseAccount ==
  \/ \E op \in Writing : Admit(op)
  \/ SignIn \/ CreateSubject \/ PutState \/ Link \/ StoreToken
  \/ \E s \in Subject : ConsumeState(s) \/ StartRefresh(s) \/ ReplaceFacts(s)

Retain == PurgeTombstone \/ \E s \in Subject : PurgeState(s)

Work(x) ==
  \/ Load(x) \/ LeaseLost(x) \/ HitHold(x) \/ NotFound(x)
  \/ RevokeDeletionCredentials(x) \/ DeletePrimaryData(x) \/ VerifyDeletion(x)
  \/ CompleteDeletion(x)
  \/ FailDeletion(x) \/ DeferDeletionForLegalHold(x)

Next ==
  \/ UseAccount \/ Retain
  \/ \E t \in Target :
       \/ PlaceHold(t) \/ HoldExpires(t)
       \/ Ask(t) \/ DeletionLeaseExpires(t)
  \/ \E x \in Executor :
       \/ \E t \in Target : Claim(x, t)
       \/ Work(x) \/ ExecutorFault(x)
  \/ QueueNext /\ UNCHANGED deletionVars

\* Time passes, holds expire, executors poll; nothing is assumed of users,
\* of retention and of events.
Fairness ==
  /\ \A t \in Target :
       /\ WF_vars(HoldExpires(t))
       /\ WF_vars(DeletionLeaseExpires(t) /\ UNCHANGED events)
       /\ WF_vars(\E x \in Executor : Claim(x, t))
  /\ \A x \in Executor : WF_vars(Work(x))
  /\ \A s \in Subject : WF_vars(JobLeaseExpires(s) /\ UNCHANGED <<events, deletionVars>>)
  /\ \A w \in Worker :
       /\ WF_vars((\E s \in Subject : ClaimJob(w, s)) /\ UNCHANGED deletionVars)
       /\ WF_vars((CallProvider(w) \/ Fence(w) \/ Report(w)) /\ UNCHANGED deletionVars)

Spec == Init /\ [][Next]_vars /\ Fairness

-----------------------------------------------------------------------------

\* Types; no one holds a request that is not being deleted.
TypeOK ==
  /\ job \in [Subject -> Job]
  /\ worker \in [Worker -> WorkerState]
  /\ revoked \subseteq Subject
  /\ calls \in [Subject -> Nat]
  /\ events \in 0..MaxEvents
  /\ request \in [Target -> Request]
  /\ \A t \in Target : request[t].stage \in {"none", "completed"} =>
       request[t].holder = NoOne /\ ~request[t].leased
  /\ executor \in [Executor -> ExecutorState]
  /\ user \in {"active", "pending", "gone"}
  /\ session \in BOOLEAN
  /\ tombstone \in BOOLEAN
  /\ subject \in [Subject -> {"none", "public", "owned", "orphan", "deleted"}]
  /\ content \in [Subject -> {"none", "some", "token"}]
  /\ state \in [Subject -> {"none", "open", "used"}]
  /\ writer \in Writing
  /\ refreshing \subseteq Subject
  /\ hold \subseteq Target
  /\ setback \subseteq Target \X {"requested", "primary_deleted"}
  /\ owed \subseteq Subject

\* Once the account is locked it has no session, not even from a sign-in
\* that was verified before (InsertActiveSession).
LockedOut == user # "active" => ~session

\* An email whose account is gone cannot sign up again, however long a hold
\* kept the deletion between its stages (persistDeletionIdentityTombstonePGX).
GoneIsTombstoned == user = "gone" => tombstone

\* What a legal hold covers is not deleted, even when the hold was placed
\* between the stages or names the owner or an owned subject only.  A public
\* row that a refresh put back into a fixed scope is no longer looked at.
HeldDataSurvives ==
  [][/\ \A s \in Subject :
          (subject[s] \in {"owned", "orphan"} /\ subject'[s] = "deleted") =>
             /\ s \notin hold
             /\ subject[s] = "owned" => Account \notin hold
     /\ user # "gone" /\ user' = "gone" =>
          \A t \in hold : t # Account /\ subject[t] # "owned"]_vars

\* Requests go forward once, stale executors and retries included; scopes are
\* fixed at the lock.  What is erased comes back only with a reader's refresh,
\* as a public row of nobody (EnsurePublicSubject), and an account that is gone
\* owns nothing again.
PhaseOf(stage) ==
  CASE stage = "none"                -> "none"
    [] stage = "requested"           -> "asked"
    [] stage = "credentials_revoked" -> "locked"
    [] stage = "primary_deleted"     -> "erased"
    [] stage = "completed"           -> "done"

Kept(s) ==
  (IF Exists(s) THEN {"row"} ELSE {})
    \cup (IF content[s] # "none" THEN {"content"} ELSE {})
    \cup (IF subject[s] = "owned" THEN {"owner"} ELSE {})

Promise == INSTANCE Erasure WITH
  phase <- [t \in Target |-> PhaseOf(request[t].stage)],
  scope <- [t \in Target |-> request[t].frozen],
  kept <- [s \in Subject |-> Kept(s)]

ImplementsErasure == Promise!Spec

\* With fewer events than attempts a request is completed, unless an attempt
\* found OAuth states or refreshed facts in its erased scope, which no later
\* attempt deletes, or its target taken by another deletion.
LeftOver(t) ==
  /\ request[t].attempts = MaxAttempts
  /\ <<t, request[t].stage>> \in setback

DeletionSettles ==
  \A t \in Target : []<>(request[t].stage \in {"none", "completed"} \/ LeftOver(t))

\* Every token that was there when the credentials were revoked is revoked
\* at its provider or shown to an operator as a dead letter.
TokenSettles ==
  \A s \in Subject : []<>(s \in owed => s \in revoked \/ job[s].status = "dead")
=============================================================================
