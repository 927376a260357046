---------------------------- MODULE PasskeySignIn ----------------------------
(***************************************************************************)
(* Passkeys behind the audit boundary: ceremonies are begun, finished once *)
(* and expire; a sign-in checks the signature counter of the passkey       *)
(* against clones and keeps a refusal together with the spent ceremony,    *)
(* while a refused registration is rolled back.                            *)
(*                                                                         *)
(* There is one account with one passkey.  The ceremony that a request     *)
(* creates has the number of the request; ceremony 0 was there before.     *)
(***************************************************************************)
EXTENDS MutationAudit

CONSTANT
  MaxCount     \* bound: signature counters of the authenticator

ASSUME PasskeyAssumption == MaxCount \in Nat

VARIABLES
  ceremony,    \* auth_challenges of passkey ceremonies
  enrolled,    \* user_passkeys has the passkey
  count,       \* its sign_count
  active,      \* the account is active
  session,     \* user_sessions, with the ceremony and counter they rest on
  alarm,       \* requests with a recorded suspicion of a clone
  touched      \* history: requests that changed something

passkeyVars == <<ceremony, enrolled, count, active, session, alarm, touched>>
vars == <<auditVars, passkeyVars>>

-----------------------------------------------------------------------------

Number == 0..MaxEvents

Kind == {"registration", "authentication"}

NoCeremony == [kind |-> "none", status |-> "none"]

Ceremony == [kind : Kind \cup {"none"}, status : {"none", "open", "consumed", "expired"}]

\* What a client sends; a genuine response carries a counter.
Begin == [op : {"begin"}, kind : Kind]

Finish ==
  {ask \in [op : {"finish", "enroll"}, ceremony : Number, genuine : BOOLEAN,
            count : 0..MaxCount] : ask.genuine \/ ask.count = 0}

Ask == Begin \cup Finish

Reply == {"none", "done", "refused", "clone", "failed", "unavailable"}

RequestState ==
  {Gone} \cup [pc : {"handle", "transact", "record", "flush"}, ask : Ask, reply : Reply]

Init ==
  /\ InitAudit
  /\ enrolled \in BOOLEAN
  /\ ceremony = [c \in Number |->
       IF c = 0 THEN [kind |-> IF enrolled THEN "authentication" ELSE "registration",
                      status |-> "open"]
       ELSE NoCeremony]
  /\ count = 0
  /\ active = TRUE
  /\ session = {}
  /\ alarm = {}
  /\ touched = {}

-----------------------------------------------------------------------------

Offered == {0} \cup {c \in done : ceremony[c].status # "none"}

\* A client answers ceremonies that it was offered, also repeatedly.
Send(ask) ==
  /\ ask.op # "begin" => ask.ceremony \in Offered
  /\ Arrive(ask)
  /\ UNCHANGED passkeyVars

Usable(c, kind) == ceremony[c] = [kind |-> kind, status |-> "open"]

KindOf(op) == IF op = "enroll" THEN "registration" ELSE "authentication"

\* Mutant: what was read before the transaction is relied on.
UsableAsRead(ask) == TRUE

\* The conditional write of ConsumeCeremony.
Consumable(ask) == Usable(ask.ceremony, KindOf(ask.op))

\* What the handler reads on the pool while no transaction is begun: the
\* look of ConsumeCeremony, or the account of a registration.
Admissible(ask) ==
  IF ask.op = "begin" THEN ask.kind = "registration" => active
  ELSE Usable(ask.ceremony, KindOf(ask.op))

Preflight(i) ==
  /\ request[i].pc = "handle"
  /\ IF Admissible(request[i].ask)
     THEN /\ Move(i, "transact", "none")
          /\ UNCHANGED <<last, outcome, trail, task, done>>
     ELSE RollBack(i, "refused")
  /\ UNCHANGED <<passkeyVars, events>>

\* Mutant: a counter that stands still is let through.
NotBehind(next) == next >= count

\* counterDidNotAdvance, negated; 0 is an authenticator that does not count.
Advances(next) == next > count \/ (count = 0 /\ next = 0)

\* What the handler finds in the serializable transaction.
Verdict(ask) ==
  CASE ask.op = "begin" -> "done"
    [] ask.op = "enroll" ->
         IF Consumable(ask) /\ ask.genuine /\ active /\ ~enrolled
         THEN "done" ELSE "refused"
    [] ask.op = "finish" ->
         IF ~Consumable(ask) \/ ~ask.genuine \/ ~enrolled \/ ~active THEN "refused"
         ELSE IF Advances(ask.count) THEN "done" ELSE "clone"

\* Mutant: no failure is kept.
Unmarked(ask, verdict) == verdict = "done"

\* Successes, and the failures of markPasskeySignInFailureCommit.
Kept(ask, verdict) == verdict = "done" \/ ask.op = "finish"

\* SaveCeremony; ConsumeCeremony, SaveCredential or UseCredential,
\* SaveSession or the security event.
Change(id, ask, verdict) ==
  /\ touched' = touched \cup {id}
  /\ ceremony' = IF ask.op = "begin"
                 THEN [ceremony EXCEPT ![id] = [kind |-> ask.kind, status |-> "open"]]
                 ELSE IF Consumable(ask)
                 THEN [ceremony EXCEPT ![ask.ceremony].status = "consumed"]
                 ELSE ceremony
  /\ IF ask.op \in {"enroll", "finish"} /\ verdict = "done"
     THEN enrolled' = TRUE /\ count' = ask.count
     ELSE UNCHANGED <<enrolled, count>>
  /\ session' = IF ask.op = "finish" /\ verdict = "done"
                THEN session \cup {[id |-> id, ceremony |-> ask.ceremony,
                                    count |-> ask.count]}
                ELSE session
  /\ alarm' = IF verdict = "clone" THEN alarm \cup {id} ELSE alarm
  /\ UNCHANGED active

Transact(i) ==
  LET ask == request[i].ask
      verdict == Verdict(ask) IN
  /\ request[i].pc = "transact"
  /\ IF Kept(ask, verdict)
     THEN CommitWithOutcome(i, verdict) /\ Change(i, ask, verdict)
     ELSE RollBack(i, verdict) /\ UNCHANGED <<passkeyVars, events>>

\* The deadline, or an error of the database or the verifier.
HandlerFails(i) ==
  /\ request[i].pc \in {"handle", "transact"}
  /\ Event
  /\ RollBack(i, "failed")
  /\ UNCHANGED passkeyVars

\* The transaction does not get through Enqueue and Commit.
CommitFails(i) ==
  /\ request[i].pc = "transact"
  /\ Kept(request[i].ask, Verdict(request[i].ask))
  /\ Event
  /\ LoseCommit(i, Verdict(request[i].ask))
  /\ UNCHANGED passkeyVars

Expire(c) ==
  /\ ceremony[c].status = "open"
  /\ Event
  /\ ceremony' = [ceremony EXCEPT ![c].status = "expired"]
  /\ UNCHANGED <<boundaryVars, outcome, trail, task,
                 enrolled, count, active, session, alarm, touched>>

\* Disabled, or locked for its deletion.
Disable ==
  /\ active
  /\ Event
  /\ active' = FALSE
  /\ UNCHANGED <<boundaryVars, outcome, trail, task,
                 ceremony, enrolled, count, session, alarm, touched>>

Next ==
  \/ \E ask \in Ask : Send(ask)
  \/ \E i \in Id :
       \/ Preflight(i) \/ Transact(i) \/ HandlerFails(i) \/ CommitFails(i)
       \/ /\ RecordAlone(i) \/ Flush(i) \/ Crash(i)
          /\ UNCHANGED passkeyVars
  \/ \E c \in Number : Expire(c)
  \/ Disable
  \/ OutboxNext /\ UNCHANGED passkeyVars

\* Dispatchers poll and do not hang; leases run out.
Fairness ==
  /\ \A i \in Id : WF_vars(LeaseExpires(i) /\ UNCHANGED <<events, passkeyVars>>)
  /\ WF_vars(Dispatch /\ UNCHANGED passkeyVars)
  /\ \A i \in Id, k \in Try : WF_vars(Work(i, k) /\ UNCHANGED passkeyVars)

Spec == Init /\ [][Next]_vars /\ Fairness

-----------------------------------------------------------------------------

\* Types; only a claimed outcome has a holder or a lease.
TypeOK ==
  /\ AuditTypeOK
  /\ request \in [Id -> RequestState]
  /\ done \subseteq Id
  /\ ceremony \in [Number -> Ceremony]
  /\ enrolled \in BOOLEAN
  /\ count \in 0..MaxCount
  /\ active \in BOOLEAN
  /\ session \subseteq [id : Id, ceremony : Number, count : 0..MaxCount]
  /\ alarm \subseteq Id
  /\ touched \subseteq Id

\* A ceremony signs in once, however many requests answer it at a time
\* (ConsumeCeremony, after its look on the pool).
OneSessionPerCeremony ==
  \A s, t \in session : s.ceremony = t.ceremony => s = t

\* No counter of a counting passkey signs in twice, in different ceremonies
\* either: a copy that answers with one does not get in
\* (counterDidNotAdvance, UseCredential).
CounterUsedOnce ==
  \A s, t \in session : s.count = t.count /\ s.count # 0 => s = t

\* A sign-in that was refused has spent its ceremony, although the request
\* failed, and a suspected clone has been recorded ("preserve that replay
\* guard").
RefusedMeansSpent ==
  \A i \in Id :
    request[i].pc = "flush" =>
      /\ request[i].ask.op = "finish" /\ request[i].reply \in {"refused", "clone"} =>
           ~Usable(request[i].ask.ceremony, "authentication")
      /\ request[i].reply = "clone" => i \in alarm

\* Who is told that it is done has what was asked for: the response waits for
\* the commit (auditRequests).  Whatever was changed has an outcome in the
\* outbox, a session that nobody was told of, too.
DoneMeansCommitted ==
  /\ done \subseteq touched
  /\ \A i \in touched : outcome[i].status # "none"

\* Changes and their outcome come together; whatever replicas, lost leases
\* and ambiguous commits do, a request is told of at most once.
Trail == INSTANCE AuditTrail WITH changed <- touched, told <- Told

ImplementsAuditTrail == Trail!Spec
=============================================================================
