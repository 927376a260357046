----------------------------- MODULE PasskeyProofs ----------------------------
(***************************************************************************)
(* PasskeySignIn for any number of requests, events, tries and counters:   *)
(* its types, its safety invariants, and that it implements AuditTrail.    *)
(*                                                                         *)
(* The inductive invariant has a part about requests and passkeys, which   *)
(* the dispatcher does not touch, and one about the outbox.                *)
(***************************************************************************)
EXTENDS PasskeySignIn, TLAPS

USE AuditAssumption, PasskeyAssumption

-----------------------------------------------------------------------------
(***************************************************************************)
(* The inductive invariant.                                                *)
(***************************************************************************)

\* Nothing has been done by or for request i.
Before(i) == i > last \/ request[i].pc \in {"handle", "transact"}

\* A request answers a ceremony that exists; an answer that was refused is
\* to a ceremony that cannot be used any more.
RequestOK(i) ==
  /\ i > last => request[i] = Gone
  /\ Before(i) => ceremony[i].status = "none"
  /\ request[i] # Gone /\ request[i].ask.op # "begin" =>
       ceremony[request[i].ask.ceremony].status # "none"
  /\ request[i].pc \in {"record", "flush"} =>
       (request[i].ask.op = "finish" /\ request[i].reply \in {"refused", "clone"} =>
          ~Usable(request[i].ask.ceremony, "authentication"))
  /\ request[i].pc = "record" => request[i].reply \in {"refused", "failed"}
  /\ request[i].pc = "flush" =>
       /\ request[i].reply = "clone" => i \in alarm
       /\ request[i].reply = "done" => i \in touched

\* What a session rests on is used up.
SessionOK ==
  /\ session # {} => enrolled
  /\ \A s \in session : ceremony[s.ceremony].status = "consumed" /\ s.count <= count
  /\ OneSessionPerCeremony
  /\ CounterUsedOnce

BoundaryOK ==
  /\ ceremony[0].status # "none"
  /\ done \subseteq touched
  /\ \A i \in Id : RequestOK(i)
  /\ SessionOK

OutboxOK(i) ==
  /\ Before(i) \/ request[i].pc = "record" =>
       outcome[i].status = "none" /\ trail[i] = 0
  /\ outcome[i].status = "none" => i \notin touched /\ trail[i] \in {0, 1}
  /\ outcome[i].status \in {"pending", "processing", "dead"} => trail[i] = 0
  /\ outcome[i].status = "delivered" => trail[i] = 1

PasskeyInvariant ==
  /\ TypeOK
  /\ BoundaryOK
  /\ \A i \in Id : OutboxOK(i)

-----------------------------------------------------------------------------
(***************************************************************************)
(* The initial states.                                                     *)
(***************************************************************************)

LEMMA InitInvariant == Init => PasskeyInvariant
<1> SUFFICES ASSUME Init PROVE PasskeyInvariant
  OBVIOUS
<1> USE DEF Init, InitAudit
<1>1. TypeOK
  BY DEF TypeOK, AuditTypeOK, RequestState, Ceremony, NoCeremony, Kind, Number, Id,
         Outcome, NoOutcome, Try
<1>2. BoundaryOK
  BY DEF BoundaryOK, RequestOK, Before, SessionOK, OneSessionPerCeremony,
         CounterUsedOnce, NoCeremony, Number, Id, Gone
<1>3. \A i \in Id : OutboxOK(i)
  BY DEF OutboxOK, NoOutcome
<1> QED
  BY <1>1, <1>2, <1>3 DEF PasskeyInvariant

-----------------------------------------------------------------------------
(***************************************************************************)
(* Steps of the dispatcher.                                                *)
(***************************************************************************)

\* What the dispatcher leaves alone.
LEMMA DispatcherKeepsBoundary ==
  ASSUME PasskeyInvariant, UNCHANGED <<boundaryVars, passkeyVars>>, AuditTypeOK'
  PROVE  TypeOK' /\ BoundaryOK'
<1> USE DEF PasskeyInvariant, boundaryVars, passkeyVars
<1>1. TypeOK'
  BY DEF TypeOK
<1>2. \A i \in Id : RequestOK(i)'
  BY DEF BoundaryOK, RequestOK, Before, Usable
<1>3. SessionOK'
  BY DEF BoundaryOK, SessionOK, OneSessionPerCeremony, CounterUsedOnce
<1> QED
  BY <1>1, <1>2, <1>3 DEF BoundaryOK

\* A row that was swept, or released with an end that fits.
LEMMA SweptRow ==
  ASSUME AuditTypeOK, NEW i \in Id
  PROVE  /\ Swept[i] \in {outcome[i], Released(i, "dead")}
         /\ Swept[i] # outcome[i] => outcome[i].status = "processing"
         /\ Swept[i].leased => Swept[i].status = "processing"
<1>1. Released(i, "dead").leased = FALSE
  BY DEF Released, Outcome, AuditTypeOK
<1> QED
  BY <1>1 DEF Swept, Expired, AuditTypeOK

LEMMA SweptTypes ==
  ASSUME AuditTypeOK
  PROVE  Swept \in [Id -> Outcome]
<1>1. ASSUME NEW i \in Id PROVE Released(i, "dead") \in Outcome
  BY DEF Released, Outcome, AuditTypeOK
<1> QED
  BY <1>1 DEF Swept, AuditTypeOK

LEMMA ReleasedRow ==
  ASSUME AuditTypeOK, NEW i \in Id, NEW s \in {"pending", "delivered", "dead"}
  PROVE  /\ Released(i, s) \in Outcome
         /\ Released(i, s).status = s
         /\ ~Released(i, s).leased
         /\ Released(i, s).tries = outcome[i].tries
BY DEF Released, Outcome, AuditTypeOK

\* An event is counted; the requests stay within the count.
LEMMA EventTypes ==
  ASSUME AuditTypeOK, Event
  PROVE  events' \in 0..MaxEvents /\ events' = events + 1 /\ last \in 0..events'
BY DEF AuditTypeOK, Event

LEMMA SweepStep ==
  ASSUME PasskeyInvariant, Sweep, UNCHANGED passkeyVars
  PROVE  PasskeyInvariant'
<1>1. AuditTypeOK
  BY DEF PasskeyInvariant, TypeOK
<1>2. AuditTypeOK'
  <2>1. outcome' \in [Id -> Outcome]
    BY <1>1, SweptTypes DEF Sweep
  <2>2. \A i \in Id : outcome'[i].leased => outcome'[i].status = "processing"
    BY <1>1, SweptRow DEF Sweep
  <2> QED
    BY <1>1, <2>1, <2>2 DEF Sweep, AuditTypeOK, boundaryVars
<1>3. ASSUME NEW i \in Id PROVE OutboxOK(i)'
  <2>1. outcome'[i] \in {outcome[i], Released(i, "dead")}
        /\ (outcome'[i] # outcome[i] => outcome[i].status = "processing")
    BY <1>1, SweptRow DEF Sweep
  <2>2. Released(i, "dead").status = "dead"
    BY <1>1, ReleasedRow
  <2> QED
    BY <2>1, <2>2 DEF PasskeyInvariant, OutboxOK, Before, Sweep, boundaryVars, passkeyVars
<1> QED
  BY <1>2, <1>3, DispatcherKeepsBoundary DEF PasskeyInvariant, Sweep

LEMMA ClaimStep ==
  ASSUME PasskeyInvariant, NEW j \in Id, Claim(j), UNCHANGED passkeyVars
  PROVE  PasskeyInvariant'
<1>1. AuditTypeOK
  BY DEF PasskeyInvariant, TypeOK
<1>2. /\ outcome[j] \in Outcome /\ outcome[j].tries < MaxTries
      /\ outcome[j].status \in {"pending", "processing"}
      /\ Swept[j] = outcome[j]
  <2>1. outcome[j].tries < MaxTries /\ outcome[j].status \in {"pending", "processing"}
    BY DEF Claim, Claimable, Expired
  <2>2. outcome[j] \in Outcome /\ outcome[j].tries \in 0..MaxTries
    BY <1>1 DEF AuditTypeOK, Outcome
  <2> QED
    BY <2>1, <2>2 DEF Swept, Expired
<1>3. /\ outcome'[j] = [status |-> "processing", tries |-> outcome[j].tries + 1,
                        leased |-> TRUE]
      /\ \A i \in Id \ {j} : outcome'[i] = Swept[i]
      /\ outcome' \in [Id -> Outcome]
  <2>1. outcome[j].tries + 1 \in 0..MaxTries
    BY <1>2 DEF Outcome
  <2>2. Swept \in [Id -> Outcome]
    BY <1>1, SweptTypes
  <2> QED
    BY <1>2, <2>1, <2>2 DEF Claim, Outcome
<1>4. AuditTypeOK'
  <2>1. outcome[j].tries + 1 \in Try
    BY <1>2 DEF Outcome, Try
  <2>2. task' \in [Id -> [Try -> {"none", "deliver", "retry"}]]
    BY <1>1, <2>1 DEF Claim, AuditTypeOK
  <2>3. \A i \in Id : outcome'[i].leased => outcome'[i].status = "processing"
    BY <1>1, <1>3, SweptRow
  <2> QED
    BY <1>1, <1>3, <2>2, <2>3 DEF Claim, AuditTypeOK, boundaryVars
<1>5. ASSUME NEW i \in Id PROVE OutboxOK(i)'
  <2>1. CASE i = j
    BY <1>2, <1>3, <2>1
       DEF PasskeyInvariant, OutboxOK, Before, Claim, boundaryVars, passkeyVars
  <2>2. CASE i # j
    <3>1. outcome'[i] \in {outcome[i], Released(i, "dead")}
          /\ (outcome'[i] # outcome[i] => outcome[i].status = "processing")
      BY <1>1, <1>3, <2>2, SweptRow
    <3>2. Released(i, "dead").status = "dead"
      BY <1>1, ReleasedRow
    <3> QED
      BY <3>1, <3>2 DEF PasskeyInvariant, OutboxOK, Before, Claim, boundaryVars, passkeyVars
  <2> QED
    BY <2>1, <2>2
<1> QED
  BY <1>4, <1>5, DispatcherKeepsBoundary DEF PasskeyInvariant, Claim

\* Steps that only change what a dispatcher is working on.
LEMMA TaskStep ==
  ASSUME PasskeyInvariant, UNCHANGED <<boundaryVars, passkeyVars, outcome, trail>>,
         NEW j \in Id, NEW k \in Try, NEW t \in {"none", "deliver", "retry"},
         task' = [task EXCEPT ![j][k] = t],
         Event \/ UNCHANGED events
  PROVE  PasskeyInvariant'
<1>1. AuditTypeOK
  BY DEF PasskeyInvariant, TypeOK
<1>2. events' \in 0..MaxEvents /\ last \in 0..events'
  BY <1>1, EventTypes DEF AuditTypeOK
<1>3. task' \in [Id -> [Try -> {"none", "deliver", "retry"}]]
  BY <1>1 DEF AuditTypeOK
<1>4. AuditTypeOK'
  BY <1>1, <1>2, <1>3 DEF AuditTypeOK, boundaryVars
<1>5. \A i \in Id : OutboxOK(i)'
  BY DEF PasskeyInvariant, OutboxOK, Before, boundaryVars, passkeyVars
<1> QED
  BY <1>4, <1>5, DispatcherKeepsBoundary DEF PasskeyInvariant

LEMMA LeaseExpiresStep ==
  ASSUME PasskeyInvariant, NEW j \in Id, LeaseExpires(j), UNCHANGED passkeyVars
  PROVE  PasskeyInvariant'
<1>1. AuditTypeOK
  BY DEF PasskeyInvariant, TypeOK
<1>2. events' \in 0..MaxEvents /\ last \in 0..events'
  BY <1>1, EventTypes DEF AuditTypeOK, LeaseExpires
<1>3. outcome' \in [Id -> Outcome]
      /\ \A i \in Id : /\ outcome'[i].status = outcome[i].status
                       /\ outcome'[i].leased => outcome[i].leased
  BY <1>1 DEF LeaseExpires, AuditTypeOK, Outcome
<1>4. AuditTypeOK'
  BY <1>1, <1>2, <1>3 DEF AuditTypeOK, LeaseExpires, boundaryVars
<1>5. \A i \in Id : OutboxOK(i)'
  BY <1>3 DEF PasskeyInvariant, OutboxOK, Before, LeaseExpires, boundaryVars, passkeyVars
<1> QED
  BY <1>4, <1>5, DispatcherKeepsBoundary DEF PasskeyInvariant, LeaseExpires

LEMMA DeliverStep ==
  ASSUME PasskeyInvariant, NEW j \in Id, NEW k \in Try, Deliver(j, k),
         UNCHANGED passkeyVars
  PROVE  PasskeyInvariant'
<1>1. AuditTypeOK
  BY DEF PasskeyInvariant, TypeOK
<1>2. events' \in 0..MaxEvents /\ last \in 0..events'
  BY <1>1, EventTypes DEF AuditTypeOK, Deliver
<1>3. outcome[j].status = "processing" /\ trail[j] = 0
  BY DEF PasskeyInvariant, OutboxOK, Deliver, Holds
<1>4. /\ outcome' = [outcome EXCEPT ![j] = Released(j, "delivered")]
      /\ trail' = [trail EXCEPT ![j] = 1]
      /\ outcome'[j].status = "delivered"
      /\ outcome' \in [Id -> Outcome] /\ trail' \in [Id -> Nat]
      /\ \A i \in Id : outcome'[i].leased => outcome'[i].status = "processing"
  BY <1>1, <1>3, ReleasedRow DEF Deliver, AuditTypeOK
<1>5. task' \in [Id -> [Try -> {"none", "deliver", "retry"}]]
  BY <1>1 DEF AuditTypeOK, Deliver, Rest
<1>6. AuditTypeOK'
  BY <1>1, <1>2, <1>4, <1>5 DEF AuditTypeOK, Deliver, boundaryVars
<1>7. ASSUME NEW i \in Id PROVE OutboxOK(i)'
  BY <1>1, <1>3, <1>4
     DEF AuditTypeOK, PasskeyInvariant, OutboxOK, Before, Deliver, boundaryVars, passkeyVars
<1> QED
  BY <1>6, <1>7, DispatcherKeepsBoundary DEF PasskeyInvariant, Deliver

LEMMA RetryStep ==
  ASSUME PasskeyInvariant, NEW j \in Id, NEW k \in Try, Retry(j, k),
         UNCHANGED passkeyVars
  PROVE  PasskeyInvariant'
<1>1. AuditTypeOK
  BY DEF PasskeyInvariant, TypeOK
<1>2. PICK s \in {"pending", "dead"} :
        outcome' = [outcome EXCEPT ![j] = Released(j, s)]
  BY DEF Retry
<1>3. /\ outcome[j].status = "processing"
      /\ outcome'[j].status = s
      /\ outcome' \in [Id -> Outcome]
      /\ \A i \in Id : outcome'[i].leased => outcome'[i].status = "processing"
  BY <1>1, <1>2, ReleasedRow DEF Retry, Holds, AuditTypeOK
<1>4. task' \in [Id -> [Try -> {"none", "deliver", "retry"}]]
  BY <1>1 DEF AuditTypeOK, Retry, Rest
<1>5. AuditTypeOK'
  BY <1>1, <1>3, <1>4 DEF AuditTypeOK, Retry, boundaryVars
<1>6. ASSUME NEW i \in Id PROVE OutboxOK(i)'
  BY <1>1, <1>2, <1>3
     DEF AuditTypeOK, PasskeyInvariant, OutboxOK, Before, Retry, boundaryVars, passkeyVars
<1> QED
  BY <1>5, <1>6, DispatcherKeepsBoundary DEF PasskeyInvariant, Retry

LEMMA OutboxSteps ==
  ASSUME PasskeyInvariant, OutboxNext, UNCHANGED passkeyVars
  PROVE  PasskeyInvariant'
<1>1. CASE Dispatch
  BY <1>1, SweepStep, ClaimStep DEF Dispatch
<1>2. CASE \E i \in Id : LeaseExpires(i)
  BY <1>2, LeaseExpiresStep
<1>3. CASE \E i \in Id, k \in Try : Work(i, k) \/ FailDelivery(i, k) \/ DispatcherStops(i, k)
  <2> PICK i \in Id, k \in Try : Work(i, k) \/ FailDelivery(i, k) \/ DispatcherStops(i, k)
    BY <1>3
  <2>1. CASE Skip(i, k)
    BY <2>1, TaskStep DEF Skip, Rest, boundaryVars
  <2>2. CASE FailDelivery(i, k)
    BY <2>2, TaskStep DEF FailDelivery, boundaryVars
  <2>3. CASE DispatcherStops(i, k)
    BY <2>3, TaskStep DEF DispatcherStops, Rest, boundaryVars
  <2> QED
    BY <2>1, <2>2, <2>3, DeliverStep, RetryStep DEF Work
<1> QED
  BY <1>1, <1>2, <1>3 DEF OutboxNext

-----------------------------------------------------------------------------
(***************************************************************************)
(* Steps of the boundary.                                                  *)
(***************************************************************************)

LEMMA AskShape ==
  ASSUME NEW ask \in Ask
  PROVE  \/ ask.op = "begin" /\ ask.kind \in Kind
         \/ /\ ask.op \in {"finish", "enroll"}
            /\ ask.ceremony \in Number
            /\ ask.count \in 0..MaxCount
BY DEF Ask, Begin, Finish

Pcs == {"handle", "transact", "record", "flush"}

\* A request that has arrived.
LEMMA LiveRequest ==
  ASSUME TypeOK, NEW i \in Id, request[i] # Gone
  PROVE  /\ request[i] \in [pc : Pcs, ask : Ask, reply : Reply]
         /\ request[i].pc \in Pcs /\ request[i].ask \in Ask
BY DEF TypeOK, RequestState, Pcs

LEMMA MovedRequest ==
  ASSUME TypeOK, NEW i \in Id, request[i] # Gone,
         NEW pc \in Pcs, NEW reply \in Reply, Move(i, pc, reply)
  PROVE  /\ request' \in [Id -> RequestState]
         /\ request'[i].pc = pc /\ request'[i].reply = reply
         /\ request'[i].ask = request[i].ask
         /\ request'[i] # Gone
         /\ \A o \in Id \ {i} : request'[o] = request[o]
<1>1. request[i] \in [pc : Pcs, ask : Ask, reply : Reply]
  BY LiveRequest
<1>2. ASSUME NEW r \in [pc : Pcs, ask : Ask, reply : Reply]
      PROVE  LET q == [r EXCEPT !.pc = pc, !.reply = reply] IN
             /\ q \in [pc : Pcs, ask : Ask, reply : Reply]
             /\ q.pc = pc /\ q.reply = reply /\ q.ask = r.ask
  OBVIOUS
<1>3. pc # "gone"
  BY DEF Pcs
<1>4. request \in [Id -> RequestState]
  BY DEF TypeOK
<1> QED
  BY <1>1, <1>2, <1>3, <1>4 DEF Move, RequestState, Pcs, Gone

\* Ceremonies are not created again and do not become usable again.
CeremoniesAge ==
  \A c \in Number : ceremony[c].status # "none" =>
    /\ ceremony'[c].status # "none"
    /\ \A kind \in Kind : ~Usable(c, kind) => ~Usable(c, kind)'

\* Requests that do not act.
LEMMA OtherRequest ==
  ASSUME PasskeyInvariant, NEW i \in Id, request'[i] = request[i],
         i > last' => i > last, CeremoniesAge,
         Before(i) => ceremony'[i].status = "none",
         touched \subseteq touched', alarm \subseteq alarm'
  PROVE  RequestOK(i)'
<1>1. RequestOK(i) /\ TypeOK
  BY DEF PasskeyInvariant, BoundaryOK
<1>2. Before(i)' => Before(i)
  BY DEF Before
<1>3. CASE request[i] = Gone
  BY <1>1, <1>2, <1>3 DEF RequestOK, Gone
<1>4. CASE request[i] # Gone
  <2>1. request[i].ask \in Ask
    BY <1>1, <1>4, LiveRequest
  <2>2. request[i].ask.op # "begin" => request[i].ask.ceremony \in Number
    BY <2>1, AskShape
  <2> QED
    BY <1>1, <1>2, <1>4, <2>2 DEF RequestOK, CeremoniesAge, Kind
<1> QED
  BY <1>3, <1>4

\* A row of the outbox whose request does not act.
LEMMA OtherRow ==
  ASSUME PasskeyInvariant, NEW i \in Id, request'[i] = request[i],
         i > last' => i > last, outcome'[i] = outcome[i], trail'[i] = trail[i],
         i \in touched' => i \in touched
  PROVE  OutboxOK(i)'
BY DEF PasskeyInvariant, OutboxOK, Before

\* Steps of request i that leave the passkeys and the dispatcher alone.
LEMMA RequestStep ==
  ASSUME PasskeyInvariant, NEW i \in Id, UNCHANGED <<last, outcome, task>>,
         UNCHANGED passkeyVars, Event \/ UNCHANGED events,
         request' \in [Id -> RequestState], trail' \in [Id -> Nat],
         \A o \in Id \ {i} : request'[o] = request[o] /\ trail'[o] = trail[o],
         done' \subseteq touched, RequestOK(i)', OutboxOK(i)'
  PROVE  PasskeyInvariant'
<1> USE DEF passkeyVars
<1>1. TypeOK /\ AuditTypeOK
  BY DEF PasskeyInvariant, TypeOK
<1>2. events' \in 0..MaxEvents /\ last' \in 0..events'
  BY <1>1, EventTypes DEF AuditTypeOK
<1>3. TypeOK'
  BY <1>1, <1>2 DEF TypeOK, AuditTypeOK
<1>4. CeremoniesAge
  BY DEF CeremoniesAge, Usable
<1>5. \A o \in Id \ {i} : RequestOK(o)' /\ OutboxOK(o)'
  <2> TAKE o \in Id \ {i}
  <2>1. Before(o) => ceremony'[o].status = "none"
    BY DEF PasskeyInvariant, BoundaryOK, RequestOK
  <2> QED
    BY <1>4, <2>1, OtherRequest, OtherRow
<1>6. SessionOK'
  BY DEF PasskeyInvariant, BoundaryOK, SessionOK, OneSessionPerCeremony, CounterUsedOnce
<1>7. BoundaryOK'
  BY <1>5, <1>6 DEF PasskeyInvariant, BoundaryOK
<1> QED
  BY <1>3, <1>5, <1>7 DEF PasskeyInvariant

LEMMA SendStep ==
  ASSUME PasskeyInvariant, NEW ask \in Ask, Send(ask)
  PROVE  PasskeyInvariant'
<1>1. TypeOK /\ AuditTypeOK
  BY DEF PasskeyInvariant, TypeOK
<1>a. last \in Nat /\ last + 1 \in Id
  BY <1>1 DEF Send, Arrive, Event, AuditTypeOK, Id
<1> PICK i \in Id : i = last + 1
  BY <1>a
<1>2. i \in Id /\ i = last + 1 /\ last \in Nat
  BY <1>a
<1>3. events' \in 0..MaxEvents /\ last' = i /\ last' \in 0..events'
  BY <1>1, EventTypes DEF Send, Arrive, Event, AuditTypeOK
<1>4. /\ request' \in [Id -> RequestState]
      /\ request'[i] = [pc |-> "handle", ask |-> ask, reply |-> "none"]
      /\ \A o \in Id \ {i} : request'[o] = request[o]
  BY <1>1, <1>2 DEF Send, Arrive, TypeOK, RequestState, Reply
<1>5. TypeOK'
  BY <1>1, <1>3, <1>4 DEF TypeOK, AuditTypeOK, Send, Arrive, passkeyVars
<1>6. CeremoniesAge
  BY DEF CeremoniesAge, Usable, Send, passkeyVars
<1>7. \A o \in Id \ {i} : RequestOK(o)' /\ OutboxOK(o)'
  <2> TAKE o \in Id \ {i}
  <2>1. Before(o) => ceremony'[o].status = "none"
    BY DEF PasskeyInvariant, BoundaryOK, RequestOK, Send, passkeyVars
  <2>2. o > last' => o > last
    BY <1>2, <1>3 DEF Id
  <2> QED
    BY <1>4, <1>6, <2>1, <2>2, OtherRequest, OtherRow DEF Send, Arrive, passkeyVars
<1>8. Before(i) /\ ceremony[i].status = "none" /\ outcome[i].status = "none"
      /\ trail[i] = 0
  BY <1>2 DEF Before, PasskeyInvariant, BoundaryOK, RequestOK, OutboxOK
<1>9. ask.op # "begin" => ceremony[ask.ceremony].status # "none"
  BY DEF Send, Offered, PasskeyInvariant, BoundaryOK
<1>10. RequestOK(i)'
  BY <1>2, <1>3, <1>4, <1>8, <1>9 DEF RequestOK, Before, Send, Gone, passkeyVars
<1>11. OutboxOK(i)'
  BY <1>2, <1>4, <1>8 DEF PasskeyInvariant, OutboxOK, Send, Arrive, passkeyVars
<1>12. SessionOK'
  BY DEF PasskeyInvariant, BoundaryOK, SessionOK, OneSessionPerCeremony,
         CounterUsedOnce, Send, passkeyVars
<1>13. BoundaryOK'
  BY <1>7, <1>10, <1>12 DEF PasskeyInvariant, BoundaryOK, Send, Arrive, passkeyVars
<1> QED
  BY <1>5, <1>7, <1>11, <1>13 DEF PasskeyInvariant

LEMMA PreflightPasses ==
  ASSUME PasskeyInvariant, NEW i \in Id, request[i].pc = "handle",
         Move(i, "transact", "none"),
         UNCHANGED <<last, outcome, trail, task, done, passkeyVars, events>>
  PROVE  PasskeyInvariant'
<1> USE DEF passkeyVars
<1>1. TypeOK /\ trail \in [Id -> Nat] /\ request[i] # Gone /\ RequestOK(i) /\ OutboxOK(i)
  BY DEF PasskeyInvariant, BoundaryOK, TypeOK, AuditTypeOK, Gone
<1>2. /\ request' \in [Id -> RequestState]
      /\ request'[i].pc = "transact" /\ request'[i].ask = request[i].ask
      /\ request'[i] # Gone
      /\ \A o \in Id \ {i} : request'[o] = request[o]
  BY <1>1, MovedRequest DEF Pcs, Reply
<1>3. RequestOK(i)' /\ OutboxOK(i)'
  BY <1>1, <1>2 DEF RequestOK, OutboxOK, Before
<1> QED
  BY <1>1, <1>2, <1>3, RequestStep DEF PasskeyInvariant, BoundaryOK

\* A rollback leaves nothing but a failure to record.
LEMMA RollBackStep ==
  ASSUME PasskeyInvariant, NEW i \in Id, request[i].pc \in {"handle", "transact"},
         NEW reply \in {"refused", "failed"}, RollBack(i, reply),
         UNCHANGED passkeyVars, Event \/ UNCHANGED events,
         request[i].ask.op = "finish" /\ reply = "refused" =>
           ~Usable(request[i].ask.ceremony, "authentication")
  PROVE  PasskeyInvariant'
<1> USE DEF passkeyVars
<1>1. TypeOK /\ trail \in [Id -> Nat] /\ request[i] # Gone /\ RequestOK(i) /\ OutboxOK(i)
  BY DEF PasskeyInvariant, BoundaryOK, TypeOK, AuditTypeOK, Gone
<1>2. /\ request' \in [Id -> RequestState]
      /\ request'[i].pc = "record" /\ request'[i].reply = reply
      /\ request'[i].ask = request[i].ask
      /\ request'[i] # Gone
      /\ \A o \in Id \ {i} : request'[o] = request[o]
  BY <1>1, MovedRequest DEF Pcs, Reply, RollBack
<1>3. RequestOK(i)' /\ OutboxOK(i)'
  BY <1>1, <1>2 DEF RequestOK, OutboxOK, Before, Usable, RollBack
<1> QED
  BY <1>1, <1>2, <1>3, RequestStep DEF PasskeyInvariant, BoundaryOK, RollBack

LEMMA PreflightStep ==
  ASSUME PasskeyInvariant, NEW i \in Id, Preflight(i)
  PROVE  PasskeyInvariant'
<1>1. CASE Admissible(request[i].ask)
  BY <1>1, PreflightPasses DEF Preflight
<1>2. CASE ~Admissible(request[i].ask)
  <2>1. request[i].ask.op = "finish" => ~Usable(request[i].ask.ceremony, "authentication")
    BY <1>2 DEF Admissible, KindOf
  <2> QED
    BY <1>2, <2>1, RollBackStep DEF Preflight
<1> QED
  BY <1>1, <1>2

LEMMA HandlerFailsStep ==
  ASSUME PasskeyInvariant, NEW i \in Id, HandlerFails(i)
  PROVE  PasskeyInvariant'
BY RollBackStep DEF HandlerFails

\* The error of a commit says nothing to the client.
LEMMA CommitFailsStep ==
  ASSUME PasskeyInvariant, NEW i \in Id, CommitFails(i)
  PROVE  PasskeyInvariant'
<1> USE DEF passkeyVars
<1>1. TypeOK /\ trail \in [Id -> Nat] /\ request[i] # Gone /\ RequestOK(i) /\ OutboxOK(i)
  BY DEF PasskeyInvariant, BoundaryOK, TypeOK, AuditTypeOK, Gone, CommitFails
<1>2. Move(i, "flush", "unavailable") /\ Event
      /\ UNCHANGED <<last, outcome, trail, task, done, passkeyVars>>
      /\ request[i].pc = "transact"
  BY DEF CommitFails, LoseCommit, CommitReportsError, AfterCommitError, CommitErrorReply
<1>3. /\ request' \in [Id -> RequestState]
      /\ request'[i].pc = "flush" /\ request'[i].reply = "unavailable"
      /\ request'[i].ask = request[i].ask
      /\ request'[i] # Gone
      /\ \A o \in Id \ {i} : request'[o] = request[o]
  BY <1>1, <1>2, MovedRequest DEF Pcs, Reply
<1>4. RequestOK(i)' /\ OutboxOK(i)'
  BY <1>1, <1>2, <1>3 DEF RequestOK, OutboxOK, Before, Usable
<1> QED
  BY <1>1, <1>2, <1>3, <1>4, RequestStep DEF PasskeyInvariant, BoundaryOK

\* The failure of a request that was rolled back is recorded or lost.
LEMMA RecordAloneStep ==
  ASSUME PasskeyInvariant, NEW i \in Id, RecordAlone(i), UNCHANGED passkeyVars
  PROVE  PasskeyInvariant'
<1> USE DEF passkeyVars
<1>1. /\ TypeOK /\ trail \in [Id -> Nat] /\ request[i] # Gone
      /\ RequestOK(i) /\ OutboxOK(i) /\ request[i].pc = "record"
      /\ trail[i] = 0 /\ request[i].reply \in {"refused", "failed"}
  BY DEF PasskeyInvariant, BoundaryOK, TypeOK, AuditTypeOK, Gone, RecordAlone,
         RequestOK, OutboxOK
<1>2. /\ request' \in [Id -> RequestState]
      /\ request'[i].pc = "flush" /\ request'[i].reply = request[i].reply
      /\ request'[i].ask = request[i].ask
      /\ request'[i] # Gone
      /\ \A o \in Id \ {i} : request'[o] = request[o]
  BY <1>1, MovedRequest DEF Pcs, Reply, RecordAlone
<1>3. /\ trail' \in [Id -> Nat] /\ trail'[i] \in {0, 1}
      /\ \A o \in Id \ {i} : trail'[o] = trail[o]
      /\ Event \/ UNCHANGED events
  BY <1>1 DEF RecordAlone
<1>4. RequestOK(i)' /\ OutboxOK(i)'
  BY <1>1, <1>2, <1>3 DEF RequestOK, OutboxOK, Before, Usable, RecordAlone
<1> QED
  BY <1>1, <1>2, <1>3, <1>4, RequestStep DEF PasskeyInvariant, BoundaryOK, RecordAlone

\* A client is told, or a request is gone.
LEMMA FlushStep ==
  ASSUME PasskeyInvariant, NEW i \in Id, Flush(i) \/ Crash(i), UNCHANGED passkeyVars
  PROVE  PasskeyInvariant'
<1> USE DEF passkeyVars
<1>1. /\ TypeOK /\ trail \in [Id -> Nat] /\ request[i] # Gone
      /\ RequestOK(i) /\ OutboxOK(i) /\ done \subseteq touched
  BY DEF PasskeyInvariant, BoundaryOK, TypeOK, AuditTypeOK, Gone, Flush, Crash
<1>2. /\ request' \in [Id -> RequestState] /\ request'[i] = Gone
      /\ \A o \in Id \ {i} : request'[o] = request[o]
      /\ UNCHANGED <<last, outcome, trail, task>> /\ (Event \/ UNCHANGED events)
  BY <1>1 DEF TypeOK, RequestState, Flush, Crash
<1>3. done' \subseteq touched
  BY <1>1 DEF RequestOK, Flush, Crash
<1>4. RequestOK(i)' /\ OutboxOK(i)'
  BY <1>1, <1>2 DEF RequestOK, OutboxOK, Before, Gone
<1> QED
  BY <1>1, <1>2, <1>3, <1>4, RequestStep

-----------------------------------------------------------------------------
(***************************************************************************)
(* The transaction of a handler.                                           *)
(***************************************************************************)

LEMMA VerdictMeans ==
  ASSUME NEW ask \in Ask
  PROVE  /\ Verdict(ask) \in {"done", "refused", "clone"}
         /\ ask.op = "begin" => Verdict(ask) = "done"
         /\ ask.op = "enroll" => Verdict(ask) # "clone"
         /\ ask.op = "enroll" /\ Verdict(ask) = "done" => Consumable(ask) /\ ~enrolled
         /\ ask.op = "finish" /\ Verdict(ask) = "done" =>
              Consumable(ask) /\ enrolled /\ Advances(ask.count)
<1>1. ask.op \in {"begin", "enroll", "finish"}
  BY AskShape
<1>2. CASE ask.op = "begin"
  BY <1>2 DEF Verdict
<1>3. CASE ask.op = "enroll"
  BY <1>3 DEF Verdict
<1>4. CASE ask.op = "finish"
  BY <1>4 DEF Verdict
<1> QED
  BY <1>1, <1>2, <1>3, <1>4

\* The outcome is in the outbox, whatever the request is told.
LEMMA CommitShape ==
  ASSUME TypeOK, NEW i \in Id, request[i] # Gone, outcome[i].status = "none",
         NEW reply \in Reply, CommitWithOutcome(i, reply)
  PROVE  /\ request' \in [Id -> RequestState]
         /\ request'[i].pc = "flush" /\ request'[i].reply \in {reply, "unavailable"}
         /\ request'[i].ask = request[i].ask
         /\ request'[i] # Gone
         /\ AuditTypeOK'
         /\ outcome'[i].status = "pending"
         /\ \A o \in Id \ {i} : request'[o] = request[o] /\ outcome'[o] = outcome[o]
         /\ UNCHANGED <<last, trail, task, done>>
<1>1. AuditTypeOK /\ outcome[i] \in Outcome
  BY DEF TypeOK, AuditTypeOK
<1>2. PICK told \in {reply, "unavailable"} : Move(i, "flush", told)
  BY Zenon DEF CommitWithOutcome, CommitReportsError, AfterCommitError, CommitErrorReply
<1>3. told \in Reply /\ "flush" \in Pcs
  BY DEF Reply, Pcs
<1>4. /\ request' \in [Id -> RequestState]
      /\ request'[i].pc = "flush" /\ request'[i].reply = told
      /\ request'[i].ask = request[i].ask
      /\ request'[i] # Gone
      /\ \A o \in Id \ {i} : request'[o] = request[o]
  BY <1>2, <1>3, MovedRequest
<1>5. events' \in 0..MaxEvents /\ last' \in 0..events'
  <2>1. Event \/ UNCHANGED events
    BY DEF CommitWithOutcome, CommitReportsError
  <2> QED
    BY <1>1, <2>1, EventTypes DEF AuditTypeOK, CommitWithOutcome
<1>6. /\ outcome' \in [Id -> Outcome] /\ outcome'[i].status = "pending"
      /\ outcome'[i].leased = outcome[i].leased
      /\ \A o \in Id \ {i} : outcome'[o] = outcome[o]
  BY <1>1 DEF CommitWithOutcome, AuditTypeOK, Outcome
<1>7. \A o \in Id : outcome'[o].leased => outcome'[o].status = "processing"
  BY <1>1, <1>6 DEF AuditTypeOK
<1>8. UNCHANGED <<last, trail, task, done>>
  BY DEF CommitWithOutcome
<1>9. AuditTypeOK'
  BY <1>1, <1>5, <1>6, <1>7, <1>8 DEF AuditTypeOK
<1> QED
  BY <1>4, <1>6, <1>8, <1>9

\* What a change does to the ceremonies.
LEMMA CeremoniesChange ==
  ASSUME TypeOK, NEW i \in Id, NEW ask \in Ask, NEW verdict,
         ceremony[i].status = "none", Change(i, ask, verdict)
  PROVE  /\ ceremony' \in [Number -> Ceremony]
         /\ CeremoniesAge
         /\ \A c \in Number :
              /\ ceremony[c].status = "consumed" => ceremony'[c].status = "consumed"
              /\ c # i /\ ceremony[c].status = "none" => ceremony'[c].status = "none"
         /\ ask.op # "begin" => ~Usable(ask.ceremony, KindOf(ask.op))'
         /\ ask.op # "begin" /\ Consumable(ask) =>
              ceremony'[ask.ceremony].status = "consumed"
<1>1. ceremony \in [Number -> Ceremony] /\ i \in Number
  BY DEF TypeOK, Id, Number
<1>2. CASE ask.op = "begin"
  <2>1. ask.kind \in Kind
    BY <1>2, AskShape
  <2>2. /\ ceremony' = [ceremony EXCEPT ![i] = [kind |-> ask.kind, status |-> "open"]]
        /\ [kind |-> ask.kind, status |-> "open"] \in Ceremony
    BY <1>2, <2>1 DEF Change, Ceremony
  <2>3. ceremony' \in [Number -> Ceremony] /\ ceremony'[i].status = "open"
        /\ \A c \in Number : c # i => ceremony'[c] = ceremony[c]
    BY <1>1, <2>2
  <2> QED
    BY <1>2, <2>3 DEF CeremoniesAge, Usable
<1>3. CASE ask.op # "begin"
  <2>1. ask.ceremony \in Number
    BY <1>3, AskShape
  <2>2. CASE Consumable(ask)
    <3>1. ceremony' = [ceremony EXCEPT ![ask.ceremony].status = "consumed"]
      BY <1>3, <2>2 DEF Change
    <3>2. ceremony[ask.ceremony].status = "open"
      BY <2>2 DEF Consumable, Usable
    <3>3. /\ ceremony' \in [Number -> Ceremony]
          /\ ceremony'[ask.ceremony].status = "consumed"
          /\ \A c \in Number : c # ask.ceremony => ceremony'[c] = ceremony[c]
      BY <1>1, <2>1, <3>1 DEF Ceremony
    <3> QED
      BY <1>3, <2>1, <3>2, <3>3 DEF CeremoniesAge, Usable
  <2>3. CASE ~Consumable(ask)
    <3>1. ceremony' = ceremony
      BY <1>3, <2>3 DEF Change
    <3> QED
      BY <1>1, <2>3, <3>1 DEF CeremoniesAge, Usable, Consumable
  <2> QED
    BY <2>2, <2>3
<1> QED
  BY <1>2, <1>3

\* A sign-in rests on a fresh ceremony and a fresh counter, and a passkey is
\* saved only while nothing rests on one.
LEMMA SessionsChange ==
  ASSUME TypeOK, SessionOK, NEW i \in Id, NEW ask \in Ask,
         ceremony[i].status = "none", Change(i, ask, Verdict(ask))
  PROVE  /\ SessionOK'
         /\ enrolled' \in BOOLEAN /\ count' \in 0..MaxCount
         /\ session' \subseteq [id : Id, ceremony : Number, count : 0..MaxCount]
<1>1. /\ \A c \in Number :
           ceremony[c].status = "consumed" => ceremony'[c].status = "consumed"
      /\ ask.op # "begin" /\ Consumable(ask) =>
           ceremony'[ask.ceremony].status = "consumed"
  BY CeremoniesChange
<1>2. /\ session \subseteq [id : Id, ceremony : Number, count : 0..MaxCount]
      /\ count \in 0..MaxCount /\ enrolled \in BOOLEAN
  BY DEF TypeOK
<1>3. \A s \in session :
        /\ s.ceremony \in Number /\ s.count \in 0..MaxCount
        /\ ceremony[s.ceremony].status = "consumed"
        /\ ceremony'[s.ceremony].status = "consumed"
        /\ s.count <= count
  BY <1>1, <1>2 DEF SessionOK
<1>4. CASE ask.op = "finish" /\ Verdict(ask) = "done"
  <2>1. /\ ask.ceremony \in Number /\ ask.count \in 0..MaxCount
        /\ Consumable(ask) /\ enrolled /\ Advances(ask.count)
    BY <1>4, AskShape, VerdictMeans
  <2> PICK new \in [id : Id, ceremony : Number, count : 0..MaxCount] :
        new = [id |-> i, ceremony |-> ask.ceremony, count |-> ask.count]
    BY <2>1
  <2>2. new.ceremony = ask.ceremony /\ new.count = ask.count
    OBVIOUS
  <2>3. enrolled' = TRUE /\ count' = ask.count /\ session' = session \cup {new}
    BY <1>4 DEF Change
  <2>4. ceremony[new.ceremony].status = "open"
    BY <2>1, <2>2 DEF Consumable, Usable
  <2>5. ceremony'[new.ceremony].status = "consumed"
    BY <1>1, <1>4, <2>1, <2>2
  <2>6. \A s \in session : s.ceremony # new.ceremony
    BY <1>3, <2>4
  <2>7. count <= new.count
        /\ \A s \in session : s.count = new.count => s.count = 0
    BY <1>2, <1>3, <2>1, <2>2 DEF Advances
  <2>8. OneSessionPerCeremony'
    BY <2>3, <2>6 DEF OneSessionPerCeremony, SessionOK
  <2>9. CounterUsedOnce'
    BY <2>3, <2>7 DEF CounterUsedOnce, SessionOK
  <2>10. \A s \in session' : ceremony'[s.ceremony].status = "consumed" /\ s.count <= count'
    BY <1>2, <1>3, <2>1, <2>2, <2>3, <2>5, <2>7
  <2> QED
    BY <1>2, <2>1, <2>3, <2>8, <2>9, <2>10 DEF SessionOK
<1>5. CASE ask.op = "enroll" /\ Verdict(ask) = "done"
  <2>1. ~enrolled /\ ask.count \in 0..MaxCount
    BY <1>5, AskShape, VerdictMeans
  <2>2. enrolled' = TRUE /\ count' = ask.count /\ session' = session
    BY <1>5 DEF Change
  <2>3. session = {}
    BY <2>1 DEF SessionOK
  <2> QED
    BY <1>2, <2>1, <2>2, <2>3 DEF SessionOK, OneSessionPerCeremony, CounterUsedOnce
<1>6. CASE ask.op \notin {"enroll", "finish"} \/ Verdict(ask) # "done"
  <2>1. UNCHANGED <<enrolled, count, session>>
    BY <1>6 DEF Change
  <2> QED
    BY <1>2, <1>3, <2>1 DEF SessionOK, OneSessionPerCeremony, CounterUsedOnce
<1> QED
  BY <1>4, <1>5, <1>6

LEMMA CommitStep ==
  ASSUME PasskeyInvariant, NEW i \in Id, request[i].pc = "transact",
         CommitWithOutcome(i, Verdict(request[i].ask)),
         Change(i, request[i].ask, Verdict(request[i].ask))
  PROVE  PasskeyInvariant'
<1> PICK ask : ask = request[i].ask
  OBVIOUS
<1>1. /\ TypeOK /\ RequestOK(i) /\ OutboxOK(i) /\ SessionOK
      /\ request[i] # Gone /\ ceremony[i].status = "none"
      /\ outcome[i].status = "none" /\ trail[i] = 0 /\ ~(i > last)
  BY DEF PasskeyInvariant, BoundaryOK, RequestOK, OutboxOK, Before, Gone
<1>2. ask \in Ask
  BY <1>1, LiveRequest
<1>3. Verdict(ask) \in {"done", "refused", "clone"} /\ Verdict(ask) \in Reply
  BY <1>2, VerdictMeans DEF Reply
<1>4. /\ request' \in [Id -> RequestState]
      /\ request'[i].pc = "flush" /\ request'[i].reply \in {Verdict(ask), "unavailable"}
      /\ request'[i].ask = ask
      /\ request'[i] # Gone
      /\ AuditTypeOK'
      /\ outcome'[i].status = "pending"
      /\ \A o \in Id \ {i} : request'[o] = request[o] /\ outcome'[o] = outcome[o]
      /\ UNCHANGED <<last, trail, task, done>>
  BY <1>1, <1>3, CommitShape
<1>5. /\ ceremony' \in [Number -> Ceremony] /\ CeremoniesAge
      /\ \A c \in Number :
           c # i /\ ceremony[c].status = "none" => ceremony'[c].status = "none"
      /\ ask.op # "begin" => ~Usable(ask.ceremony, KindOf(ask.op))'
  BY <1>1, <1>2, CeremoniesChange
<1>6. /\ SessionOK' /\ enrolled' \in BOOLEAN /\ count' \in 0..MaxCount
      /\ session' \subseteq [id : Id, ceremony : Number, count : 0..MaxCount]
  BY <1>1, <1>2, SessionsChange
<1>7. /\ touched' = touched \cup {i} /\ active' = active
      /\ alarm \subseteq alarm' /\ alarm' \subseteq alarm \cup {i}
      /\ Verdict(ask) = "clone" => i \in alarm'
  BY DEF Change
<1>8. TypeOK'
  BY <1>1, <1>4, <1>5, <1>6, <1>7 DEF TypeOK
<1>9. \A o \in Id \ {i} : RequestOK(o)' /\ OutboxOK(o)'
  <2> TAKE o \in Id \ {i}
  <2>1. Before(o) => ceremony'[o].status = "none"
    BY <1>5 DEF PasskeyInvariant, BoundaryOK, RequestOK, Id, Number
  <2> QED
    BY <1>4, <1>5, <1>7, <2>1, OtherRequest, OtherRow
<1>10. RequestOK(i)'
  <2>1. ask.op # "begin" => ask.ceremony \in Number /\ ceremony[ask.ceremony].status # "none"
    BY <1>1, <1>2, AskShape DEF RequestOK
  <2>2. ask.op # "begin" => ceremony'[ask.ceremony].status # "none"
    BY <1>5, <2>1 DEF CeremoniesAge
  <2>3. ask.op = "finish" => ~Usable(ask.ceremony, "authentication")'
    BY <1>5 DEF KindOf
  <2>4. ~(i > last)' /\ ~Before(i)'
    BY <1>1, <1>4 DEF Before
  <2> QED
    BY <1>3, <1>4, <1>7, <2>2, <2>3, <2>4 DEF RequestOK
<1>11. OutboxOK(i)'
  BY <1>1, <1>4 DEF OutboxOK, Before
<1>12. ceremony'[0].status # "none" /\ done' \subseteq touched'
  BY <1>4, <1>5, <1>7 DEF PasskeyInvariant, BoundaryOK, CeremoniesAge, Number
<1>13. BoundaryOK'
  BY <1>6, <1>9, <1>10, <1>12 DEF BoundaryOK
<1> QED
  BY <1>8, <1>9, <1>11, <1>13 DEF PasskeyInvariant

LEMMA TransactStep ==
  ASSUME PasskeyInvariant, NEW i \in Id, Transact(i)
  PROVE  PasskeyInvariant'
<1>1. request[i].pc = "transact" /\ request[i].ask \in Ask
  BY LiveRequest DEF PasskeyInvariant, Transact, Gone
<1>2. CASE Kept(request[i].ask, Verdict(request[i].ask))
  BY <1>1, <1>2, CommitStep DEF Transact
<1>3. CASE ~Kept(request[i].ask, Verdict(request[i].ask))
  <2>1. /\ request[i].ask.op = "enroll"
        /\ Verdict(request[i].ask) = "refused"
    BY <1>1, <1>3, AskShape, VerdictMeans DEF Kept
  <2> QED
    BY <1>1, <1>3, <2>1, RollBackStep DEF Transact
<1> QED
  BY <1>2, <1>3

-----------------------------------------------------------------------------
(***************************************************************************)
(* The environment, and the whole next-state relation.                     *)
(***************************************************************************)

LEMMA ExpireStep ==
  ASSUME PasskeyInvariant, NEW c \in Number, Expire(c)
  PROVE  PasskeyInvariant'
<1>1. TypeOK /\ AuditTypeOK
  BY DEF PasskeyInvariant, TypeOK
<1>2. /\ ceremony' \in [Number -> Ceremony]
      /\ \A d \in Number :
           \/ ceremony'[d] = ceremony[d]
           \/ /\ ceremony[d].status = "open"
              /\ ceremony'[d].status = "expired"
  BY <1>1 DEF Expire, TypeOK, Ceremony
<1>3. TypeOK'
  BY <1>1, <1>2, EventTypes DEF TypeOK, AuditTypeOK, Expire, boundaryVars
<1>4. CeremoniesAge
  BY <1>2 DEF CeremoniesAge, Usable
<1>5. \A o \in Id : RequestOK(o)' /\ OutboxOK(o)'
  <2> TAKE o \in Id
  <2>1. Before(o) => ceremony'[o].status = "none"
    BY <1>2 DEF PasskeyInvariant, BoundaryOK, RequestOK, Id, Number
  <2> QED
    BY <1>4, <2>1, OtherRequest, OtherRow DEF Expire, boundaryVars
<1>6. SessionOK'
  <2>1. \A s \in session : s.ceremony \in Number
    BY <1>1 DEF TypeOK
  <2> QED
    BY <1>2, <2>1 DEF PasskeyInvariant, BoundaryOK, SessionOK, OneSessionPerCeremony,
                      CounterUsedOnce, Expire
<1>7. BoundaryOK'
  BY <1>4, <1>5, <1>6 DEF PasskeyInvariant, BoundaryOK, CeremoniesAge, Number, Expire,
                          boundaryVars
<1> QED
  BY <1>3, <1>5, <1>7 DEF PasskeyInvariant

LEMMA DisableStep ==
  ASSUME PasskeyInvariant, Disable
  PROVE  PasskeyInvariant'
<1> USE DEF Disable, boundaryVars
<1>1. TypeOK'
  BY EventTypes DEF PasskeyInvariant, TypeOK, AuditTypeOK
<1>2. \A o \in Id : RequestOK(o)' /\ OutboxOK(o)'
  BY DEF PasskeyInvariant, BoundaryOK, RequestOK, OutboxOK, Before, Usable
<1>3. SessionOK'
  BY DEF PasskeyInvariant, BoundaryOK, SessionOK, OneSessionPerCeremony, CounterUsedOnce
<1> QED
  BY <1>1, <1>2, <1>3 DEF PasskeyInvariant, BoundaryOK

LEMMA StutterStep ==
  ASSUME PasskeyInvariant, UNCHANGED vars
  PROVE  PasskeyInvariant'
<1> USE DEF vars, auditVars
<1>1. AuditTypeOK'
  BY DEF PasskeyInvariant, TypeOK, AuditTypeOK, boundaryVars
<1>2. \A i \in Id : OutboxOK(i)'
  BY DEF PasskeyInvariant, OutboxOK, Before, boundaryVars, passkeyVars
<1> QED
  BY <1>1, <1>2, DispatcherKeepsBoundary DEF PasskeyInvariant

LEMMA NextStep ==
  ASSUME PasskeyInvariant, [Next]_vars
  PROVE  PasskeyInvariant'
<1>1. CASE \E ask \in Ask : Send(ask)
  BY <1>1, SendStep
<1>2. CASE \E i \in Id :
             Preflight(i) \/ Transact(i) \/ HandlerFails(i) \/ CommitFails(i)
  BY <1>2, PreflightStep, TransactStep, HandlerFailsStep, CommitFailsStep
<1>3. CASE \E i \in Id :
             (RecordAlone(i) \/ Flush(i) \/ Crash(i)) /\ UNCHANGED passkeyVars
  BY <1>3, RecordAloneStep, FlushStep
<1>4. CASE \E c \in Number : Expire(c)
  BY <1>4, ExpireStep
<1>5. CASE Disable
  BY <1>5, DisableStep
<1>6. CASE OutboxNext /\ UNCHANGED passkeyVars
  BY <1>6, OutboxSteps
<1>7. CASE UNCHANGED vars
  BY <1>7, StutterStep
<1> QED
  BY <1>1, <1>2, <1>3, <1>4, <1>5, <1>6, <1>7, Zenon DEF Next

\* Whatever clients, replicas and the database do, the sessions, the spent
\* ceremonies, the outbox and the trail of the auth and mutationaudit
\* packages stay consistent with each other.
THEOREM Invariance == Spec => []PasskeyInvariant
<1>1. Init => PasskeyInvariant
  BY InitInvariant
<1>2. PasskeyInvariant /\ [Next]_vars => PasskeyInvariant'
  BY NextStep
<1> QED
  BY <1>1, <1>2, PTL DEF Spec

-----------------------------------------------------------------------------
(***************************************************************************)
(* What follows for every reader of the code.                              *)
(***************************************************************************)

\* The rows and requests keep their types, and only a claimed row of
\* mutation_audit_outbox has a lease.
THEOREM Typed == Spec => []TypeOK
<1>1. PasskeyInvariant => TypeOK
  BY DEF PasskeyInvariant
<1> QED
  BY <1>1, Invariance, PTL

\* However many requests answer a ceremony at a time, ConsumeCeremony lets
\* one of them sign in.
THEOREM CeremonySignsInOnce == Spec => []OneSessionPerCeremony
<1>1. PasskeyInvariant => OneSessionPerCeremony
  BY DEF PasskeyInvariant, BoundaryOK, SessionOK
<1> QED
  BY <1>1, Invariance, PTL

\* A copied passkey that answers with a counter that has signed in does not
\* sign in (counterDidNotAdvance), for counters of any size.
THEOREM CounterSignsInOnce == Spec => []CounterUsedOnce
<1>1. PasskeyInvariant => CounterUsedOnce
  BY DEF PasskeyInvariant, BoundaryOK, SessionOK
<1> QED
  BY <1>1, Invariance, PTL

\* A client that is told of a refused sign-in cannot use the ceremony again,
\* and a suspected clone has been recorded (markPasskeySignInFailureCommit).
THEOREM RefusalSpendsCeremony == Spec => []RefusedMeansSpent
<1>1. PasskeyInvariant => RefusedMeansSpent
  BY DEF PasskeyInvariant, BoundaryOK, RequestOK, RefusedMeansSpent
<1> QED
  BY <1>1, Invariance, PTL

\* Who is told that it is done has what was asked for, and every change has
\* its outcome in the outbox (auditRequests).
THEOREM ResponsesAreTrue == Spec => []DoneMeansCommitted
<1>1. PasskeyInvariant => DoneMeansCommitted
  BY DEF PasskeyInvariant, BoundaryOK, OutboxOK, DoneMeansCommitted, TypeOK
<1> QED
  BY <1>1, Invariance, PTL

-----------------------------------------------------------------------------
(***************************************************************************)
(* No outcome is beyond the reach of the dispatchers, and none is given up *)
(* early: what AuditSettles rests on.                                      *)
(***************************************************************************)

TriesOK(i) ==
  /\ outcome[i].status = "none" => outcome[i].tries = 0
  /\ outcome[i].status = "pending" => outcome[i].tries < MaxTries
  /\ outcome[i].status = "dead" => outcome[i].tries = MaxTries

OutboxReachable ==
  \A i \in Id :
    /\ outcome[i].status = "pending" => Claimable(i)
    /\ outcome[i].status = "processing" =>
         outcome[i].leased \/ Claimable(i) \/ Swept[i].status = "dead"
    /\ outcome[i].status = "dead" => outcome[i].tries = MaxTries

\* A sweep buries the rows whose tries are used up.
LEMMA SweptTries ==
  ASSUME AuditTypeOK, NEW i \in Id, TriesOK(i)
  PROVE  /\ Swept[i].status = "none" => Swept[i].tries = 0
         /\ Swept[i].status = "pending" => Swept[i].tries < MaxTries
         /\ Swept[i].status = "dead" => Swept[i].tries = MaxTries
<1>1. outcome[i] \in Outcome /\ outcome[i].tries \in 0..MaxTries
  BY DEF AuditTypeOK, Outcome
<1>2. CASE Expired(i) /\ outcome[i].tries >= MaxTries
  BY <1>1, <1>2, ReleasedRow, AuditAssumption DEF Swept
<1>3. CASE ~(Expired(i) /\ outcome[i].tries >= MaxTries)
  BY <1>3 DEF Swept, TriesOK
<1> QED
  BY <1>2, <1>3

LEMMA OutboxTries ==
  ASSUME PasskeyInvariant, \A i \in Id : TriesOK(i), OutboxNext
  PROVE  \A i \in Id : TriesOK(i)'
<1>1. AuditTypeOK
  BY DEF PasskeyInvariant, TypeOK
<1>2. CASE UNCHANGED outcome
  BY <1>2 DEF TriesOK
<1>3. CASE Sweep
  BY <1>1, <1>3, SweptTries DEF Sweep, TriesOK
<1>4. ASSUME NEW j \in Id, Claim(j) PROVE \A i \in Id : TriesOK(i)'
  <2>1. Swept \in [Id -> Outcome]
    BY <1>1, SweptTypes
  <2>2. outcome'[j].status = "processing" /\ \A i \in Id \ {j} : outcome'[i] = Swept[i]
    BY <1>4, <2>1 DEF Claim
  <2> QED
    BY <1>1, <2>2, SweptTries DEF TriesOK
<1>5. ASSUME NEW j \in Id, LeaseExpires(j) PROVE \A i \in Id : TriesOK(i)'
  <2>1. \A i \in Id : outcome'[i].status = outcome[i].status
                      /\ outcome'[i].tries = outcome[i].tries
    BY <1>1, <1>5 DEF LeaseExpires, AuditTypeOK, Outcome
  <2> QED
    BY <2>1 DEF TriesOK
<1>6. ASSUME NEW j \in Id, NEW k \in Try, Deliver(j, k) PROVE \A i \in Id : TriesOK(i)'
  <2>1. outcome'[j].status = "delivered" /\ \A i \in Id \ {j} : outcome'[i] = outcome[i]
    BY <1>1, <1>6, ReleasedRow DEF Deliver, AuditTypeOK
  <2> QED
    BY <2>1 DEF TriesOK
<1>7. ASSUME NEW j \in Id, NEW k \in Try, Retry(j, k) PROVE \A i \in Id : TriesOK(i)'
  <2> PICK s : s = IF outcome[j].tries >= MaxTries THEN "dead" ELSE "pending"
    OBVIOUS
  <2>1. s \in {"pending", "dead"} /\ outcome' = [outcome EXCEPT ![j] = Released(j, s)]
    BY <1>1, <1>7 DEF Retry, AuditTypeOK
  <2>2. /\ outcome'[j].status = s /\ outcome'[j].tries = outcome[j].tries
        /\ \A i \in Id \ {j} : outcome'[i] = outcome[i]
    BY <1>1, <2>1, ReleasedRow DEF AuditTypeOK
  <2>3. outcome[j].tries \in 0..MaxTries
    BY <1>1 DEF AuditTypeOK, Outcome
  <2>4. /\ s = "pending" => outcome[j].tries < MaxTries
        /\ s = "dead" => outcome[j].tries = MaxTries
    BY <2>3, AuditAssumption
  <2> QED
    BY <2>1, <2>2, <2>4 DEF TriesOK
<1>8. ASSUME NEW i \in Id, NEW k \in Try,
             Skip(i, k) \/ FailDelivery(i, k) \/ DispatcherStops(i, k)
      PROVE  \A o \in Id : TriesOK(o)'
  BY <1>2, <1>8 DEF Skip, FailDelivery, DispatcherStops
<1> QED
  BY <1>3, <1>4, <1>5, <1>6, <1>7, <1>8 DEF OutboxNext, Dispatch, Work

\* An outcome enters the outbox once, with all its tries.
LEMMA TransactTries ==
  ASSUME PasskeyInvariant, \A i \in Id : TriesOK(i), NEW i \in Id, Transact(i)
  PROVE  \A o \in Id : TriesOK(o)'
<1>1. TypeOK /\ AuditTypeOK
  BY DEF PasskeyInvariant, TypeOK
<1>2. outcome[i].status = "none" /\ outcome[i] \in Outcome
  BY <1>1 DEF PasskeyInvariant, OutboxOK, Before, Transact, AuditTypeOK
<1>3. CASE UNCHANGED outcome
  BY <1>3 DEF TriesOK
<1>4. CASE outcome' = [outcome EXCEPT ![i].status = "pending"]
  <2>1. /\ outcome'[i].status = "pending" /\ outcome'[i].tries = outcome[i].tries
        /\ \A o \in Id \ {i} : outcome'[o] = outcome[o]
    BY <1>1, <1>2, <1>4 DEF AuditTypeOK, Outcome
  <2> QED
    BY <1>2, <2>1, AuditAssumption DEF TriesOK
<1> QED
  BY <1>3, <1>4 DEF Transact, CommitWithOutcome, RollBack

LEMMA TriesStep ==
  ASSUME PasskeyInvariant, \A i \in Id : TriesOK(i), [Next]_vars
  PROVE  \A i \in Id : TriesOK(i)'
<1>1. CASE UNCHANGED outcome
  BY <1>1 DEF TriesOK
<1>2. CASE \E ask \in Ask : Send(ask)
  BY <1>1, <1>2 DEF Send, Arrive
<1>3. ASSUME NEW i \in Id,
             \/ Preflight(i) \/ HandlerFails(i) \/ CommitFails(i)
             \/ RecordAlone(i) \/ Flush(i) \/ Crash(i)
      PROVE  \A o \in Id : TriesOK(o)'
  BY <1>1, <1>3 DEF Preflight, HandlerFails, CommitFails, RollBack, LoseCommit,
     RecordAlone, Flush, Crash
<1>4. CASE (\E c \in Number : Expire(c)) \/ Disable \/ UNCHANGED vars
  BY <1>1, <1>4 DEF Expire, Disable, vars, auditVars
<1> QED
  BY <1>2, <1>3, <1>4, TransactTries, OutboxTries DEF Next

\* A row of mutation_audit_outbox is claimable, under a live lease, at its end
\* or about to be swept: none is stuck between the guard of the claim, the
\* sweep and the limit of a retry; and a dead one has had all its tries.
THEOREM NoOutcomeIsStuck == Spec => []OutboxReachable
<1>1. Init => \A i \in Id : TriesOK(i)
  BY DEF Init, InitAudit, NoOutcome, TriesOK
<1>2. PasskeyInvariant /\ (\A i \in Id : TriesOK(i)) /\ [Next]_vars
        => (\A i \in Id : TriesOK(i))'
  BY TriesStep
<1>3. PasskeyInvariant /\ (\A i \in Id : TriesOK(i)) => OutboxReachable
  <2> SUFFICES ASSUME PasskeyInvariant, NEW i \in Id, TriesOK(i)
               PROVE  /\ outcome[i].status = "pending" => Claimable(i)
                      /\ outcome[i].status = "processing" =>
                           outcome[i].leased \/ Claimable(i) \/ Swept[i].status = "dead"
                      /\ outcome[i].status = "dead" => outcome[i].tries = MaxTries
    BY DEF OutboxReachable
  <2>1. AuditTypeOK /\ outcome[i].tries \in 0..MaxTries
    BY DEF PasskeyInvariant, TypeOK, AuditTypeOK, Outcome
  <2>2. Expired(i) /\ ~(outcome[i].tries < MaxTries) => Swept[i].status = "dead"
    BY <2>1, ReleasedRow, AuditAssumption DEF Swept
  <2> QED
    BY <2>2 DEF TriesOK, Claimable, Expired
<1> QED
  BY <1>1, <1>2, <1>3, Invariance, PTL DEF Spec

-----------------------------------------------------------------------------
(***************************************************************************)
(* Every step of the system is a step of the trail, or leaves it alone.    *)
(***************************************************************************)

TrailVars == <<touched, Told>>

LEMMA InitTrail == Init => Trail!Init
BY DEF Init, InitAudit, Trail!Init, Told, NoOutcome

\* A request is told of as long as its row and its trail stay as they are.
LEMMA ToldOf ==
  ASSUME NEW i \in Id, outcome'[i].status = outcome[i].status, trail'[i] = trail[i]
  PROVE  Told'[i] = Told[i]
BY DEF Told

LEMMA ToldTheSame ==
  ASSUME UNCHANGED <<touched, trail>>,
         \A i \in Id : outcome'[i].status = outcome[i].status
  PROVE  UNCHANGED TrailVars
BY DEF Told, TrailVars

\* One request goes from one place of the trail to another.
LEMMA ToldMoves ==
  ASSUME NEW i \in Id,
         \A o \in Id \ {i} : outcome'[o].status = outcome[o].status /\ trail'[o] = trail[o]
  PROVE  Told' = [Told EXCEPT ![i] = Told'[i]]
<1>1. Told = [o \in Id |-> Told[o]] /\ Told' = [o \in Id |-> Told'[o]]
  BY DEF Told
<1>2. \A o \in Id \ {i} : Told'[o] = Told[o]
  BY ToldOf
<1> QED
  BY <1>1, <1>2

LEMMA CommitTrail ==
  ASSUME PasskeyInvariant, NEW i \in Id, request[i].pc = "transact",
         CommitWithOutcome(i, Verdict(request[i].ask)),
         Change(i, request[i].ask, Verdict(request[i].ask))
  PROVE  Trail!Change(i)
<1>1. /\ TypeOK /\ OutboxOK(i) /\ request[i] # Gone
      /\ outcome[i].status = "none" /\ trail[i] = 0
  BY DEF PasskeyInvariant, OutboxOK, Before, Gone
<1>2. Verdict(request[i].ask) \in Reply
  BY <1>1, LiveRequest, VerdictMeans DEF Reply
<1>3. /\ outcome'[i].status = "pending" /\ trail' = trail
      /\ \A o \in Id \ {i} : outcome'[o] = outcome[o]
  BY <1>1, <1>2, CommitShape
<1>4. Told[i] = "none" /\ Told'[i] = "owed"
  BY <1>1, <1>3 DEF Told
<1>5. Told' = [Told EXCEPT ![i] = "owed"]
  BY <1>3, <1>4, ToldMoves
<1>6. touched' = touched \cup {i}
  BY DEF Change
<1> QED
  BY <1>4, <1>5, <1>6 DEF Trail!Change

LEMMA RecordTrail ==
  ASSUME PasskeyInvariant, NEW i \in Id, RecordAlone(i), UNCHANGED passkeyVars
  PROVE  Trail!TellFailure(i) \/ UNCHANGED TrailVars
<1>1. trail \in [Id -> Nat] /\ outcome[i].status = "none" /\ trail[i] = 0
  BY DEF PasskeyInvariant, TypeOK, AuditTypeOK, OutboxOK, RecordAlone
<1>2. CASE trail' = [trail EXCEPT ![i] = @ + 1]
  <2>1. trail'[i] = 1 /\ UNCHANGED <<outcome, touched>>
        /\ \A o \in Id \ {i} : trail'[o] = trail[o]
    BY <1>1, <1>2 DEF RecordAlone, passkeyVars
  <2>2. Told[i] = "none" /\ Told'[i] = "told"
    BY <1>1, <2>1 DEF Told
  <2> QED
    BY <2>1, <2>2, ToldMoves DEF Trail!TellFailure
<1>3. CASE UNCHANGED trail
  BY <1>3, ToldTheSame DEF RecordAlone, passkeyVars
<1> QED
  BY <1>2, <1>3 DEF RecordAlone

LEMMA DeliverTrail ==
  ASSUME PasskeyInvariant, NEW i \in Id, NEW k \in Try, Deliver(i, k),
         UNCHANGED passkeyVars
  PROVE  Trail!Settle(i)
<1>1. /\ outcome[i].status = "processing" /\ trail[i] = 0
      /\ AuditTypeOK
  BY DEF PasskeyInvariant, OutboxOK, Deliver, Holds, TypeOK
<1>2. /\ trail'[i] = 1 /\ outcome'[i].status = "delivered"
      /\ \A o \in Id \ {i} : outcome'[o] = outcome[o] /\ trail'[o] = trail[o]
  BY <1>1, ReleasedRow DEF Deliver, AuditTypeOK
<1>3. Told[i] = "owed" /\ Told'[i] = "told"
  BY <1>1, <1>2 DEF Told
<1> QED
  BY <1>2, <1>3, ToldMoves DEF Trail!Settle, passkeyVars

LEMMA RetryTrail ==
  ASSUME PasskeyInvariant, NEW i \in Id, NEW k \in Try, Retry(i, k),
         UNCHANGED passkeyVars
  PROVE  Trail!Settle(i) \/ UNCHANGED TrailVars
<1>1. /\ outcome[i].status = "processing" /\ trail[i] = 0
      /\ AuditTypeOK /\ UNCHANGED <<trail, touched>>
  BY DEF PasskeyInvariant, OutboxOK, Retry, Holds, TypeOK, passkeyVars
<1>2. PICK s \in {"pending", "dead"} :
        outcome' = [outcome EXCEPT ![i] = Released(i, s)]
  BY DEF Retry
<1>3. /\ outcome'[i].status = s
      /\ \A o \in Id \ {i} : outcome'[o] = outcome[o] /\ trail'[o] = trail[o]
  BY <1>1, <1>2, ReleasedRow DEF AuditTypeOK
<1>4. Told[i] = "owed" /\ Told'[i] \in {"owed", "lost"}
  BY <1>1, <1>3 DEF Told
<1>5. Told' = [Told EXCEPT ![i] = Told'[i]]
  BY <1>3, ToldMoves
<1>6. CASE Told'[i] = "owed"
  <2>1. [Told EXCEPT ![i] = Told[i]] = Told
    BY DEF Told
  <2>2. Told' = Told
    BY <1>4, <1>5, <1>6, <2>1
  <2> QED
    BY <1>1, <2>2 DEF TrailVars
<1>7. CASE Told'[i] = "lost"
  BY <1>1, <1>4, <1>5, <1>7 DEF Trail!Settle
<1> QED
  BY <1>4, <1>6, <1>7

\* Sweeping gives up outcomes that are owed.
LEMMA SweepTrail ==
  ASSUME PasskeyInvariant, UNCHANGED <<trail, touched>>, NEW claimed \in SUBSET Id,
         \A i \in Id \ claimed : outcome'[i] = Swept[i],
         \A i \in claimed : /\ outcome[i].status \in {"pending", "processing"}
                            /\ outcome'[i].status = "processing"
  PROVE  Trail!GiveUp
<1> DEFINE lost == {i \in Id : outcome'[i].status = "dead" /\ outcome[i].status # "dead"}
<1>1. ASSUME NEW i \in Id
      PROVE  /\ Told'[i] = IF i \in lost THEN "lost" ELSE Told[i]
             /\ i \in lost => Told[i] = "owed"
  <2>1. outcome[i].status = "processing" => trail[i] = 0
    BY DEF PasskeyInvariant, OutboxOK
  <2>2. CASE i \in claimed
    BY <2>1, <2>2 DEF Told, PasskeyInvariant, OutboxOK
  <2>3. CASE i \notin claimed
    <3>1. AuditTypeOK
      BY DEF PasskeyInvariant, TypeOK
    <3>2. /\ Swept[i] \in {outcome[i], Released(i, "dead")}
          /\ Swept[i] # outcome[i] => outcome[i].status = "processing"
          /\ Released(i, "dead").status = "dead"
      BY <3>1, SweptRow, ReleasedRow
    <3>3. CASE Swept[i] = outcome[i]
      BY <2>3, <3>3 DEF Told
    <3>4. CASE Swept[i] # outcome[i]
      BY <2>1, <2>3, <3>2, <3>4 DEF Told
    <3> QED
      BY <3>3, <3>4
  <2> QED
    BY <2>2, <2>3
<1>2. Told' = [i \in Id |-> IF i \in lost THEN "lost" ELSE Told[i]]
  BY <1>1 DEF Told
<1>3. lost \in SUBSET {i \in Id : Told[i] = "owed"}
  BY <1>1
<1> QED
  BY <1>2, <1>3 DEF Trail!GiveUp

LEMMA OutboxTrail ==
  ASSUME PasskeyInvariant, OutboxNext, UNCHANGED passkeyVars
  PROVE  [Trail!Next]_TrailVars
<1>1. CASE Sweep
  <2> PICK none \in SUBSET Id : none = {}
    OBVIOUS
  <2>1. Trail!GiveUp
    <3>1. \A i \in Id \ none : outcome'[i] = Swept[i]
      BY <1>1 DEF Sweep
    <3>2. \A i \in none : /\ outcome[i].status \in {"pending", "processing"}
                          /\ outcome'[i].status = "processing"
      OBVIOUS
    <3>3. UNCHANGED <<trail, touched>>
      BY <1>1 DEF Sweep, passkeyVars
    <3> QED
      BY <3>1, <3>2, <3>3, SweepTrail
  <2> QED
    BY <2>1 DEF Trail!Next
<1>2. CASE \E i \in Id : Claim(i)
  <2> PICK i \in Id : Claim(i)
    BY <1>2
  <2>1. outcome[i].status \in {"pending", "processing"}
    BY DEF Claim, Claimable, Expired
  <2>2. outcome'[i].status = "processing" /\ \A o \in Id \ {i} : outcome'[o] = Swept[o]
    <3>1. Swept \in [Id -> Outcome]
      BY SweptTypes DEF PasskeyInvariant, TypeOK
    <3> QED
      BY <3>1 DEF Claim
  <2>3. UNCHANGED <<trail, touched>>
    BY DEF Claim, passkeyVars
  <2> PICK one \in SUBSET Id : one = {i}
    OBVIOUS
  <2>4. Trail!GiveUp
    <3>1. \A o \in Id \ one : outcome'[o] = Swept[o]
      BY <2>2
    <3>2. \A o \in one : /\ outcome[o].status \in {"pending", "processing"}
                         /\ outcome'[o].status = "processing"
      BY <2>1, <2>2
    <3> QED
      BY <2>3, <3>1, <3>2, SweepTrail
  <2> QED
    BY <2>4 DEF Trail!Next
<1>3. CASE \E i \in Id : LeaseExpires(i)
  <2> PICK i \in Id : LeaseExpires(i)
    BY <1>3
  <2>1. UNCHANGED <<trail, touched>>
        /\ \A o \in Id : outcome'[o].status = outcome[o].status
    BY DEF LeaseExpires, passkeyVars, PasskeyInvariant, TypeOK, AuditTypeOK, Outcome
  <2> QED
    BY <2>1, ToldTheSame
<1>4. CASE \E i \in Id, k \in Try : Work(i, k) \/ FailDelivery(i, k) \/ DispatcherStops(i, k)
  <2> PICK i \in Id, k \in Try : Work(i, k) \/ FailDelivery(i, k) \/ DispatcherStops(i, k)
    BY <1>4
  <2>1. CASE Skip(i, k) \/ FailDelivery(i, k) \/ DispatcherStops(i, k)
    BY <2>1, ToldTheSame DEF Skip, FailDelivery, DispatcherStops, passkeyVars
  <2>2. CASE Deliver(i, k)
    BY <2>2, DeliverTrail DEF Trail!Next
  <2>3. CASE Retry(i, k)
    BY <2>3, RetryTrail DEF Trail!Next
  <2> QED
    BY <2>1, <2>2, <2>3 DEF Work
<1> QED
  BY <1>1, <1>2, <1>3, <1>4 DEF OutboxNext, Dispatch

LEMMA NextTrail ==
  ASSUME PasskeyInvariant, [Next]_vars
  PROVE  [Trail!Next]_TrailVars
<1>1. CASE \E ask \in Ask : Send(ask)
  BY <1>1, ToldTheSame DEF Send, Arrive, passkeyVars
<1>2. CASE \E i \in Id : Preflight(i) \/ HandlerFails(i) \/ CommitFails(i)
  BY <1>2, ToldTheSame
     DEF Preflight, HandlerFails, CommitFails, RollBack, LoseCommit, passkeyVars
<1>3. CASE \E i \in Id : Transact(i)
  <2> PICK i \in Id : Transact(i)
    BY <1>3
  <2>1. CASE Kept(request[i].ask, Verdict(request[i].ask))
    BY <2>1, CommitTrail DEF Transact, Trail!Next
  <2>2. CASE ~Kept(request[i].ask, Verdict(request[i].ask))
    BY <2>2, ToldTheSame DEF Transact, RollBack, passkeyVars
  <2> QED
    BY <2>1, <2>2
<1>4. CASE \E i \in Id : RecordAlone(i) /\ UNCHANGED passkeyVars
  BY <1>4, RecordTrail DEF Trail!Next
<1>5. CASE \E i \in Id : (Flush(i) \/ Crash(i)) /\ UNCHANGED passkeyVars
  BY <1>5, ToldTheSame DEF Flush, Crash, passkeyVars
<1>6. CASE \E c \in Number : Expire(c)
  BY <1>6, ToldTheSame DEF Expire
<1>7. CASE Disable
  BY <1>7, ToldTheSame DEF Disable
<1>8. CASE OutboxNext /\ UNCHANGED passkeyVars
  BY <1>8, OutboxTrail
<1>9. CASE UNCHANGED vars
  BY <1>9, ToldTheSame DEF vars, auditVars, passkeyVars
<1> QED
  BY <1>1, <1>2, <1>3, <1>4, <1>5, <1>6, <1>7, <1>8, <1>9, Zenon DEF Next

\* Whatever a mutation changed came with an outcome that is told once or
\* given up, and no request is told of twice: the boundary and the
\* dispatcher of mutationaudit implement AuditTrail.
THEOREM AuditTrailImplemented == Spec => ImplementsAuditTrail
<1>1. Init => Trail!Init
  BY InitTrail
<1>2. PasskeyInvariant /\ [Next]_vars => [Trail!Next]_(Trail!trailVars)
  BY NextTrail DEF TrailVars, Trail!trailVars
<1> QED
  BY <1>1, <1>2, Invariance, PTL DEF Spec, ImplementsAuditTrail, Trail!Spec

=============================================================================
