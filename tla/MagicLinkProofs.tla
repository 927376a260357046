--------------------------- MODULE MagicLinkProofs ---------------------------
(***************************************************************************)
(* MagicLinkDelivery for any number of recipients, deliveries, runners and *)
(* claims: its type invariant, its safety invariants, and that it          *)
(* implements SignIn.                                                      *)
(*                                                                         *)
(* An operator on rows (Dropped, Sent, Superseded, Swept...) is described  *)
(* once, by a lemma about one row; the lemmas about actions use those.     *)
(***************************************************************************)
EXTENDS MagicLinkDelivery, TLAPS

USE DeliveryAssumption

-----------------------------------------------------------------------------
(***************************************************************************)
(* The inductive invariant.  The safety properties follow from it.         *)
(***************************************************************************)

\* A delivery that has a usable link, or may still get one.
Live(r) == \/ r.status \in {"pending", "processing"}
           \/ r.status = "sent" /\ ~r.consumed

OneLive ==
  \A d, e \in Delivery :
    /\ Live(outbox[d]) /\ Live(outbox[e])
    /\ outbox[d].recipient = outbox[e].recipient
    => d = e

\* A link belongs to the claim that holds the row, a row that was sent accepts
\* a link that was mailed, and a grant leaves the row sent and consumed.
RowOK(d) ==
  /\ outbox[d].status = "processing" =>
       ~outbox[d].consumed /\ outbox[d].link \in {None, outbox[d].claim}
  /\ outbox[d].status = "sent" => <<d, outbox[d].link>> \in mailbox
  /\ grants[d] # 0 =>
       grants[d] = 1 /\ outbox[d].status = "sent" /\ outbox[d].consumed

RunnerOK(w) ==
  runner[w].pc = "mailed" => <<runner[w].delivery, runner[w].claim>> \in mailbox

DeliveryInvariant ==
  /\ TypeOK
  /\ OneLive
  /\ \A d \in Delivery : RowOK(d)
  /\ \A w \in Runner : RunnerOK(w)

-----------------------------------------------------------------------------
(***************************************************************************)
(* What the operators on rows do.                                          *)
(***************************************************************************)

ShapedRow(r) == r \in Row /\ RowShape(r)

LEMMA NoRowShaped == ShapedRow(NoRow) /\ NoRow.status = "unused"
BY DEF ShapedRow, Row, RowShape, NoRow

LEMMA DroppedRow ==
  ASSUME NEW r \in Row, NEW s \in {"pending", "dead", "superseded"}
  PROVE  /\ ShapedRow(Dropped(r, s))
         /\ Dropped(r, s).status = s
         /\ Dropped(r, s).recipient = r.recipient
         /\ Dropped(r, s).link = None
         /\ ~Dropped(r, s).fresh /\ ~Dropped(r, s).consumed
BY DEF ShapedRow, Row, RowShape, Dropped

LEMMA SentRow ==
  ASSUME NEW r \in Row, RowShape(r), r.link # None
  PROVE  /\ ShapedRow(Sent(r))
         /\ Sent(r).status = "sent"
         /\ Sent(r).recipient = r.recipient
         /\ Sent(r).link = r.link /\ Sent(r).fresh = r.fresh
         /\ Sent(r).consumed = r.consumed
BY DEF ShapedRow, Row, RowShape, Sent

LEMMA ConsumedRow ==
  ASSUME NEW r \in Row, RowShape(r), r.status = "sent"
  PROVE  LET q == [r EXCEPT !.consumed = TRUE] IN
         /\ ShapedRow(q)
         /\ q.status = "sent" /\ q.recipient = r.recipient /\ q.link = r.link
         /\ q.consumed
BY DEF ShapedRow, Row, RowShape

LEMMA SupersededRow ==
  ASSUME NEW r \in Row, RowShape(r)
  PROVE  /\ ShapedRow(Superseded(r))
         /\ Superseded(r).recipient = r.recipient
         /\ r.status \in {"pending", "processing"} =>
              Superseded(r) = Dropped(r, "superseded")
         /\ r.status = "sent" => Superseded(r) = [r EXCEPT !.consumed = TRUE]
         /\ r.status \notin {"pending", "processing", "sent"} => Superseded(r) = r
<1>1. CASE r.status \in {"pending", "processing"}
  BY <1>1, DroppedRow DEF Superseded
<1>2. CASE r.status = "sent"
  BY <1>2, ConsumedRow DEF Superseded
<1>3. CASE r.status \notin {"pending", "processing", "sent"}
  BY <1>3 DEF Superseded, ShapedRow
<1> QED
  BY <1>1, <1>2, <1>3

LEMMA RedeemedRow ==
  ASSUME NEW r \in Row, RowShape(r), Redeemable(r)
  PROVE  /\ ShapedRow(Redeemed(r))
         /\ Redeemed(r).status = "sent" /\ Redeemed(r).consumed
         /\ Redeemed(r).recipient = r.recipient
         /\ Redeemed(r).link = r.link
<1>1. CASE r.status = "processing"
  <2>1. ShapedRow(Sent(r)) /\ Sent(r).status = "sent"
        /\ Sent(r).recipient = r.recipient /\ Sent(r).link = r.link
    BY <1>1, SentRow DEF Redeemable
  <2> QED
    BY <1>1, <2>1, ConsumedRow DEF Redeemed, ShapedRow
<1>2. CASE r.status = "sent"
  BY <1>2, ConsumedRow DEF Redeemed
<1> QED
  BY <1>1, <1>2 DEF Redeemable

\* The row of a delivery that was just claimed.
Claimed(r, t) ==
  [Dropped(r, "processing") EXCEPT
     !.attempts = @ + 1, !.claim = t, !.leased = TRUE]

LEMMA ClaimedRow ==
  ASSUME NEW r \in Row, r.attempts < MaxAttempts, NEW t \in Claim
  PROVE  /\ ShapedRow(Claimed(r, t))
         /\ Claimed(r, t).status = "processing"
         /\ Claimed(r, t).recipient = r.recipient
         /\ Claimed(r, t).claim = t /\ Claimed(r, t).link = None
         /\ ~Claimed(r, t).consumed
<1>1. r.attempts + 1 \in 0..MaxAttempts
  BY DEF Row
<1>2. /\ Dropped(r, "processing") \in Row
      /\ Dropped(r, "processing").status = "processing"
      /\ Dropped(r, "processing").recipient = r.recipient
      /\ Dropped(r, "processing").attempts = r.attempts
      /\ Dropped(r, "processing").link = None
      /\ ~Dropped(r, "processing").fresh /\ ~Dropped(r, "processing").consumed
  BY DEF Dropped, Row
<1>3. ASSUME NEW q \in Row, q.attempts + 1 \in 0..MaxAttempts,
             q.status = "processing", q.link = None, ~q.fresh, ~q.consumed
      PROVE  LET p == [q EXCEPT !.attempts = @ + 1, !.claim = t, !.leased = TRUE]
             IN  /\ ShapedRow(p)
                 /\ p.status = "processing" /\ p.recipient = q.recipient
                 /\ p.claim = t /\ p.link = None /\ ~p.consumed
  BY <1>3 DEF ShapedRow, Row, RowShape
<1> QED
  BY <1>1, <1>2, <1>3 DEF Claimed

LEMMA ActivatedRow ==
  ASSUME NEW r \in Row, RowShape(r), r.status = "processing", NEW t \in Claim
  PROVE  LET q == [r EXCEPT !.link = t, !.fresh = TRUE, !.consumed = FALSE] IN
         /\ ShapedRow(q)
         /\ q.status = "processing" /\ q.recipient = r.recipient
         /\ q.claim = r.claim /\ q.link = t /\ ~q.consumed
BY DEF ShapedRow, Row, RowShape

LEMMA FreshClaimIsFresh ==
  ASSUME FreshClaims # {}
  PROVE  FreshClaim \in Claim /\ FreshClaim \notin ClaimsInUse
BY DEF FreshClaim, FreshClaims

LEMMA FreeDeliveryIsFree ==
  ASSUME FreeDeliveries # {}
  PROVE  FreeDelivery \in Delivery /\ outbox[FreeDelivery].status = "unused"
BY DEF FreeDelivery, FreeDeliveries

\* Before a claim nothing but abandoned deliveries without an attempt left changes.
LEMMA SweptRow ==
  ASSUME TypeOK, NEW d \in Delivery, RowOK(d)
  PROVE  \/ Swept(d) = outbox[d]
         \/ outbox[d].status = "processing" /\ Swept(d) = Dropped(outbox[d], "dead")
BY DEF Swept, Expired, RowOK, TypeOK

-----------------------------------------------------------------------------
(***************************************************************************)
(* The type invariant, in parts.                                           *)
(***************************************************************************)

RowsTyped == outbox \in [Delivery -> Row] /\ \A d \in Delivery : RowShape(outbox[d])

RunnersTyped ==
  runner \in [Runner -> RunnerState] /\ \A w \in Runner : RunnerShape(runner[w])

RestTyped == /\ mailbox \subseteq Delivery \X Claim
             /\ grants \in [Delivery -> Nat]
             /\ faults \in 0..MaxFaults

LEMMA TypeParts == TypeOK <=> RowsTyped /\ RunnersTyped /\ RestTyped
BY DEF TypeOK, RowsTyped, RunnersTyped, RestTyped

LEMMA TypePartsNext == TypeOK' <=> RowsTyped' /\ RunnersTyped' /\ RestTyped'
BY DEF TypeOK, RowsTyped, RunnersTyped, RestTyped

LEMMA SetRow ==
  ASSUME RowsTyped, NEW d \in Delivery, NEW q, ShapedRow(q),
         outbox' = [outbox EXCEPT ![d] = q]
  PROVE  /\ RowsTyped' /\ outbox'[d] = q
         /\ \A e \in Delivery : e # d => outbox'[e] = outbox[e]
BY DEF RowsTyped, ShapedRow

ShapedRunner(s) == s \in RunnerState /\ RunnerShape(s)

LEMMA SetRunner ==
  ASSUME RunnersTyped, NEW w \in Runner, NEW s, ShapedRunner(s),
         runner' = [runner EXCEPT ![w] = s]
  PROVE  /\ RunnersTyped' /\ runner'[w] = s
         /\ \A v \in Runner : v # w => runner'[v] = runner[v]
BY DEF RunnersTyped, ShapedRunner

LEMMA IdleRunnerShaped ==
  ShapedRunner(IdleRunner) /\ ShapedRunner(StoppedRunner)
  /\ IdleRunner.pc = "idle" /\ StoppedRunner.pc = "stopped"
BY DEF ShapedRunner, RunnerState, RunnerShape, IdleRunner, StoppedRunner

\* A runner that goes on keeps its claim.
LEMMA ProceedRunner ==
  ASSUME RunnersTyped, NEW w \in Runner, runner[w].claim \in Claim, Proceed(w)
  PROVE  /\ RunnersTyped'
         /\ runner'[w].pc \in {"idle", "batch"}
         /\ \A v \in Runner : v # w => runner'[v] = runner[v]
<1> DEFINE rest == runner[w].queue \ {runner[w].delivery}
           next == [runner[w] EXCEPT !.pc = "batch", !.queue = rest, !.delivery = None]
<1>1. ShapedRunner(next) /\ next.pc = "batch"
  BY DEF RunnersTyped, ShapedRunner, RunnerState, RunnerShape
<1>2. runner' = [runner EXCEPT ![w] = IF rest = {} THEN IdleRunner ELSE next]
  BY DEF Proceed
<1> HIDE DEF next
<1> QED
  BY <1>1, <1>2, IdleRunnerShaped, SetRunner

LEMMA TypeInit == Init => TypeOK
BY NoRowShaped, IdleRunnerShaped
   DEF Init, TypeOK, ShapedRow, ShapedRunner

-----------------------------------------------------------------------------
(***************************************************************************)
(* What the actions that touch the outbox do to its rows.                  *)
(***************************************************************************)

NewRow(r) == [NoRow EXCEPT !.status = "pending", !.recipient = r]

LEMMA NewRowShaped ==
  ASSUME NEW r \in Recipient
  PROVE  /\ ShapedRow(NewRow(r))
         /\ NewRow(r).status = "pending" /\ NewRow(r).recipient = r
         /\ ~NewRow(r).consumed
<1>1. NoRow \in Row /\ NoRow.claim = None /\ ~NoRow.leased /\ NoRow.link = None
      /\ ~NoRow.fresh /\ ~NoRow.consumed
  BY DEF NoRow, Row
<1> QED
  BY <1>1 DEF ShapedRow, Row, RowShape, NewRow

LEMMA RequestRows ==
  ASSUME TypeOK, NEW r \in Recipient, Request(r)
  PROVE  /\ RowsTyped'
         /\ FreeDelivery \in Delivery /\ outbox[FreeDelivery].status = "unused"
         /\ outbox'[FreeDelivery] = NewRow(r)
         /\ \A d \in Delivery : d # FreeDelivery =>
              outbox'[d] = IF outbox[d].recipient = r THEN Superseded(outbox[d])
                           ELSE outbox[d]
<1>1. FreeDelivery \in Delivery /\ outbox[FreeDelivery].status = "unused"
  BY FreeDeliveryIsFree DEF Request
<1>2. outbox' = [d \in Delivery |->
        IF d = FreeDelivery THEN NewRow(r)
        ELSE IF outbox[d].recipient = r THEN Superseded(outbox[d]) ELSE outbox[d]]
  BY DEF Request, NewRow
<1>3. ASSUME NEW d \in Delivery PROVE ShapedRow(outbox'[d])
  BY <1>2, NewRowShaped, SupersededRow DEF TypeOK, ShapedRow
<1> QED
  BY <1>1, <1>2, <1>3 DEF RowsTyped, ShapedRow

LEMMA RedeemRows ==
  ASSUME TypeOK, NEW d \in Delivery, Redeem(d)
  PROVE  /\ RowsTyped'
         /\ outbox'[d] = Redeemed(outbox[d])
         /\ \A e \in Delivery : e # d => outbox'[e] = outbox[e]
BY RedeemedRow, SetRow DEF Redeem, TypeOK, RowsTyped

LEMMA ClaimRows ==
  ASSUME DeliveryInvariant, NEW w \in Runner, NEW S \in SUBSET Delivery,
         ClaimBatch(w, S)
  PROVE  /\ RowsTyped'
         /\ FreshClaim \in Claim /\ FreshClaim \notin ClaimsInUse
         /\ \A d \in Delivery :
              \/ outbox'[d] = outbox[d]
              \/ outbox[d].status = "processing"
                 /\ outbox'[d] = Dropped(outbox[d], "dead")
              \/ outbox[d].status \in {"pending", "processing"}
                 /\ outbox[d].attempts < MaxAttempts
                 /\ outbox'[d] = Claimed(outbox[d], FreshClaim)
<1>1. FreshClaim \in Claim /\ FreshClaim \notin ClaimsInUse
  BY FreshClaimIsFresh DEF ClaimBatch
<1>2. outbox' = [d \in Delivery |->
        IF d \in S THEN Claimed(outbox[d], FreshClaim) ELSE Swept(d)]
  BY DEF ClaimBatch, Claimed
<1>3. ASSUME NEW d \in S
      PROVE  outbox[d].status \in {"pending", "processing"}
             /\ outbox[d].attempts < MaxAttempts
  BY DEF ClaimBatch, Available, Expired
<1>4. ASSUME NEW d \in Delivery
      PROVE  \/ outbox'[d] = outbox[d]
             \/ outbox[d].status = "processing"
                /\ outbox'[d] = Dropped(outbox[d], "dead")
             \/ outbox[d].status \in {"pending", "processing"}
                /\ outbox[d].attempts < MaxAttempts
                /\ outbox'[d] = Claimed(outbox[d], FreshClaim)
  BY <1>2, <1>3, SweptRow DEF DeliveryInvariant
<1>5. ASSUME NEW d \in Delivery PROVE ShapedRow(outbox'[d])
  <2>1. outbox[d] \in Row /\ RowShape(outbox[d])
    BY DEF DeliveryInvariant, TypeOK
  <2> QED
    BY <1>1, <1>4, <2>1, DroppedRow, ClaimedRow DEF ShapedRow
<1> QED
  BY <1>1, <1>2, <1>4, <1>5 DEF RowsTyped, ShapedRow

LEMMA ActivateRows ==
  ASSUME TypeOK, NEW w \in Runner, NEW d \in runner[w].queue,
         runner[w].pc = "batch", Owns(w, d),
         outbox' = [outbox EXCEPT ![d] = [@ EXCEPT
           !.link = runner[w].claim, !.fresh = TRUE, !.consumed = FALSE]]
  PROVE  /\ RowsTyped' /\ d \in Delivery
         /\ outbox[d].status = "processing" /\ outbox'[d].status = "processing"
         /\ outbox'[d].recipient = outbox[d].recipient
         /\ outbox'[d].claim = outbox[d].claim
         /\ outbox'[d].link = outbox[d].claim /\ ~outbox'[d].consumed
         /\ \A e \in Delivery : e # d => outbox'[e] = outbox[e]
<1>1. d \in Delivery /\ runner[w].claim \in Claim
  BY DEF TypeOK, RunnerState, RunnerShape
<1> DEFINE q == [outbox[d] EXCEPT
                   !.link = runner[w].claim, !.fresh = TRUE, !.consumed = FALSE]
<1>2. /\ ShapedRow(q)
      /\ q.status = "processing" /\ q.recipient = outbox[d].recipient
      /\ q.claim = outbox[d].claim /\ q.link = runner[w].claim /\ ~q.consumed
  BY <1>1, ActivatedRow DEF TypeOK, Owns
<1>3. outbox' = [outbox EXCEPT ![d] = q]
  OBVIOUS
<1> HIDE DEF q
<1> QED
  BY <1>1, <1>2, <1>3, SetRow DEF TypeOK, RowsTyped, Owns

LEMMA DropRows ==
  ASSUME TypeOK, NEW d \in Delivery, outbox[d].status = "processing",
         NEW s \in {"pending", "dead"},
         outbox' = [outbox EXCEPT ![d] = Dropped(@, s)]
  PROVE  /\ RowsTyped'
         /\ outbox'[d] = Dropped(outbox[d], s)
         /\ \A e \in Delivery : e # d => outbox'[e] = outbox[e]
BY DroppedRow, SetRow DEF TypeOK, RowsTyped

-----------------------------------------------------------------------------
(***************************************************************************)
(* Every action keeps the invariant.                                       *)
(***************************************************************************)

\* Only a request adds to what is live.
KeepsLive ==
  \A d \in Delivery : /\ outbox'[d].recipient = outbox[d].recipient
                      /\ Live(outbox'[d]) => Live(outbox[d])

LEMMA OneLiveKept == OneLive /\ KeepsLive => OneLive'
BY DEF OneLive, KeepsLive

LEMMA InvariantParts ==
  ASSUME DeliveryInvariant
  PROVE  /\ TypeOK /\ OneLive
         /\ RowsTyped /\ RunnersTyped /\ RestTyped
         /\ \A d \in Delivery : RowOK(d)
         /\ \A w \in Runner : RunnerOK(w)
BY TypeParts DEF DeliveryInvariant

LEMMA InvariantPartsNext ==
  ASSUME RowsTyped', RunnersTyped', RestTyped', OneLive',
         \A d \in Delivery : RowOK(d)', \A w \in Runner : RunnerOK(w)'
  PROVE  DeliveryInvariant'
BY TypePartsNext DEF DeliveryInvariant

LEMMA InvariantInit == Init => DeliveryInvariant
<1> SUFFICES ASSUME Init PROVE DeliveryInvariant
  OBVIOUS
<1>1. TypeOK
  BY TypeInit
<1>2. \A d \in Delivery : outbox[d].status = "unused" /\ grants[d] = 0
  BY NoRowShaped DEF Init
<1>3. \A w \in Runner : runner[w].pc = "idle"
  BY IdleRunnerShaped DEF Init
<1> QED
  BY <1>1, <1>2, <1>3 DEF DeliveryInvariant, OneLive, Live, RowOK, RunnerOK

LEMMA RequestKeeps ==
  ASSUME DeliveryInvariant, NEW r \in Recipient, Request(r)
  PROVE  DeliveryInvariant'
<1>0. /\ TypeOK /\ OneLive
      /\ RowsTyped /\ RunnersTyped /\ RestTyped
      /\ \A d \in Delivery : RowOK(d)
      /\ \A w \in Runner : RunnerOK(w)
  BY InvariantParts
<1>1. PICK n \in Delivery :
        /\ RowsTyped' /\ outbox[n].status = "unused"
        /\ outbox'[n] = NewRow(r)
        /\ \A d \in Delivery : d # n =>
             outbox'[d] = IF outbox[d].recipient = r THEN Superseded(outbox[d])
                          ELSE outbox[d]
  BY <1>0, RequestRows
<1>2. UNCHANGED <<runner, mailbox, grants, faults>>
  BY DEF Request
<1>3. ASSUME NEW d \in Delivery, d # n
      PROVE  /\ outbox'[d].recipient = outbox[d].recipient
             /\ Live(outbox'[d]) => Live(outbox[d])
             /\ Live(outbox'[d]) => outbox[d].recipient # r
             /\ RowOK(d)'
  <2>1. outbox[d] \in Row /\ RowShape(outbox[d]) /\ RowOK(d)
    BY <1>0 DEF RowsTyped
  <2>2. CASE outbox[d].recipient # r
    BY <1>1, <1>2, <1>3, <2>1, <2>2 DEF RowOK
  <2>3. CASE outbox[d].recipient = r /\ outbox[d].status \in {"pending", "processing"}
    <3>1. outbox'[d] = Dropped(outbox[d], "superseded")
      BY <1>1, <1>3, <2>1, <2>3, SupersededRow
    <3>2. outbox'[d].status = "superseded"
          /\ outbox'[d].recipient = outbox[d].recipient
      BY <2>1, <3>1, DroppedRow
    <3> QED
      BY <1>2, <2>1, <2>3, <3>2 DEF RowOK, Live
  <2>4. CASE outbox[d].recipient = r /\ outbox[d].status = "sent"
    <3>1. outbox'[d] = [outbox[d] EXCEPT !.consumed = TRUE]
      BY <1>1, <1>3, <2>1, <2>4, SupersededRow
    <3>2. /\ outbox'[d].status = "sent" /\ outbox'[d].consumed
          /\ outbox'[d].recipient = outbox[d].recipient
          /\ outbox'[d].link = outbox[d].link
      BY <2>1, <2>4, <3>1, ConsumedRow
    <3> QED
      BY <1>2, <2>1, <2>4, <3>2 DEF RowOK, Live
  <2>5. CASE outbox[d].recipient = r
             /\ outbox[d].status \notin {"pending", "processing", "sent"}
    <3>1. outbox'[d] = outbox[d]
      BY <1>1, <1>3, <2>1, <2>5, SupersededRow
    <3> QED
      BY <1>2, <2>1, <2>5, <3>1 DEF RowOK, Live
  <2> QED
    BY <2>2, <2>3, <2>4, <2>5
<1>4. outbox'[n].recipient = r /\ RowOK(n)'
  BY <1>0, <1>1, <1>2, NewRowShaped DEF RowOK
<1>5. OneLive'
  BY <1>0, <1>1, <1>3, <1>4 DEF OneLive
<1>6. RunnersTyped' /\ RestTyped' /\ \A w \in Runner : RunnerOK(w)'
  BY <1>0, <1>2 DEF RunnersTyped, RestTyped, RunnerOK
<1>7. \A d \in Delivery : RowOK(d)'
  BY <1>3, <1>4
<1> QED
  BY <1>1, <1>5, <1>6, <1>7, InvariantPartsNext

\* The facts a step about one row d establishes; the other rows stay as they are.
LEMMA OneRowKeeps ==
  ASSUME DeliveryInvariant, NEW d \in Delivery, RowsTyped', RunnersTyped', RestTyped',
         \A e \in Delivery : e # d => outbox'[e] = outbox[e],
         \A e \in Delivery : e # d => grants'[e] = grants[e],
         mailbox \subseteq mailbox',
         outbox'[d].recipient = outbox[d].recipient \/ outbox'[d].status = "unused",
         Live(outbox'[d]) => Live(outbox[d]),
         RowOK(d)',
         \A w \in Runner : RunnerOK(w)'
  PROVE  DeliveryInvariant'
<1>1. OneLive /\ \A e \in Delivery : RowOK(e)
  BY DEF DeliveryInvariant
<1>2. OneLive'
  BY <1>1 DEF OneLive, Live
<1>3. \A e \in Delivery : RowOK(e)'
  BY <1>1 DEF RowOK
<1> QED
  BY <1>2, <1>3, InvariantPartsNext

LEMMA RedeemKeeps ==
  ASSUME DeliveryInvariant, NEW d \in Delivery, Redeem(d)
  PROVE  DeliveryInvariant'
<1>0. /\ TypeOK /\ RowsTyped /\ RunnersTyped /\ RestTyped /\ RowOK(d)
      /\ \A w \in Runner : RunnerOK(w)
  BY InvariantParts
<1>1. /\ RowsTyped' /\ outbox'[d] = Redeemed(outbox[d])
      /\ \A e \in Delivery : e # d => outbox'[e] = outbox[e]
  BY <1>0, RedeemRows
<1>2. /\ Redeemable(outbox[d]) /\ <<d, outbox[d].link>> \in mailbox
      /\ grants' = [grants EXCEPT ![d] = @ + 1]
      /\ UNCHANGED <<runner, mailbox, faults>>
  BY DEF Redeem
<1>3. /\ outbox'[d].status = "sent" /\ outbox'[d].consumed
      /\ outbox'[d].recipient = outbox[d].recipient
      /\ outbox'[d].link = outbox[d].link
  BY <1>0, <1>1, <1>2, RedeemedRow DEF RowsTyped
<1>4. grants[d] = 0 /\ grants'[d] = 1
      /\ \A e \in Delivery : e # d => grants'[e] = grants[e]
  BY <1>0, <1>2 DEF RowOK, Redeemable, RestTyped
<1>5. RunnersTyped' /\ RestTyped' /\ \A w \in Runner : RunnerOK(w)'
  BY <1>0, <1>2 DEF RunnersTyped, RestTyped, RunnerOK
<1>6. RowOK(d)' /\ (Live(outbox'[d]) => Live(outbox[d]))
  BY <1>2, <1>3, <1>4 DEF RowOK, Live
<1> QED
  BY <1>1, <1>2, <1>3, <1>4, <1>5, <1>6, OneRowKeeps

LEMMA ClaimKeeps ==
  ASSUME DeliveryInvariant, NEW w \in Runner, NEW S \in SUBSET Delivery,
         ClaimBatch(w, S)
  PROVE  DeliveryInvariant'
<1>0. /\ TypeOK /\ OneLive /\ RowsTyped /\ RunnersTyped /\ RestTyped
      /\ \A d \in Delivery : RowOK(d)
      /\ \A v \in Runner : RunnerOK(v)
  BY InvariantParts
<1>1. PICK t \in Claim :
        /\ t = FreshClaim /\ t \notin ClaimsInUse
        /\ \A d \in Delivery :
             \/ outbox'[d] = outbox[d]
             \/ outbox[d].status = "processing"
                /\ outbox'[d] = Dropped(outbox[d], "dead")
             \/ outbox[d].status \in {"pending", "processing"}
                /\ outbox[d].attempts < MaxAttempts
                /\ outbox'[d] = Claimed(outbox[d], t)
  BY ClaimRows
<1>2. mailbox' = {m \in mailbox : m[2] # t} /\ UNCHANGED <<grants, faults>>
  BY <1>1 DEF ClaimBatch
<1>3. runner' = IF S = {} THEN runner
                ELSE [runner EXCEPT ![w] = [IdleRunner EXCEPT
                       !.pc = "batch", !.claim = t, !.queue = S]]
  BY <1>1 DEF ClaimBatch
<1>4. RunnersTyped' /\ \A v \in Runner :
        runner'[v] = runner[v] \/ runner'[v].pc = "batch"
  <2> DEFINE q == [IdleRunner EXCEPT !.pc = "batch", !.claim = t, !.queue = S]
  <2>1. ShapedRunner(q) /\ q.pc = "batch"
    BY IdleRunnerShaped DEF ShapedRunner, RunnerState, RunnerShape
  <2> HIDE DEF q
  <2>2. CASE S = {}
    BY <1>0, <1>3, <2>2 DEF RunnersTyped
  <2>3. CASE S # {}
    <3>1. runner' = [runner EXCEPT ![w] = q]
      BY <1>3, <2>3 DEF q
    <3> QED
      BY <1>0, <2>1, <3>1, SetRunner
  <2> QED
    BY <2>2, <2>3
<1>5. \A v \in Runner : RunnerOK(v)'
  <2> SUFFICES ASSUME NEW v \in Runner, runner'[v].pc = "mailed"
               PROVE  <<runner'[v].delivery, runner'[v].claim>> \in mailbox'
    BY DEF RunnerOK
  <2>1. runner'[v] = runner[v]
    BY <1>4
  <2>2. runner[v].claim # t
    BY <1>1 DEF ClaimsInUse
  <2> QED
    BY <1>0, <1>2, <2>1, <2>2 DEF RunnerOK
<1>6. ASSUME NEW d \in Delivery
      PROVE  /\ outbox'[d].recipient = outbox[d].recipient
             /\ Live(outbox'[d]) => Live(outbox[d])
             /\ RowOK(d)'
  <2>1. outbox[d] \in Row /\ RowShape(outbox[d]) /\ RowOK(d)
    BY <1>0 DEF RowsTyped
  <2>2. CASE outbox'[d] = outbox[d]
    <3>1. outbox[d].link # t
      BY <1>1 DEF ClaimsInUse
    <3> QED
      BY <1>2, <2>1, <2>2, <3>1 DEF RowOK
  <2>3. CASE outbox[d].status = "processing" /\ outbox'[d] = Dropped(outbox[d], "dead")
    BY <1>2, <2>1, <2>3, DroppedRow DEF RowOK, Live
  <2>4. CASE outbox[d].status \in {"pending", "processing"}
             /\ outbox[d].attempts < MaxAttempts
             /\ outbox'[d] = Claimed(outbox[d], t)
    BY <1>2, <2>1, <2>4, ClaimedRow DEF RowOK, Live
  <2> QED
    BY <1>1, <2>2, <2>3, <2>4
<1>7. OneLive'
  BY <1>0, <1>6, OneLiveKept DEF KeepsLive
<1>8. RowsTyped' /\ RestTyped'
  BY <1>0, <1>2, ClaimRows DEF RestTyped
<1> QED
  BY <1>4, <1>5, <1>6, <1>7, <1>8, InvariantPartsNext

LEMMA StoppedKeeps ==
  ASSUME DeliveryInvariant, NEW w \in Runner,
         runner' = [runner EXCEPT ![w] = StoppedRunner]
                   \/ runner' = [runner EXCEPT ![w] = IdleRunner],
         UNCHANGED <<outbox, mailbox, grants>>, faults' \in 0..MaxFaults
  PROVE  DeliveryInvariant'
<1>1. RunnersTyped' /\ \A v \in Runner : RunnerOK(v)'
  BY InvariantParts, IdleRunnerShaped, SetRunner DEF RunnerOK
<1>2. /\ RowsTyped' /\ RestTyped' /\ OneLive'
      /\ \A d \in Delivery : RowOK(d)'
  BY InvariantParts DEF RowsTyped, RestTyped, OneLive, RowOK
<1> QED
  BY <1>1, <1>2, InvariantPartsNext

LEMMA ActivateKeeps ==
  ASSUME DeliveryInvariant, NEW w \in Runner, Activate(w)
  PROVE  DeliveryInvariant'
<1>0. /\ TypeOK /\ RowsTyped /\ RunnersTyped /\ RestTyped
      /\ \A d \in Delivery : RowOK(d)
      /\ \A v \in Runner : RunnerOK(v)
  BY InvariantParts
<1>1. PICK d \in runner[w].queue :
        \/ /\ Owns(w, d)
           /\ outbox' = [outbox EXCEPT ![d] = [@ EXCEPT
                !.link = runner[w].claim, !.fresh = TRUE, !.consumed = FALSE]]
           /\ runner' = [runner EXCEPT ![w].pc = "sending", ![w].delivery = d]
        \/ runner' = [runner EXCEPT ![w] = StoppedRunner] /\ UNCHANGED outbox
  BY DEF Activate
<1>2. runner[w].pc = "batch" /\ UNCHANGED <<mailbox, grants, faults>>
  BY DEF Activate
<1>3. CASE runner' = [runner EXCEPT ![w] = StoppedRunner] /\ UNCHANGED outbox
  BY <1>0, <1>2, <1>3, StoppedKeeps DEF RestTyped
<1>4. CASE /\ Owns(w, d)
           /\ outbox' = [outbox EXCEPT ![d] = [@ EXCEPT
                !.link = runner[w].claim, !.fresh = TRUE, !.consumed = FALSE]]
           /\ runner' = [runner EXCEPT ![w].pc = "sending", ![w].delivery = d]
  <2>1. /\ RowsTyped' /\ d \in Delivery
        /\ outbox[d].status = "processing" /\ outbox'[d].status = "processing"
        /\ outbox'[d].recipient = outbox[d].recipient
        /\ outbox'[d].claim = outbox[d].claim
        /\ outbox'[d].link = outbox[d].claim /\ ~outbox'[d].consumed
        /\ \A e \in Delivery : e # d => outbox'[e] = outbox[e]
    BY <1>0, <1>2, <1>4, ActivateRows
  <2>2. RunnersTyped' /\ \A v \in Runner : RunnerOK(v)'
    <3> DEFINE q == [runner[w] EXCEPT !.pc = "sending", !.delivery = d]
    <3>1. ShapedRunner(q) /\ q.pc = "sending"
      BY <1>0, <1>2, <2>1 DEF RunnersTyped, ShapedRunner, RunnerState, RunnerShape
    <3>2. runner' = [runner EXCEPT ![w] = q]
      BY <1>0, <1>4 DEF RunnersTyped
    <3> HIDE DEF q
    <3>3. RunnersTyped' /\ runner'[w].pc = "sending"
          /\ \A v \in Runner : v # w => runner'[v] = runner[v]
      BY <1>0, <3>1, <3>2, SetRunner
    <3> QED
      BY <1>0, <1>2, <3>3 DEF RunnerOK
  <2>3. RestTyped' /\ RowOK(d)' /\ Live(outbox[d])
    BY <1>0, <1>2, <2>1 DEF RestTyped, RowOK, Live
  <2> QED
    BY <1>2, <2>1, <2>2, <2>3, OneRowKeeps
<1> QED
  BY <1>1, <1>3, <1>4

LEMMA SendKeeps ==
  ASSUME DeliveryInvariant, NEW w \in Runner, Send(w)
  PROVE  DeliveryInvariant'
<1>0. /\ RowsTyped /\ RunnersTyped /\ RestTyped /\ OneLive
      /\ \A d \in Delivery : RowOK(d)
      /\ \A v \in Runner : RunnerOK(v)
  BY InvariantParts
<1>1. runner[w].pc = "sending" /\ UNCHANGED <<outbox, grants, faults>>
  BY DEF Send
<1> DEFINE mail == <<runner[w].delivery, runner[w].claim>>
<1>2. PICK pc \in {"mailed", "unsent"} :
        /\ runner' = [runner EXCEPT ![w].pc = pc]
        /\ mailbox \subseteq mailbox' /\ mailbox' \subseteq mailbox \cup {mail}
        /\ pc = "mailed" => mail \in mailbox'
  <2>1. ASSUME mailbox' = mailbox \cup {mail},
               NEW pc \in {"mailed", "unsent"}, runner' = [runner EXCEPT ![w].pc = pc]
        PROVE  /\ mailbox \subseteq mailbox' /\ mailbox' \subseteq mailbox \cup {mail}
               /\ pc = "mailed" => mail \in mailbox'
    BY <2>1
  <2>2. ASSUME UNCHANGED mailbox
        PROVE  mailbox \subseteq mailbox' /\ mailbox' \subseteq mailbox \cup {mail}
    BY <2>2
  <2> QED
    BY <2>1, <2>2, Zenon DEF Send
<1>3. mail \in Delivery \X Claim /\ mailbox \subseteq mailbox'
  BY <1>0, <1>1, <1>2 DEF RunnersTyped, RunnerState, RunnerShape
<1>4. /\ RunnersTyped'
      /\ \A v \in Runner : v # w => runner'[v] = runner[v]
      /\ runner'[w].pc = pc /\ runner'[w].delivery = runner[w].delivery
      /\ runner'[w].claim = runner[w].claim
  <2> DEFINE q == [runner[w] EXCEPT !.pc = pc]
  <2>1. ShapedRunner(q) /\ q.pc = pc /\ q.delivery = runner[w].delivery
        /\ q.claim = runner[w].claim
    BY <1>0, <1>1 DEF RunnersTyped, ShapedRunner, RunnerState, RunnerShape
  <2>2. runner' = [runner EXCEPT ![w] = q]
    BY <1>0, <1>2 DEF RunnersTyped
  <2> HIDE DEF q
  <2> QED
    BY <1>0, <2>1, <2>2, SetRunner
<1>5. \A v \in Runner : RunnerOK(v)'
  BY <1>0, <1>2, <1>3, <1>4 DEF RunnerOK
<1>6. /\ RowsTyped' /\ RestTyped' /\ OneLive'
      /\ \A d \in Delivery : RowOK(d)'
  BY <1>0, <1>1, <1>2, <1>3 DEF RowsTyped, RestTyped, OneLive, RowOK
<1> QED
  BY <1>4, <1>5, <1>6, InvariantPartsNext

\* A runner that records a result and goes on.
LEMMA GoesOn ==
  ASSUME DeliveryInvariant, NEW w \in Runner, Proceed(w), UNCHANGED mailbox,
         runner[w].pc \in {"mailed", "unsent"}
  PROVE  RunnersTyped' /\ \A v \in Runner : RunnerOK(v)'
<1>1. runner[w].claim \in Claim
  BY DEF DeliveryInvariant, TypeOK, RunnerShape
<1> QED
  BY <1>1, InvariantParts, ProceedRunner DEF RunnerOK

LEMMA CompleteKeeps ==
  ASSUME DeliveryInvariant, NEW w \in Runner, Complete(w)
  PROVE  DeliveryInvariant'
<1>0. /\ TypeOK /\ RowsTyped /\ RestTyped /\ OneLive /\ RunnerOK(w)
      /\ \A d \in Delivery : RowOK(d)
  BY InvariantParts
<1> DEFINE d == runner[w].delivery
<1>1. /\ runner[w].pc = "mailed" /\ Proceed(w)
      /\ outbox' = IF Owns(w, d) /\ outbox[d].link # None
                   THEN [outbox EXCEPT ![d] = Sent(@)] ELSE outbox
      /\ UNCHANGED <<mailbox, grants, faults>>
  BY DEF Complete
<1>2. RunnersTyped' /\ RestTyped' /\ \A v \in Runner : RunnerOK(v)'
  BY <1>0, <1>1, GoesOn DEF RestTyped
<1>3. CASE UNCHANGED outbox
  BY <1>0, <1>1, <1>2, <1>3, InvariantPartsNext DEF RowsTyped, OneLive, RowOK
<1>4. CASE Owns(w, d) /\ outbox[d].link # None
  <2>1. PICK e \in Delivery : e = d
    BY <1>1 DEF DeliveryInvariant, TypeOK, RunnerState, RunnerShape
  <2>2. outbox[e].status = "processing" /\ outbox[e].claim = runner[w].claim
        /\ outbox[e].link # None /\ outbox' = [outbox EXCEPT ![e] = Sent(@)]
    BY <1>1, <1>4, <2>1 DEF Owns
  <2>3. <<e, outbox[e].link>> \in mailbox
    BY <1>0, <1>1, <2>1, <2>2 DEF RowOK, RunnerOK
  <2>4. /\ ShapedRow(Sent(outbox[e])) /\ Sent(outbox[e]).status = "sent"
        /\ Sent(outbox[e]).recipient = outbox[e].recipient
        /\ Sent(outbox[e]).link = outbox[e].link
    BY <1>0, <2>2, SentRow DEF RowsTyped
  <2>5. /\ RowsTyped' /\ outbox'[e] = Sent(outbox[e])
        /\ \A f \in Delivery : f # e => outbox'[f] = outbox[f]
    BY <1>0, <2>2, <2>4, SetRow
  <2>6. RowOK(e)' /\ Live(outbox[e])
    BY <1>0, <1>1, <2>2, <2>3, <2>4, <2>5 DEF RowOK, Live
  <2> HIDE DEF d
  <2> QED
    BY <1>1, <1>2, <2>4, <2>5, <2>6, OneRowKeeps
<1> QED
  BY <1>1, <1>3, <1>4

LEMMA RetryKeeps ==
  ASSUME DeliveryInvariant, NEW w \in Runner, Retry(w)
  PROVE  DeliveryInvariant'
<1>0. /\ TypeOK /\ RowsTyped /\ RestTyped /\ OneLive
      /\ \A d \in Delivery : RowOK(d)
  BY InvariantParts
<1> DEFINE d == runner[w].delivery
<1>1. /\ runner[w].pc = "unsent" /\ Proceed(w)
      /\ outbox' = IF Owns(w, d)
                   THEN [outbox EXCEPT ![d] = Dropped(@,
                           IF @.attempts >= MaxAttempts THEN "dead" ELSE "pending")]
                   ELSE outbox
      /\ UNCHANGED <<mailbox, grants, faults>>
  BY DEF Retry
<1>2. RunnersTyped' /\ RestTyped' /\ \A v \in Runner : RunnerOK(v)'
  BY <1>0, <1>1, GoesOn DEF RestTyped
<1>3. CASE UNCHANGED outbox
  BY <1>0, <1>1, <1>2, <1>3, InvariantPartsNext DEF RowsTyped, OneLive, RowOK
<1>4. CASE Owns(w, d)
  <2>1. PICK e \in Delivery : e = d
    BY <1>1 DEF DeliveryInvariant, TypeOK, RunnerState, RunnerShape
  <2>2. PICK s \in {"pending", "dead"} : outbox' = [outbox EXCEPT ![e] = Dropped(@, s)]
    BY <1>1, <1>4, <2>1
  <2>3. outbox[e].status = "processing"
    BY <1>4, <2>1 DEF Owns
  <2>4. /\ RowsTyped' /\ outbox'[e] = Dropped(outbox[e], s)
        /\ \A f \in Delivery : f # e => outbox'[f] = outbox[f]
    BY <1>0, <2>2, <2>3, DropRows
  <2>5. outbox'[e].recipient = outbox[e].recipient /\ outbox'[e].status = s
    BY <1>0, <2>4, DroppedRow DEF RowsTyped
  <2>6. RowOK(e)' /\ Live(outbox[e])
    BY <1>0, <1>1, <2>3, <2>5 DEF RowOK, Live
  <2> HIDE DEF d
  <2> QED
    BY <1>1, <1>2, <2>4, <2>5, <2>6, OneRowKeeps
<1> QED
  BY <1>1, <1>3, <1>4

LEMMA FailRestartKeeps ==
  ASSUME DeliveryInvariant, NEW w \in Runner, Fail(w) \/ Restart(w)
  PROVE  DeliveryInvariant'
BY InvariantParts, StoppedKeeps DEF Fail, Restart, RestTyped

LEMMA ExpiryKeeps ==
  ASSUME DeliveryInvariant, NEW d \in Delivery, LeaseExpires(d) \/ LinkExpires(d)
  PROVE  DeliveryInvariant'
<1>0. /\ RowsTyped /\ RunnersTyped /\ RestTyped
      /\ RowOK(d) /\ \A v \in Runner : RunnerOK(v)
  BY InvariantParts
<1>1. PICK q :
        /\ q = [outbox[d] EXCEPT !.leased = FALSE]
           \/ q = [outbox[d] EXCEPT !.fresh = FALSE]
        /\ outbox' = [outbox EXCEPT ![d] = q]
  BY <1>0 DEF LeaseExpires, LinkExpires, RowsTyped
<1>2. UNCHANGED <<runner, mailbox, grants, faults>>
  BY DEF LeaseExpires, LinkExpires
<1>3. /\ ShapedRow(q) /\ q.status = outbox[d].status /\ q.claim = outbox[d].claim
      /\ q.recipient = outbox[d].recipient
      /\ q.link = outbox[d].link /\ q.consumed = outbox[d].consumed
  <2>1. outbox[d] \in Row /\ RowShape(outbox[d])
    BY <1>0 DEF RowsTyped
  <2>2. CASE q = [outbox[d] EXCEPT !.leased = FALSE]
    BY <2>1, <2>2 DEF ShapedRow, Row, RowShape
  <2>3. CASE q = [outbox[d] EXCEPT !.fresh = FALSE]
    BY <2>1, <2>3 DEF ShapedRow, Row, RowShape
  <2> QED
    BY <1>1, <2>2, <2>3
<1>4. /\ RowsTyped' /\ outbox'[d] = q
      /\ \A e \in Delivery : e # d => outbox'[e] = outbox[e]
  BY <1>0, <1>1, <1>3, SetRow
<1>5. RunnersTyped' /\ RestTyped' /\ \A w \in Runner : RunnerOK(w)'
  BY <1>0, <1>2 DEF RunnersTyped, RestTyped, RunnerOK
<1>6. RowOK(d)' /\ (Live(outbox'[d]) => Live(outbox[d]))
  BY <1>0, <1>2, <1>3, <1>4 DEF RowOK, Live
<1> QED
  BY <1>2, <1>3, <1>4, <1>5, <1>6, OneRowKeeps

LEMMA PurgeKeeps ==
  ASSUME DeliveryInvariant, NEW d \in Delivery, Purge(d)
  PROVE  DeliveryInvariant'
<1>0. /\ RowsTyped /\ RunnersTyped /\ RestTyped
      /\ \A v \in Runner : RunnerOK(v)
  BY InvariantParts
<1>1. /\ RowsTyped' /\ outbox'[d] = NoRow
      /\ \A e \in Delivery : e # d => outbox'[e] = outbox[e]
  BY <1>0, NoRowShaped, SetRow DEF Purge
<1>2. /\ grants'[d] = 0 /\ \A e \in Delivery : e # d => grants'[e] = grants[e]
      /\ UNCHANGED <<runner, mailbox, faults>>
  BY <1>0 DEF Purge, RestTyped
<1>3. RunnersTyped' /\ RestTyped' /\ \A w \in Runner : RunnerOK(w)'
  BY <1>0, <1>2 DEF RunnersTyped, RestTyped, RunnerOK, Purge
<1>4. outbox'[d].status = "unused" /\ RowOK(d)' /\ ~Live(outbox'[d])
  BY <1>1, <1>2, NoRowShaped DEF RowOK, Live
<1> QED
  BY <1>1, <1>2, <1>3, <1>4, OneRowKeeps

LEMMA InvariantNext == DeliveryInvariant /\ [Next]_vars => DeliveryInvariant'
<1> SUFFICES ASSUME DeliveryInvariant, [Next]_vars
             PROVE  DeliveryInvariant'
  OBVIOUS
<1>1. CASE UNCHANGED vars
  BY <1>1, InvariantParts, InvariantPartsNext
     DEF vars, RowsTyped, RunnersTyped, RestTyped, OneLive, RowOK, RunnerOK
<1>2. CASE \E w \in Runner : ClaimDeliveries(w) \/ Deliver(w) \/ Fail(w) \/ Restart(w)
  BY <1>2, ClaimKeeps, ActivateKeeps, SendKeeps, CompleteKeeps, RetryKeeps,
     FailRestartKeeps DEF ClaimDeliveries, Deliver
<1>3. CASE Next /\ ~\E w \in Runner :
             ClaimDeliveries(w) \/ Deliver(w) \/ Fail(w) \/ Restart(w)
  BY <1>3, RequestKeeps, RedeemKeeps, ExpiryKeeps, PurgeKeeps DEF Next
<1> QED
  BY <1>1, <1>2, <1>3

LEMMA InvariantHolds == Spec => []DeliveryInvariant
BY InvariantInit, InvariantNext, PTL DEF Spec

-----------------------------------------------------------------------------
(***************************************************************************)
(* The safety properties.                                                  *)
(***************************************************************************)

\* The types and the CHECKs of magic_link_mail_outbox hold in every state.
THEOREM DeliveryTypeCorrect == Spec => []TypeOK
<1>1. DeliveryInvariant => TypeOK
  BY DEF DeliveryInvariant
<1> QED
  BY <1>1, InvariantHolds, PTL

\* A recipient has at most one usable link, whatever runners are at work.
THEOREM OneUsableLinkHolds == Spec => []OneUsableLink
<1>1. DeliveryInvariant => OneUsableLink
  BY DEF DeliveryInvariant, OneUsableLink, OneLive, Live, Redeemable
<1> QED
  BY <1>1, InvariantHolds, PTL

\* A request signs in at most once, through whichever attempt's link.
THEOREM OneLoginPerRequestHolds == Spec => []OneLoginPerRequest
<1>1. DeliveryInvariant => OneLoginPerRequest
  <2> SUFFICES ASSUME DeliveryInvariant, NEW d \in Delivery
               PROVE  grants[d] <= 1
    BY DEF OneLoginPerRequest
  <2>1. RowOK(d)
    BY InvariantParts
  <2> QED
    BY <2>1 DEF RowOK
<1> QED
  BY <1>1, InvariantHolds, PTL

\* A delivery recorded as sent accepts a link that its recipient was mailed.
THEOREM SentWasMailedHolds == Spec => []SentWasMailed
<1>1. DeliveryInvariant => SentWasMailed
  BY DEF DeliveryInvariant, SentWasMailed, RowOK
<1> QED
  BY <1>1, InvariantHolds, PTL

-----------------------------------------------------------------------------
(***************************************************************************)
(* No delivery is beyond the reach of the runners, and none is given up    *)
(* early: what DeliverySettles rests on.                                   *)
(***************************************************************************)

AttemptsOK(r) ==
  /\ r.status = "pending" => r.attempts < MaxAttempts
  /\ r.status = "dead" => r.attempts = MaxAttempts

DeliveryReachable ==
  \A d \in Delivery :
    /\ outbox[d].status = "pending" => d \in Available
    /\ outbox[d].status = "processing" =>
         outbox[d].leased \/ d \in Available \/ Swept(d).status = "dead"
    /\ outbox[d].status = "dead" => outbox[d].attempts = MaxAttempts

LEMMA DroppedAttempts ==
  ASSUME NEW r \in Row, NEW s \in {"pending", "dead", "superseded"}
  PROVE  Dropped(r, s).status = s /\ Dropped(r, s).attempts = r.attempts
BY DEF Row, Dropped

LEMMA SweptAttempts ==
  ASSUME DeliveryInvariant, NEW d \in Delivery, AttemptsOK(outbox[d])
  PROVE  AttemptsOK(Swept(d))
<1>1. outbox[d] \in Row /\ RowOK(d) /\ outbox[d].attempts \in 0..MaxAttempts
  BY DEF DeliveryInvariant, TypeOK, Row
<1>2. CASE Expired(d) /\ ~outbox[d].consumed /\ outbox[d].attempts >= MaxAttempts
  <2>1. Swept(d) = Dropped(outbox[d], "dead")
    BY <1>2 DEF Swept
  <2>2. outbox[d].attempts = MaxAttempts
    BY <1>1, <1>2, DeliveryAssumption
  <2> QED
    BY <1>1, <2>1, <2>2, DroppedAttempts DEF AttemptsOK
<1>3. CASE ~(Expired(d) /\ ~outbox[d].consumed /\ outbox[d].attempts >= MaxAttempts)
  <2>1. Swept(d) = outbox[d]
    BY <1>1, <1>3 DEF Swept, Expired, RowOK
  <2> QED
    BY <2>1
<1> QED
  BY <1>2, <1>3

LEMMA AttemptsStep ==
  ASSUME DeliveryInvariant, \A d \in Delivery : AttemptsOK(outbox[d]), [Next]_vars
  PROVE  \A d \in Delivery : AttemptsOK(outbox'[d])
<1>1. /\ TypeOK /\ outbox \in [Delivery -> Row]
      /\ \A d \in Delivery : RowShape(outbox[d]) /\ outbox[d].attempts \in 0..MaxAttempts
  BY DEF DeliveryInvariant, TypeOK, Row
<1>2. CASE UNCHANGED outbox
  BY <1>2
<1>3. ASSUME NEW d \in Delivery, NEW q, AttemptsOK(q), outbox' = [outbox EXCEPT ![d] = q]
      PROVE  \A e \in Delivery : AttemptsOK(outbox'[e])
  BY <1>1, <1>3
<1>4. ASSUME NEW r \in Recipient, Request(r) PROVE \A d \in Delivery : AttemptsOK(outbox'[d])
  <2>1. AttemptsOK(NewRow(r))
    <3>1. NewRow(r).status = "pending" /\ NewRow(r).attempts = NoRow.attempts
      BY NewRowShaped DEF NewRow, NoRow
    <3>2. NoRow.attempts = 0
      BY DEF NoRow
    <3> QED
      BY <3>1, <3>2, DeliveryAssumption DEF AttemptsOK
  <2>2. ASSUME NEW d \in Delivery PROVE AttemptsOK(Superseded(outbox[d]))
    <3>1. CASE outbox[d].status \in {"pending", "processing"}
      BY <1>1, <3>1, SupersededRow, DroppedAttempts DEF AttemptsOK
    <3>2. CASE outbox[d].status = "sent"
      BY <1>1, <3>2, SupersededRow, ConsumedRow DEF AttemptsOK
    <3>3. CASE outbox[d].status \notin {"pending", "processing", "sent"}
      BY <1>1, <3>3, SupersededRow
    <3> QED
      BY <3>1, <3>2, <3>3
  <2> QED
    BY <1>1, <1>4, <2>1, <2>2, RequestRows
<1>5. ASSUME NEW d \in Delivery, Redeem(d) PROVE \A e \in Delivery : AttemptsOK(outbox'[e])
  <2>1. AttemptsOK(Redeemed(outbox[d]))
    BY <1>1, <1>5, RedeemedRow DEF Redeem, AttemptsOK
  <2> QED
    BY <1>1, <1>5, <2>1, RedeemRows
<1>6. ASSUME NEW w \in Runner, NEW S \in SUBSET Delivery, ClaimBatch(w, S)
      PROVE  \A d \in Delivery : AttemptsOK(outbox'[d])
  <2>1. outbox' = [d \in Delivery |->
          IF d \in S THEN Claimed(outbox[d], FreshClaim) ELSE Swept(d)]
    BY <1>6 DEF ClaimBatch, Claimed
  <2>2. ASSUME NEW d \in S PROVE AttemptsOK(Claimed(outbox[d], FreshClaim))
    <3>1. outbox[d].attempts < MaxAttempts /\ FreshClaim \in Claim
      BY <1>6, FreshClaimIsFresh DEF ClaimBatch, Available
    <3> QED
      BY <1>1, <3>1, ClaimedRow DEF AttemptsOK
  <2> QED
    BY <2>1, <2>2, SweptAttempts
<1>7. ASSUME NEW w \in Runner, Activate(w) PROVE \A d \in Delivery : AttemptsOK(outbox'[d])
  <2>1. ASSUME NEW d \in runner[w].queue, Owns(w, d),
               outbox' = [outbox EXCEPT ![d] = [@ EXCEPT
                 !.link = runner[w].claim, !.fresh = TRUE, !.consumed = FALSE]]
        PROVE  \A e \in Delivery : AttemptsOK(outbox'[e])
    <3>1. /\ d \in Delivery /\ outbox'[d].status = "processing"
          /\ \A e \in Delivery : e # d => outbox'[e] = outbox[e]
      BY <1>1, <1>7, <2>1, ActivateRows DEF Activate
    <3> QED
      BY <3>1 DEF AttemptsOK
  <2> QED
    BY <1>2, <1>7, <2>1 DEF Activate
<1>8. ASSUME NEW w \in Runner, Complete(w) PROVE \A d \in Delivery : AttemptsOK(outbox'[d])
  <2> PICK d : d = runner[w].delivery
    OBVIOUS
  <2>1. d \in Delivery
    BY <1>1, <1>8 DEF Complete, TypeOK, RunnerState, RunnerShape
  <2>2. CASE outbox' = [outbox EXCEPT ![d] = Sent(outbox[d])] /\ outbox[d].link # None
    <3>1. AttemptsOK(Sent(outbox[d]))
      BY <1>1, <2>1, <2>2, SentRow DEF AttemptsOK
    <3> QED
      BY <1>3, <2>1, <2>2, <3>1
  <2> QED
    BY <1>1, <1>2, <1>8, <2>1, <2>2 DEF Complete
<1>9. ASSUME NEW w \in Runner, Retry(w) PROVE \A d \in Delivery : AttemptsOK(outbox'[d])
  <2> PICK d : d = runner[w].delivery
    OBVIOUS
  <2> PICK s : s = IF outbox[d].attempts >= MaxAttempts THEN "dead" ELSE "pending"
    OBVIOUS
  <2>1. d \in Delivery /\ s \in {"pending", "dead"}
    BY <1>1, <1>9 DEF Retry, TypeOK, RunnerState, RunnerShape
  <2>2. outbox[d].attempts \in 0..MaxAttempts
    BY <1>1, <2>1
  <2>3. /\ s = "pending" => outbox[d].attempts < MaxAttempts
        /\ s = "dead" => outbox[d].attempts = MaxAttempts
    BY <2>2, DeliveryAssumption
  <2>4. AttemptsOK(Dropped(outbox[d], s))
    BY <1>1, <2>1, <2>3, DroppedAttempts DEF AttemptsOK
  <2>5. UNCHANGED outbox \/ outbox' = [outbox EXCEPT ![d] = Dropped(outbox[d], s)]
    BY <1>1, <1>9, <2>1 DEF Retry
  <2> QED
    BY <1>2, <1>3, <2>1, <2>4, <2>5
<1>10. ASSUME NEW d \in Delivery, LeaseExpires(d) \/ LinkExpires(d)
       PROVE  \A e \in Delivery : AttemptsOK(outbox'[e])
  <2>1. \A e \in Delivery : outbox'[e].status = outbox[e].status
                            /\ outbox'[e].attempts = outbox[e].attempts
    BY <1>1, <1>10 DEF LeaseExpires, LinkExpires, Row
  <2> QED
    BY <2>1 DEF AttemptsOK
<1>11. ASSUME NEW d \in Delivery, Purge(d) PROVE \A e \in Delivery : AttemptsOK(outbox'[e])
  <2>1. AttemptsOK(NoRow)
    BY NoRowShaped DEF AttemptsOK
  <2> QED
    BY <1>3, <1>11, <2>1 DEF Purge
<1>12. ASSUME NEW w \in Runner, Send(w) \/ Fail(w) \/ Restart(w)
       PROVE  \A d \in Delivery : AttemptsOK(outbox'[d])
  BY <1>2, <1>12 DEF Send, Fail, Restart
<1>13. CASE UNCHANGED vars
  BY <1>2, <1>13 DEF vars
<1> QED
  BY <1>4, <1>5, <1>6, <1>7, <1>8, <1>9, <1>10, <1>11, <1>12, <1>13
     DEF Next, ClaimDeliveries, Deliver

\* A row of magic_link_mail_outbox that waits is claimable, a claimed one has
\* a live lease, can be claimed again or is about to be swept: none is stuck
\* between the guard of the claim, the sweep and the limit of a retry; and a
\* dead one has had all its attempts (RunOnce).
THEOREM NoDeliveryIsStuck == Spec => []DeliveryReachable
<1>1. Init => \A d \in Delivery : AttemptsOK(outbox[d])
  BY NoRowShaped DEF Init, AttemptsOK
<1>2. DeliveryInvariant /\ (\A d \in Delivery : AttemptsOK(outbox[d])) /\ [Next]_vars
        => (\A d \in Delivery : AttemptsOK(outbox[d]))'
  BY AttemptsStep
<1>3. DeliveryInvariant /\ (\A d \in Delivery : AttemptsOK(outbox[d])) => DeliveryReachable
  <2> SUFFICES ASSUME DeliveryInvariant, NEW d \in Delivery, AttemptsOK(outbox[d])
               PROVE  /\ outbox[d].status = "pending" => d \in Available
                      /\ outbox[d].status = "processing" =>
                           outbox[d].leased \/ d \in Available \/ Swept(d).status = "dead"
                      /\ outbox[d].status = "dead" => outbox[d].attempts = MaxAttempts
    BY DEF DeliveryReachable
  <2>1. /\ outbox[d] \in Row /\ RowOK(d) /\ outbox[d].attempts \in 0..MaxAttempts
        /\ outbox[d].leased \in BOOLEAN
    BY DEF DeliveryInvariant, TypeOK, Row
  <2>2. Expired(d) /\ ~(outbox[d].attempts < MaxAttempts) => Swept(d).status = "dead"
    <3>1. ASSUME Expired(d), ~(outbox[d].attempts < MaxAttempts)
          PROVE  Swept(d) = Dropped(outbox[d], "dead")
      BY <2>1, <3>1, DeliveryAssumption DEF Swept, Expired, RowOK
    <3> QED
      BY <2>1, <3>1, DroppedAttempts
  <2>3. outbox[d].status = "processing" => ~outbox[d].consumed
    BY <2>1 DEF RowOK
  <2> QED
    BY <2>2, <2>3 DEF AttemptsOK, Available, Expired
<1> QED
  BY <1>1, <1>2, <1>3, InvariantHolds, PTL DEF Spec

-----------------------------------------------------------------------------
(***************************************************************************)
(* MagicLinkDelivery implements SignIn: Request is Ask, Redeem is Use,     *)
(* Purge is Forget, and every other step is a Close of the requests that   *)
(* it ends, which may be none.                                             *)
(***************************************************************************)

LEMMA StandingFacts ==
  ASSUME DeliveryInvariant, NEW d \in Delivery
  PROVE  /\ grants[d] \in Nat
         /\ outbox[d].status = "unused" => Standing(d) = "none" /\ grants[d] = 0
         /\ outbox[d].status \in {"pending", "processing"} =>
              Standing(d) = "open" /\ grants[d] = 0
         /\ outbox[d].status \in {"dead", "superseded"} => Standing(d) = "closed"
         /\ outbox[d].status = "sent" =>
              /\ grants[d] # 0 => Standing(d) = "used"
              /\ grants[d] = 0 /\ Redeemable(outbox[d]) => Standing(d) = "open"
              /\ grants[d] = 0 /\ ~Redeemable(outbox[d]) => Standing(d) = "closed"
         /\ Redeemable(outbox[d]) => Standing(d) = "open" /\ grants[d] = 0
         /\ outbox[d].status \in {"unused", "pending", "processing", "sent",
                                  "dead", "superseded"}
<1>1. RowOK(d) /\ grants[d] \in Nat /\ outbox[d] \in Row
  BY InvariantParts DEF RowsTyped, RestTyped
<1>2. grants[d] > 0 <=> grants[d] # 0
  BY <1>1
<1> QED
  BY <1>1, <1>2 DEF Standing, Redeemable, RowOK, Row

LEMMA StandingFactsNext ==
  ASSUME DeliveryInvariant', NEW d \in Delivery
  PROVE  /\ outbox'[d].status = "unused" => Standing(d)' = "none"
         /\ outbox'[d].status \in {"pending", "processing"} => Standing(d)' = "open"
         /\ outbox'[d].status \in {"dead", "superseded"} => Standing(d)' = "closed"
         /\ outbox'[d].status = "sent" =>
              /\ grants'[d] # 0 => Standing(d)' = "used"
              /\ grants'[d] = 0 /\ Redeemable(outbox'[d]) => Standing(d)' = "open"
              /\ grants'[d] = 0 /\ ~Redeemable(outbox'[d]) => Standing(d)' = "closed"
<1>1. RowOK(d)' /\ grants'[d] \in Nat /\ outbox'[d] \in Row
  BY TypePartsNext DEF DeliveryInvariant, RowsTyped, RestTyped
<1>2. grants'[d] > 0 <=> grants'[d] # 0
  BY <1>1
<1> QED
  BY <1>1, <1>2 DEF Standing, Redeemable, RowOK, Row

\* A request that is open may be closed by the step.
Lapses(d) == \/ Standing(d)' = Standing(d)
             \/ Standing(d) = "open" /\ Standing(d)' = "closed"

LEMMA CloseStep ==
  ASSUME UNCHANGED grants,
         \A d \in Delivery : outbox'[d].recipient = outbox[d].recipient,
         \A d \in Delivery : Lapses(d)
  PROVE  SignInAbstract!Next
<1> DEFINE D == {d \in Delivery : Standing(d) = "open" /\ Standing(d)' = "closed"}
<1>1. \A d \in D : Standings[d] = "open"
  BY DEF Standings
<1>2. Standings' = [d \in Delivery |-> IF d \in D THEN "closed" ELSE Standings[d]]
  BY DEF Standings, Lapses
<1>3. UNCHANGED Owner
  BY DEF Owner
<1>4. D \in SUBSET Delivery
  OBVIOUS
<1> HIDE DEF D
<1>5. SignInAbstract!Close(D)
  BY <1>1, <1>2, <1>3 DEF SignInAbstract!Close
<1> QED
  BY <1>4, <1>5 DEF SignInAbstract!Next

LEMMA SameRowLapses ==
  ASSUME NEW d \in Delivery, outbox'[d] = outbox[d], grants'[d] = grants[d]
  PROVE  Lapses(d)
BY DEF Lapses, Standing, Redeemable

LEMMA RequestMaps ==
  ASSUME DeliveryInvariant, DeliveryInvariant', NEW r \in Recipient, Request(r)
  PROVE  SignInAbstract!Next
<1>0. TypeOK /\ RowsTyped /\ RestTyped
  BY InvariantParts
<1>1. PICK n \in Delivery :
        /\ outbox[n].status = "unused"
        /\ outbox'[n] = NewRow(r)
        /\ \A d \in Delivery : d # n =>
             outbox'[d] = IF outbox[d].recipient = r THEN Superseded(outbox[d])
                          ELSE outbox[d]
  BY <1>0, RequestRows
<1>2. UNCHANGED grants
  BY DEF Request
<1>3. ASSUME NEW d \in Delivery, d # n
      PROVE  /\ outbox'[d].recipient = outbox[d].recipient
             /\ Standing(d)' = IF outbox[d].recipient = r /\ Standing(d) = "open"
                               THEN "closed" ELSE Standing(d)
  <2>1. outbox[d] \in Row /\ RowShape(outbox[d])
    BY <1>0 DEF RowsTyped
  <2>2. CASE outbox'[d] = outbox[d] /\ outbox[d].recipient # r
    BY <1>2, <2>2 DEF Standing
  <2>3. CASE outbox[d].recipient = r /\ outbox[d].status \in {"pending", "processing"}
    <3>1. outbox'[d] = Dropped(outbox[d], "superseded")
      BY <1>1, <1>3, <2>1, <2>3, SupersededRow
    <3>2. outbox'[d].status = "superseded"
          /\ outbox'[d].recipient = outbox[d].recipient
      BY <2>1, <3>1, DroppedRow
    <3> QED
      BY <2>3, <3>2, StandingFacts, StandingFactsNext
  <2>4. CASE outbox[d].recipient = r /\ outbox[d].status = "sent"
    <3>1. outbox'[d] = [outbox[d] EXCEPT !.consumed = TRUE]
      BY <1>1, <1>3, <2>1, <2>4, SupersededRow
    <3>2. /\ outbox'[d].status = "sent" /\ outbox'[d].consumed
          /\ outbox'[d].recipient = outbox[d].recipient
      BY <2>1, <2>4, <3>1, ConsumedRow
    <3>3. ~Redeemable(outbox'[d])
      BY <3>2 DEF Redeemable
    <3> QED
      BY <1>2, <2>4, <3>2, <3>3, StandingFacts, StandingFactsNext
  <2>5. CASE outbox[d].recipient = r
             /\ outbox[d].status \notin {"pending", "processing", "sent"}
    <3>1. outbox'[d] = outbox[d]
      BY <1>1, <1>3, <2>1, <2>5, SupersededRow
    <3> QED
      BY <2>5, <3>1, StandingFacts, StandingFactsNext
  <2> QED
    BY <1>1, <1>3, <2>2, <2>3, <2>4, <2>5
<1>4. /\ outbox'[n].recipient = r
      /\ Standing(n) = "none" /\ Standing(n)' = "open" /\ grants[n] = 0
  BY <1>1, NewRowShaped, StandingFacts, StandingFactsNext
<1>5. Standings[n] = "none" /\ Owner' = [Owner EXCEPT ![n] = r]
  BY <1>3, <1>4 DEF Standings, Owner
<1>6. Standings' = [e \in Delivery |->
        IF e = n THEN "open"
        ELSE IF Owner[e] = r /\ Standings[e] = "open" THEN "closed"
        ELSE Standings[e]]
  BY <1>3, <1>4 DEF Standings, Owner
<1>7. grants' = [grants EXCEPT ![n] = 0]
  BY <1>0, <1>2, <1>4 DEF RestTyped
<1>8. SignInAbstract!Ask(r, n)
  BY <1>5, <1>6, <1>7 DEF SignInAbstract!Ask
<1> QED
  BY <1>8 DEF SignInAbstract!Next

LEMMA RedeemMaps ==
  ASSUME DeliveryInvariant, DeliveryInvariant', NEW d \in Delivery, Redeem(d)
  PROVE  SignInAbstract!Next
<1>1. /\ outbox'[d] = Redeemed(outbox[d])
      /\ \A e \in Delivery : e # d => outbox'[e] = outbox[e]
  BY InvariantParts, RedeemRows
<1>2. Redeemable(outbox[d]) /\ grants' = [grants EXCEPT ![d] = @ + 1]
  BY DEF Redeem
<1>3. outbox'[d].status = "sent" /\ outbox'[d].recipient = outbox[d].recipient
  BY <1>1, <1>2, InvariantParts, RedeemedRow DEF RowsTyped
<1>4. grants[d] = 0 /\ grants'[d] = 1
      /\ \A e \in Delivery : e # d => grants'[e] = grants[e]
  BY <1>2, StandingFacts, InvariantParts DEF RestTyped
<1>5. Standing(d) = "open" /\ Standing(d)' = "used"
  BY <1>2, <1>3, <1>4, StandingFacts, StandingFactsNext
<1>6. \A e \in Delivery : e # d => Standing(e)' = Standing(e)
  BY <1>1, <1>4 DEF Standing
<1>7. UNCHANGED Owner
  BY <1>1, <1>3 DEF Owner
<1>8. Standings[d] = "open" /\ Standings' = [Standings EXCEPT ![d] = "used"]
  BY <1>5, <1>6 DEF Standings
<1>9. SignInAbstract!Use(d)
  BY <1>2, <1>7, <1>8 DEF SignInAbstract!Use
<1> QED
  BY <1>9 DEF SignInAbstract!Next

LEMMA PurgeMaps ==
  ASSUME DeliveryInvariant, DeliveryInvariant', NEW d \in Delivery, Purge(d)
  PROVE  SignInAbstract!Next
<1>1. /\ outbox'[d] = NoRow
      /\ \A e \in Delivery : e # d => outbox'[e] = outbox[e]
  BY InvariantParts, NoRowShaped, SetRow DEF Purge
<1>2. /\ outbox[d].status \in {"sent", "dead", "superseded"}
      /\ ~Redeemable(outbox[d])
      /\ grants' = [grants EXCEPT ![d] = 0]
  BY DEF Purge, Redeemable
<1>3. NoRow.recipient = None /\ NoRow.status = "unused"
  BY DEF NoRow
<1>4. \A e \in Delivery : e # d => grants'[e] = grants[e]
  BY <1>2, InvariantParts DEF RestTyped
<1>5. Standing(d) \in {"used", "closed"} /\ Standing(d)' = "none"
  BY <1>1, <1>2, <1>3, StandingFacts, StandingFactsNext
<1>6. \A e \in Delivery : e # d => Standing(e)' = Standing(e)
  BY <1>1, <1>4 DEF Standing
<1>7. Owner' = [Owner EXCEPT ![d] = None]
  BY <1>1, <1>3 DEF Owner
<1>8. Standings[d] \in {"used", "closed"}
      /\ Standings' = [Standings EXCEPT ![d] = "none"]
  BY <1>5, <1>6 DEF Standings
<1>9. SignInAbstract!Forget(d)
  BY <1>2, <1>7, <1>8 DEF SignInAbstract!Forget
<1> QED
  BY <1>9 DEF SignInAbstract!Next

LEMMA ClaimMaps ==
  ASSUME DeliveryInvariant, DeliveryInvariant',
         NEW w \in Runner, NEW S \in SUBSET Delivery, ClaimBatch(w, S)
  PROVE  SignInAbstract!Next
<1>1. UNCHANGED grants
  BY DEF ClaimBatch
<1>2. ASSUME NEW d \in Delivery
      PROVE  outbox'[d].recipient = outbox[d].recipient /\ Lapses(d)
  <2>1. outbox[d] \in Row
    BY InvariantParts DEF RowsTyped
  <2>2. CASE outbox'[d] = outbox[d]
    BY <1>1, <2>2, SameRowLapses
  <2>3. CASE outbox[d].status = "processing" /\ outbox'[d] = Dropped(outbox[d], "dead")
    BY <2>1, <2>3, DroppedRow, StandingFacts, StandingFactsNext DEF Lapses
  <2>4. CASE outbox[d].status \in {"pending", "processing"}
             /\ outbox[d].attempts < MaxAttempts
             /\ outbox'[d] = Claimed(outbox[d], FreshClaim)
    BY <2>1, <2>4, ClaimRows, ClaimedRow, StandingFacts, StandingFactsNext DEF Lapses
  <2> QED
    BY <2>2, <2>3, <2>4, ClaimRows
<1> QED
  BY <1>1, <1>2, CloseStep

\* A step about one row: what happens to that request decides.
LEMMA OneRowMaps ==
  ASSUME UNCHANGED grants, NEW d \in Delivery, Lapses(d),
         outbox'[d].recipient = outbox[d].recipient,
         \A e \in Delivery : e # d => outbox'[e] = outbox[e]
  PROVE  SignInAbstract!Next
<1>1. \A e \in Delivery : Lapses(e) /\ outbox'[e].recipient = outbox[e].recipient
  BY SameRowLapses
<1> QED
  BY <1>1, CloseStep

LEMMA ActivateMaps ==
  ASSUME DeliveryInvariant, DeliveryInvariant', NEW w \in Runner, Activate(w)
  PROVE  SignInAbstract!Next \/ UNCHANGED <<outbox, grants>>
<1> SUFFICES ASSUME NEW d \in runner[w].queue, Owns(w, d),
                    outbox' = [outbox EXCEPT ![d] = [@ EXCEPT
                      !.link = runner[w].claim, !.fresh = TRUE, !.consumed = FALSE]]
             PROVE  SignInAbstract!Next
  BY DEF Activate
<1>1. runner[w].pc = "batch" /\ UNCHANGED grants
  BY DEF Activate
<1>2. /\ d \in Delivery
      /\ outbox[d].status = "processing" /\ outbox'[d].status = "processing"
      /\ outbox'[d].recipient = outbox[d].recipient
      /\ \A e \in Delivery : e # d => outbox'[e] = outbox[e]
  BY <1>1, InvariantParts, ActivateRows
<1>3. Lapses(d)
  BY <1>2, StandingFacts, StandingFactsNext DEF Lapses
<1> QED
  BY <1>1, <1>2, <1>3, OneRowMaps

LEMMA CompleteMaps ==
  ASSUME DeliveryInvariant, DeliveryInvariant', NEW w \in Runner, Complete(w)
  PROVE  SignInAbstract!Next \/ UNCHANGED <<outbox, grants>>
<1>1. UNCHANGED grants
  BY DEF Complete
<1>2. PICK d \in Delivery : d = runner[w].delivery
  BY DEF Complete, DeliveryInvariant, TypeOK, RunnerState, RunnerShape
<1> SUFFICES ASSUME Owns(w, d), outbox[d].link # None,
                    outbox' = [outbox EXCEPT ![d] = Sent(@)]
             PROVE  SignInAbstract!Next
  BY <1>1, <1>2 DEF Complete
<1>3. outbox[d] \in Row /\ RowShape(outbox[d]) /\ RowsTyped
  BY InvariantParts DEF RowsTyped
<1>4. /\ outbox'[d] = Sent(outbox[d])
      /\ \A e \in Delivery : e # d => outbox'[e] = outbox[e]
  BY <1>3, SentRow, SetRow DEF ShapedRow
<1>5. outbox'[d].status = "sent" /\ outbox'[d].recipient = outbox[d].recipient
  BY <1>3, <1>4, SentRow
<1>6. Standing(d) = "open" /\ grants[d] = 0
  BY StandingFacts DEF Owns
<1>7. Lapses(d)
  BY <1>1, <1>5, <1>6, StandingFactsNext DEF Lapses
<1> QED
  BY <1>1, <1>4, <1>5, <1>7, OneRowMaps

LEMMA RetryMaps ==
  ASSUME DeliveryInvariant, DeliveryInvariant', NEW w \in Runner, Retry(w)
  PROVE  SignInAbstract!Next \/ UNCHANGED <<outbox, grants>>
<1>1. UNCHANGED grants
  BY DEF Retry
<1>2. PICK d \in Delivery : d = runner[w].delivery
  BY DEF Retry, DeliveryInvariant, TypeOK, RunnerState, RunnerShape
<1> SUFFICES ASSUME Owns(w, d), NEW s \in {"pending", "dead"},
                    outbox' = [outbox EXCEPT ![d] = Dropped(@, s)]
             PROVE  SignInAbstract!Next
  BY <1>1, <1>2 DEF Retry
<1>3. outbox[d] \in Row /\ TypeOK
  BY InvariantParts DEF RowsTyped
<1>4. /\ outbox'[d] = Dropped(outbox[d], s)
      /\ \A e \in Delivery : e # d => outbox'[e] = outbox[e]
  BY <1>3, DropRows DEF Owns
<1>5. outbox'[d].status = s /\ outbox'[d].recipient = outbox[d].recipient
  BY <1>3, <1>4, DroppedRow
<1>6. Lapses(d)
  BY <1>5, StandingFacts, StandingFactsNext DEF Lapses, Owns
<1> QED
  BY <1>1, <1>4, <1>5, <1>6, OneRowMaps

LEMMA ExpiryMaps ==
  ASSUME DeliveryInvariant, DeliveryInvariant', NEW d \in Delivery,
         LeaseExpires(d) \/ LinkExpires(d)
  PROVE  SignInAbstract!Next
<1>1. UNCHANGED grants
  BY DEF LeaseExpires, LinkExpires
<1>2. outbox[d] \in Row /\ outbox \in [Delivery -> Row]
  BY InvariantParts DEF RowsTyped
<1>3. \A e \in Delivery : e # d => outbox'[e] = outbox[e]
  BY <1>2 DEF LeaseExpires, LinkExpires
<1>4. /\ outbox'[d].status = outbox[d].status
      /\ outbox'[d].recipient = outbox[d].recipient
      /\ outbox'[d].link = outbox[d].link
      /\ outbox'[d].consumed = outbox[d].consumed
      /\ outbox'[d].fresh => outbox[d].fresh
  BY <1>2 DEF LeaseExpires, LinkExpires, Row
<1>5. Redeemable(outbox'[d]) => Redeemable(outbox[d])
  BY <1>4 DEF Redeemable
<1>6. Lapses(d)
  BY <1>1, <1>4, <1>5, StandingFacts, StandingFactsNext DEF Lapses
<1> QED
  BY <1>1, <1>3, <1>4, <1>6, OneRowMaps

LEMMA NextMaps ==
  ASSUME DeliveryInvariant, DeliveryInvariant', [Next]_vars
  PROVE  [SignInAbstract!Next]_(SignInAbstract!signInVars)
<1>1. ASSUME UNCHANGED <<outbox, grants>>
      PROVE  UNCHANGED SignInAbstract!signInVars
  BY <1>1 DEF SignInAbstract!signInVars, Owner, Standings, Standing
<1>2. CASE UNCHANGED vars
  BY <1>1, <1>2 DEF vars
<1>3. ASSUME NEW w \in Runner, Send(w) \/ Fail(w) \/ Restart(w)
      PROVE  UNCHANGED <<outbox, grants>>
  BY <1>3 DEF Send, Fail, Restart
<1>4. CASE \E w \in Runner : ClaimDeliveries(w) \/ Deliver(w) \/ Fail(w) \/ Restart(w)
  BY <1>1, <1>3, <1>4, ClaimMaps, ActivateMaps, CompleteMaps, RetryMaps
     DEF ClaimDeliveries, Deliver
<1>5. CASE Next /\ ~\E w \in Runner :
             ClaimDeliveries(w) \/ Deliver(w) \/ Fail(w) \/ Restart(w)
  BY <1>5, RequestMaps, RedeemMaps, ExpiryMaps, PurgeMaps DEF Next
<1> QED
  BY <1>2, <1>4, <1>5

\* The outbox, its runners and the API implement SignIn: a recipient can use
\* nothing but the last request, and that once.
THEOREM DeliveryImplementsSignIn == Spec => ImplementsSignIn
<1>1. Init => SignInAbstract!Init
  <2> SUFFICES ASSUME Init PROVE SignInAbstract!Init
    OBVIOUS
  <2>1. \A d \in Delivery : outbox[d].recipient = None /\ outbox[d].status = "unused"
    BY DEF Init, NoRow
  <2>2. Owner = [d \in Delivery |-> None] /\ Standings = [d \in Delivery |-> "none"]
    BY <2>1, InvariantInit, StandingFacts DEF Owner, Standings
  <2> QED
    BY <2>2 DEF SignInAbstract!Init, Init
<1> QED
  BY <1>1, InvariantHolds, NextMaps, PTL
     DEF Spec, ImplementsSignIn, SignInAbstract!Spec
=============================================================================
