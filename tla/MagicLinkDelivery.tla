-------------------------- MODULE MagicLinkDelivery --------------------------
(***************************************************************************)
(* Sign-in by mail: the API writes a delivery intent into the outbox, the  *)
(* worker's mail runner claims a batch, mints a link for each delivery,    *)
(* mails it and records the result, and the recipient redeems the link.    *)
(*                                                                         *)
(* One operator is one transaction.  A link is known by the claim under    *)
(* which it was minted, since a claim activates a delivery at most once.   *)
(* Time is abstracted: leases and links expire by steps of their own, and  *)
(* a lease of one minute for a batch of 25 mails may well expire while its *)
(* runner works.  Which deliveries a claim finds is a choice: the retry    *)
(* delay of some may not have passed, others are locked by a replica.      *)
(***************************************************************************)
EXTENDS Naturals, FiniteSets

CONSTANTS
  Recipient,    \* normalized mail addresses
  Delivery,     \* slots for outbox rows; one is reused once nobody knows it
  Runner,       \* mail runners, one per worker process
  Claim,        \* claim tokens
  Batch,        \* the runner's BatchSize
  MaxAttempts,  \* the runner's MaxAttempts
  MaxFaults,    \* bound: crashes and database errors in a behaviour
  None          \* "no value"

ASSUME DeliveryAssumption ==
  /\ Batch \in Nat \ {0}
  /\ MaxAttempts \in Nat \ {0}
  /\ MaxFaults \in Nat
  /\ None \notin Recipient
  /\ None \notin Delivery
  /\ None \notin Claim

VARIABLES
  outbox,    \* magic_link_mail_outbox
  runner,    \* what each mail runner is doing
  mailbox,   \* the links that reached a recipient
  grants,    \* history: the sessions granted for a delivery's links
  faults     \* faults so far

vars == <<outbox, runner, mailbox, grants, faults>>

(***************************************************************************)
(* leased is "lease_until > now", fresh "token_expires_at > now", link the *)
(* token hash.                                                             *)
(***************************************************************************)
Row ==
  [status : {"unused", "pending", "processing", "sent", "dead", "superseded"},
   recipient : Recipient \cup {None}, attempts : 0..MaxAttempts,
   claim : Claim \cup {None}, leased : BOOLEAN,
   link : Claim \cup {None}, fresh : BOOLEAN, consumed : BOOLEAN]

NoRow == [status |-> "unused", recipient |-> None, attempts |-> 0,
          claim |-> None, leased |-> FALSE,
          link |-> None, fresh |-> FALSE, consumed |-> FALSE]

RunnerState ==
  [pc : {"idle", "batch", "sending", "mailed", "unsent", "stopped"},
   claim : Claim \cup {None}, queue : SUBSET Delivery,
   delivery : Delivery \cup {None}]

IdleRunner == [pc |-> "idle", claim |-> None, queue |-> {}, delivery |-> None]

StoppedRunner == [IdleRunner EXCEPT !.pc = "stopped"]

Init ==
  /\ outbox = [d \in Delivery |-> NoRow]
  /\ runner = [w \in Runner |-> IdleRunner]
  /\ mailbox = {}
  /\ grants = [d \in Delivery |-> 0]
  /\ faults = 0

-----------------------------------------------------------------------------

ClaimsInUse ==
  {outbox[d].claim : d \in Delivery} \cup {outbox[d].link : d \in Delivery}
    \cup {runner[w].claim : w \in Runner}

FreshClaims == Claim \ ClaimsInUse

FreshClaim == CHOOSE t \in FreshClaims : TRUE

FreeDeliveries ==
  {d \in Delivery : outbox[d].status = "unused"
                    /\ \A w \in Runner : d \notin runner[w].queue}

FreeDelivery == CHOOSE d \in FreeDeliveries : TRUE

Expired(d) == outbox[d].status = "processing" /\ ~outbox[d].leased

\* Mutant: the token hash is kept.
DroppedKeepsLink(r, status) ==
  [r EXCEPT !.status = status, !.claim = None, !.leased = FALSE]

\* Every way out of a claim but "sent" clears claim and token.
Dropped(r, status) ==
  [r EXCEPT !.status = status, !.claim = None, !.leased = FALSE,
            !.link = None, !.fresh = FALSE, !.consumed = FALSE]

Sent(r) == [r EXCEPT !.status = "sent", !.claim = None, !.leased = FALSE]

-----------------------------------------------------------------------------
(***************************************************************************)
(* The API: SaveMagicLinkDeliveryIntent and ConsumeMagicLink.              *)
(***************************************************************************)

\* Mutant: links that were sent stay usable.
SupersededUnsent(r) ==
  IF r.status \in {"pending", "processing"} THEN Dropped(r, "superseded") ELSE r

Superseded(r) ==
  CASE r.status \in {"pending", "processing"} -> Dropped(r, "superseded")
    [] r.status = "sent"                      -> [r EXCEPT !.consumed = TRUE]
    [] OTHER                                  -> r

Request(r) ==
  /\ FreeDeliveries # {}
  /\ outbox' = [d \in Delivery |->
       IF d = FreeDelivery
       THEN [NoRow EXCEPT !.status = "pending", !.recipient = r]
       ELSE IF outbox[d].recipient = r THEN Superseded(outbox[d])
       ELSE outbox[d]]
  /\ UNCHANGED <<runner, mailbox, grants, faults>>

RedeemableTwice(r) ==   \* mutant: consumed_at is not checked
  r.status \in {"processing", "sent"} /\ r.link # None /\ r.fresh

Redeemable(r) ==
  /\ r.status \in {"processing", "sent"}
  /\ r.link # None /\ r.fresh
  /\ ~r.consumed

RedeemedKeepsClaim(r) == [r EXCEPT !.consumed = TRUE]   \* mutant

\* A link may be redeemed before the runner has recorded that it was mailed.
Redeemed(r) ==
  IF r.status = "processing" THEN [Sent(r) EXCEPT !.consumed = TRUE]
  ELSE [r EXCEPT !.consumed = TRUE]

\* The session is created in the same request's transaction.
Redeem(d) ==
  /\ <<d, outbox[d].link>> \in mailbox
  /\ Redeemable(outbox[d])
  /\ outbox' = [outbox EXCEPT ![d] = Redeemed(@)]
  /\ grants' = [grants EXCEPT ![d] = @ + 1]
  /\ UNCHANGED <<runner, mailbox, faults>>

-----------------------------------------------------------------------------
(***************************************************************************)
(* The mail runner: RunOnce and deliver.                                   *)
(***************************************************************************)

\* RecoverConsumedDelivery and DeadExpiredDelivery, before anything is claimed.
Swept(d) ==
  LET r == outbox[d] IN
  CASE Expired(d) /\ r.consumed -> Sent(r)
    [] Expired(d) /\ ~r.consumed /\ r.attempts >= MaxAttempts
         -> Dropped(r, "dead")
    [] OTHER -> r

\* Mutant: abandoned deliveries are not claimed again.
AvailableNew == {d \in Delivery : outbox[d].attempts < MaxAttempts
                                  /\ outbox[d].status = "pending"}

Available ==
  {d \in Delivery :
     /\ outbox[d].attempts < MaxAttempts
     /\ outbox[d].status = "pending" \/ (Expired(d) /\ ~outbox[d].consumed)}

\* A fresh claim is a link no mailbox holds: what is forgotten here is mail for
\* links that no row has any more.
ClaimBatch(w, S) ==
  /\ runner[w].pc = "idle"
  /\ FreshClaims # {}
  /\ S \subseteq Available
  /\ Cardinality(S) <= Batch
  /\ outbox' = [d \in Delivery |->
       IF d \in S
       THEN [Dropped(outbox[d], "processing") EXCEPT
               !.attempts = @ + 1, !.claim = FreshClaim, !.leased = TRUE]
       ELSE Swept(d)]
  /\ runner' = IF S = {} THEN runner
               ELSE [runner EXCEPT ![w] = [IdleRunner EXCEPT
                      !.pc = "batch", !.claim = FreshClaim, !.queue = S]]
  /\ mailbox' = {m \in mailbox : m[2] # FreshClaim}
  /\ UNCHANGED <<grants, faults>>

ClaimDeliveries(w) == \E S \in SUBSET Delivery : ClaimBatch(w, S)

OwnsProcessing(w, d) == outbox[d].status = "processing"   \* mutant: no fence

Owns(w, d) ==
  outbox[d].status = "processing" /\ outbox[d].claim = runner[w].claim

\* A claim that was lost is fatal here: RunOnce returns the error, Run returns
\* it, and the process ends.
Activate(w) ==
  /\ runner[w].pc = "batch"
  /\ \E d \in runner[w].queue :
       \/ /\ Owns(w, d)
          /\ outbox' = [outbox EXCEPT ![d] = [@ EXCEPT
               !.link = runner[w].claim, !.fresh = TRUE, !.consumed = FALSE]]
          /\ runner' = [runner EXCEPT ![w].pc = "sending", ![w].delivery = d]
       \/ /\ ~Owns(w, d)
          /\ runner' = [runner EXCEPT ![w] = StoppedRunner]
          /\ UNCHANGED outbox
  /\ UNCHANGED <<mailbox, grants, faults>>

\* The mail is delivered or not; when the call fails or times out the mail may
\* have been delivered all the same.
Send(w) ==
  /\ runner[w].pc = "sending"
  /\ LET mail == <<runner[w].delivery, runner[w].claim>> IN
       \/ /\ mailbox' = mailbox \cup {mail}
          /\ \E pc \in {"mailed", "unsent"} : runner' = [runner EXCEPT ![w].pc = pc]
       \/ /\ runner' = [runner EXCEPT ![w].pc = "unsent"]
          /\ UNCHANGED mailbox
  /\ UNCHANGED <<outbox, grants, faults>>

\* The next delivery of the batch, if there is one.
Proceed(w) ==
  LET rest == runner[w].queue \ {runner[w].delivery} IN
  runner' = [runner EXCEPT ![w] =
    IF rest = {} THEN IdleRunner
    ELSE [@ EXCEPT !.pc = "batch", !.queue = rest, !.delivery = None]]

\* A lost claim is "superseded", and the runner goes on.
Complete(w) ==
  /\ runner[w].pc = "mailed"
  /\ LET d == runner[w].delivery IN
       outbox' = IF Owns(w, d) /\ outbox[d].link # None
                 THEN [outbox EXCEPT ![d] = Sent(@)] ELSE outbox
  /\ Proceed(w)
  /\ UNCHANGED <<mailbox, grants, faults>>

Retry(w) ==
  /\ runner[w].pc = "unsent"
  /\ LET d == runner[w].delivery IN
       outbox' = IF Owns(w, d)
                 THEN [outbox EXCEPT ![d] = Dropped(@,
                         IF @.attempts >= MaxAttempts THEN "dead" ELSE "pending")]
                 ELSE outbox
  /\ Proceed(w)
  /\ UNCHANGED <<mailbox, grants, faults>>

\* A crash, or an error of a database call, which ends the runner as well; the
\* call may have committed, which is the same as failing after it.
Fail(w) ==
  /\ runner[w].pc # "stopped"
  /\ faults < MaxFaults
  /\ faults' = faults + 1
  /\ runner' = [runner EXCEPT ![w] = StoppedRunner]
  /\ UNCHANGED <<outbox, mailbox, grants>>

\* The worker process is started again ("restart: unless-stopped").
Restart(w) ==
  /\ runner[w].pc = "stopped"
  /\ runner' = [runner EXCEPT ![w] = IdleRunner]
  /\ UNCHANGED <<outbox, mailbox, grants, faults>>

Deliver(w) == Activate(w) \/ Send(w) \/ Complete(w) \/ Retry(w)

-----------------------------------------------------------------------------

LeaseExpires(d) ==
  /\ outbox[d].leased
  /\ outbox' = [outbox EXCEPT ![d].leased = FALSE]
  /\ UNCHANGED <<runner, mailbox, grants, faults>>

LinkExpires(d) ==
  /\ outbox[d].fresh
  /\ outbox' = [outbox EXCEPT ![d].fresh = FALSE]
  /\ UNCHANGED <<runner, mailbox, grants, faults>>

\* Retention, 24 hours after the end; a link lives 15 minutes.
Purge(d) ==
  /\ outbox[d].status \in {"sent", "dead", "superseded"}
  /\ ~outbox[d].fresh
  /\ outbox' = [outbox EXCEPT ![d] = NoRow]
  /\ grants' = [grants EXCEPT ![d] = 0]
  /\ UNCHANGED <<runner, mailbox, faults>>

Next ==
  \/ \E r \in Recipient : Request(r)
  \/ \E d \in Delivery : Redeem(d)
  \/ \E w \in Runner : ClaimDeliveries(w) \/ Deliver(w) \/ Fail(w) \/ Restart(w)
  \/ \E d \in Delivery : LeaseExpires(d) \/ LinkExpires(d) \/ Purge(d)

Spec == Init /\ [][Next]_vars

(***************************************************************************)
(* A runner goes on with its batch and sweeps again and again; the oldest  *)
(* delivery comes first (ORDER BY available_at), so none is passed over    *)
(* for ever; leases run out and a stopped process is started again.        *)
(* Nobody need redeem a link, and no fault need happen.                    *)
(***************************************************************************)
Fairness ==
  /\ \A w \in Runner : WF_vars(ClaimDeliveries(w)) /\ WF_vars(Deliver(w))
                       /\ WF_vars(Restart(w))
  /\ \A w \in Runner, d \in Delivery :
       SF_vars(\E S \in SUBSET Delivery : d \in S /\ ClaimBatch(w, S))
  /\ \A d \in Delivery : WF_vars(LeaseExpires(d))

FairSpec == Spec /\ Fairness

-----------------------------------------------------------------------------
(***************************************************************************)
(* Properties.                                                             *)
(***************************************************************************)

\* magic_link_mail_outbox_lease_chk and _token_state_chk.
RowShape(r) ==
  /\ (r.status = "processing") = (r.claim # None)
  /\ r.leased => r.status = "processing"
  /\ r.status \in {"unused", "pending", "dead", "superseded"} => r.link = None
  /\ r.status = "sent" => r.link # None
  /\ r.link = None => ~r.fresh /\ ~r.consumed

RunnerShape(s) ==
  /\ s.pc \in {"batch", "sending", "mailed", "unsent"} => s.claim \in Claim
  /\ s.pc \in {"sending", "mailed", "unsent"} => s.delivery \in s.queue

\* The variables keep their types, the rows satisfy the CHECKs of the table and
\* a runner has the claim and the delivery that the point it has reached supposes.
TypeOK ==
  /\ outbox \in [Delivery -> Row]
  /\ runner \in [Runner -> RunnerState]
  /\ mailbox \subseteq Delivery \X Claim
  /\ grants \in [Delivery -> Nat]
  /\ faults \in 0..MaxFaults
  /\ \A d \in Delivery : RowShape(outbox[d])
  /\ \A w \in Runner : RunnerShape(runner[w])

\* Of all the links that retries and requests have mailed to a recipient at most
\* one is usable (MagicLinkDeliveryIssuer), whatever runners are still at work.
OneUsableLink ==
  \A d, e \in Delivery :
    /\ Redeemable(outbox[d]) /\ Redeemable(outbox[e])
    /\ outbox[d].recipient = outbox[e].recipient
    => d = e

\* One request signs in once, although every attempt to deliver it mints a link
\* and a failed attempt may have reached the mailbox.
OneLoginPerRequest == \A d \in Delivery : grants[d] <= 1

\* What is recorded as sent was mailed: the link the row accepts is the one the
\* recipient has, not that of a runner which took the delivery over.
SentWasMailed ==
  \A d \in Delivery : outbox[d].status = "sent" => <<d, outbox[d].link>> \in mailbox

\* Every request is mailed, superseded or given up after MaxAttempts, although
\* runners crash and leases expire.
DeliverySettles ==
  \A d \in Delivery :
    outbox[d].status \in {"pending", "processing"} ~>
      outbox[d].status \notin {"pending", "processing"}

(***************************************************************************)
(* The requests a recipient sees.  A request is open while a link for it   *)
(* is usable or may still come.                                            *)
(***************************************************************************)
Standing(d) ==
  LET r == outbox[d] IN
  CASE r.status = "unused"                    -> "none"
    [] r.status # "unused" /\ grants[d] > 0   -> "used"
    [] /\ grants[d] = 0
       /\ r.status \in {"pending", "processing"} \/ Redeemable(r) -> "open"
    [] OTHER                                  -> "closed"

Owner == [d \in Delivery |-> outbox[d].recipient]
Standings == [d \in Delivery |-> Standing(d)]

SignInAbstract == INSTANCE SignIn WITH
  owner <- Owner, request <- Standings, logins <- grants

\* The outbox and its runners implement SignIn: only a recipient's last request
\* can be used, and once.
ImplementsSignIn == SignInAbstract!Spec

\* "Treats superseded claim as benign" (magic_link_delivery_worker_test.go): a
\* runner that lost a delivery goes on; it stops because of a fault only.
SupersededIsBenign ==
  [][\A w \in Runner :
       runner[w].pc # "stopped" /\ runner'[w].pc = "stopped" => faults' # faults]_vars
=============================================================================
