------------------------------- MODULE SignIn -------------------------------
(***************************************************************************)
(* What signing in by mail promises, without outbox, leases and mail: a    *)
(* request of a recipient can be used for one login, and only until the    *)
(* recipient's next request.  MagicLinkDelivery implements it.             *)
(***************************************************************************)
EXTENDS Naturals

CONSTANTS
  Recipient,   \* mail addresses
  Delivery,    \* requests
  None         \* "no value"

VARIABLES
  owner,       \* the recipient of a request
  request,     \* where a request stands
  logins       \* how often it was used

signInVars == <<owner, request, logins>>

RequestState == {"none", "open", "used", "closed"}

Init ==
  /\ owner = [d \in Delivery |-> None]
  /\ request = [d \in Delivery |-> "none"]
  /\ logins = [d \in Delivery |-> 0]

\* A new request closes the recipient's others.
Ask(r, d) ==
  /\ request[d] = "none"
  /\ owner' = [owner EXCEPT ![d] = r]
  /\ request' = [e \in Delivery |->
       IF e = d THEN "open"
       ELSE IF owner[e] = r /\ request[e] = "open" THEN "closed"
       ELSE request[e]]
  /\ logins' = [logins EXCEPT ![d] = 0]

Use(d) ==
  /\ request[d] = "open"
  /\ request' = [request EXCEPT ![d] = "used"]
  /\ logins' = [logins EXCEPT ![d] = @ + 1]
  /\ UNCHANGED owner

\* Requests lapse: no attempt to deliver is left, or the link has expired.
Close(D) ==
  /\ \A d \in D : request[d] = "open"
  /\ request' = [d \in Delivery |-> IF d \in D THEN "closed" ELSE request[d]]
  /\ UNCHANGED <<owner, logins>>

Forget(d) ==
  /\ request[d] \in {"used", "closed"}
  /\ owner' = [owner EXCEPT ![d] = None]
  /\ request' = [request EXCEPT ![d] = "none"]
  /\ logins' = [logins EXCEPT ![d] = 0]

Next ==
  \/ \E r \in Recipient, d \in Delivery : Ask(r, d)
  \/ \E d \in Delivery : Use(d) \/ Forget(d)
  \/ \E D \in SUBSET Delivery : Close(D)

Spec == Init /\ [][Next]_signInVars
=============================================================================
