------------------------------ MODULE AuditTrail -----------------------------
(***************************************************************************)
(* What the audit boundary promises about each mutation request: it makes  *)
(* its changes in the one step in which its outcome becomes owed, or never *)
(* changes anything; an owed outcome is told once or given up; no request  *)
(* is told of twice.  PasskeySignIn implements it.                         *)
(***************************************************************************)
CONSTANT
  Id           \* mutation requests

VARIABLES
  changed,     \* the requests that changed something
  told         \* "none", "owed", "told", "lost"

trailVars == <<changed, told>>

Init ==
  /\ changed = {}
  /\ told = [i \in Id |-> "none"]

Change(i) ==
  /\ told[i] = "none"
  /\ changed' \in {changed, changed \cup {i}}
  /\ told' = [told EXCEPT ![i] = "owed"]

\* Nothing was changed, and nothing will be.
TellFailure(i) ==
  /\ told[i] = "none"
  /\ told' = [told EXCEPT ![i] = "told"]
  /\ UNCHANGED changed

Settle(i) ==
  /\ told[i] = "owed"
  /\ \E end \in {"told", "lost"} : told' = [told EXCEPT ![i] = end]
  /\ UNCHANGED changed

\* Several outcomes are given up at once.
GiveUp ==
  /\ \E lost \in SUBSET {i \in Id : told[i] = "owed"} :
       told' = [i \in Id |-> IF i \in lost THEN "lost" ELSE told[i]]
  /\ UNCHANGED changed

Next == GiveUp \/ \E i \in Id : Change(i) \/ TellFailure(i) \/ Settle(i)

Spec == Init /\ [][Next]_trailVars
=============================================================================
