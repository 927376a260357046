------------------------------- MODULE Erasure -------------------------------
(***************************************************************************)
(* What a deletion promises, without workers, leases, holds and retries:   *)
(* each request goes forward through its stages once and its scope is      *)
(* fixed when the credentials are revoked.  What is erased is not written  *)
(* to, but readers may publish it again, as a row of nobody to which users *)
(* may add.  An account that is erased owns nothing, then or later.        *)
(* AccountDeletion implements it.                                          *)
(***************************************************************************)
CONSTANTS
  Account,     \* the one account
  Target,      \* what may be deleted
  Subject      \* whose data may be deleted

VARIABLES
  phase,       \* of each target's request
  scope,       \* the subjects it covers
  kept         \* what there is of each subject

erasureVars == <<phase, scope, kept>>

Kind == {"row", "content", "owner"}

Over(t) == t \in Target /\ phase[t] \in {"erased", "done"}

Init ==
  /\ phase = [t \in Target |-> "none"]
  /\ scope = [t \in Target |-> {}]
  /\ kept \in [Subject -> SUBSET Kind]

Ask(t) ==
  /\ phase[t] = "none"
  /\ phase' = [phase EXCEPT ![t] = "asked"]
  /\ UNCHANGED <<scope, kept>>

Lock(t) ==
  /\ phase[t] = "asked"
  /\ phase' = [phase EXCEPT ![t] = "locked"]
  /\ \E subjects \in SUBSET Subject : scope' = [scope EXCEPT ![t] = subjects]
  /\ UNCHANGED kept

Erase(t) ==
  /\ phase[t] = "locked"
  /\ phase' = [phase EXCEPT ![t] = "erased"]
  /\ kept' = [s \in Subject |->
       IF s \in scope[t] THEN {}
       ELSE IF t = Account THEN kept[s] \ {"owner"} ELSE kept[s]]
  /\ UNCHANGED scope

Confirm(t) ==
  /\ phase[t] = "erased"
  /\ phase' = [phase EXCEPT ![t] = "done"]
  /\ UNCHANGED <<scope, kept>>

\* Readers publish a subject that is not there, erased or not.
Publish(s) ==
  /\ kept[s] = {}
  /\ kept' = [kept EXCEPT ![s] = {"row"}]
  /\ UNCHANGED <<phase, scope>>

\* Users go on, except with what is erased and not there.
Use(s) ==
  /\ kept[s] = {} => \A t \in Target : Over(t) => s \notin scope[t]
  /\ \E kinds \in SUBSET (IF Over(Account) THEN Kind \ {"owner"} ELSE Kind) :
       kept' = [kept EXCEPT ![s] = @ \cup kinds]
  /\ UNCHANGED <<phase, scope>>

Next ==
  \/ \E t \in Target : Ask(t) \/ Lock(t) \/ Erase(t) \/ Confirm(t)
  \/ \E s \in Subject : Publish(s) \/ Use(s)

Spec == Init /\ [][Next]_erasureVars
=============================================================================
