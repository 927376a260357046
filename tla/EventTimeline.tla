---------------------------- MODULE EventTimeline ----------------------------
(***************************************************************************)
(* What the ingest API promises, without batches, keys, secrets and        *)
(* requests: every event of a custom provider is counted once and shown    *)
(* with the value it was first accepted with, until the provider is        *)
(* deleted.  CustomIngest implements it.                                   *)
(***************************************************************************)
EXTENDS Naturals, FiniteSets

CONSTANTS
  Event,       \* event ids
  Value,       \* metric values
  NoValue      \* "not accepted"

VARIABLES
  phase,       \* of the provider
  timeline,    \* the value shown for an event
  counted      \* the events reported as accepted

timelineVars == <<phase, timeline, counted>>

Shown == {e \in Event : timeline[e] # NoValue}

Init ==
  /\ phase = "none"
  /\ timeline = [e \in Event |-> NoValue]
  /\ counted = 0

Open ==
  /\ phase = "none"
  /\ phase' = "open"
  /\ UNCHANGED <<timeline, counted>>

\* The events of `new` appear together; no event that is shown changes.
Accept(new) ==
  /\ phase = "open"
  /\ new \cap Shown = {}
  /\ \E value \in [new -> Value] :
       timeline' = [e \in Event |-> IF e \in new THEN value[e] ELSE timeline[e]]
  /\ counted' = counted + Cardinality(new)
  /\ UNCHANGED phase

Withdraw ==
  /\ phase = "open"
  /\ phase' = "withdrawn"
  /\ timeline' = [e \in Event |-> NoValue]
  /\ UNCHANGED counted

Next == Open \/ Withdraw \/ \E new \in SUBSET Event : Accept(new)

Spec == Init /\ [][Next]_timelineVars
=============================================================================
