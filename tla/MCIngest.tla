------------------------------ MODULE MCIngest ------------------------------
(***************************************************************************)
(* CustomIngest for TLC.                                                   *)
(***************************************************************************)
EXTENDS CustomIngest, TLC

CONSTANTS e1, e2, commit, review

\* One event; the same event with another value beside a second one, whose
\* action may not be allowed; one event twice in a batch.
MCBatches ==
  { << [event |-> e1, value |-> 1, action |-> commit] >>,
    << [event |-> e1, value |-> 2, action |-> commit],
       [event |-> e2, value |-> 1, action |-> review] >>,
    << [event |-> e2, value |-> 2, action |-> commit],
       [event |-> e2, value |-> 1, action |-> commit] >> }

MCAllowedSets == {{commit}, {commit, review}}

Alike == Permutations(Request)
=============================================================================
