------------------------- MODULE ConnectionLifecycle -------------------------
(***************************************************************************)
(* What a subject is promised about a provider connection, without         *)
(* requests, workers, claims and jobs: the consent is given once, when     *)
(* the connection is made; a connection that waits for its OAuth callback  *)
(* keeps nothing but that consent; there is no credential without consent; *)
(* and a closed connection keeps nothing, for ever.  What happens to one   *)
(* connection leaves the others alone.  SyncExecution implements it.       *)
(***************************************************************************)
CONSTANTS
  Conn,        \* connections
  Redirected   \* those that only open by an OAuth callback

VARIABLES
  phase,       \* of each connection: "none", "offered", "open" or "closed"
  kept         \* what is stored for it

lifecycleVars == <<phase, kept>>

Kind == {"consent", "credential", "lease", "facts"}

Keeping == {k \in SUBSET Kind : "credential" \in k => "consent" \in k}

Init ==
  /\ phase = [c \in Conn |-> "none"]
  /\ kept = [c \in Conn |-> {}]

Enters(c, p) == phase' = [phase EXCEPT ![c] = p]

\* What is kept for c may change, to what a consent covers; the rest does not.
Keeps(c) ==
  /\ kept' \in [Conn -> Keeping]
  /\ \A d \in Conn \ {c} : kept'[d] = kept[d]

SameConsent(c) == ("consent" \in kept'[c]) = ("consent" \in kept[c])

Offer(c) ==
  /\ phase[c] = "none" /\ c \in Redirected
  /\ Enters(c, "offered")
  /\ Keeps(c) /\ kept'[c] \subseteq {"consent"}

\* A connection opens at once, or when its callback has been accepted.
Open(c) ==
  /\ \/ phase[c] = "none" /\ c \notin Redirected
     \/ phase[c] = "offered"
  /\ Enters(c, "open")
  /\ Keeps(c) /\ kept'[c] \subseteq {"consent", "credential"}
  /\ phase[c] = "offered" => SameConsent(c)

\* Requests and workers change what an open connection keeps.
Use(c) ==
  /\ phase[c] = "open"
  /\ UNCHANGED phase
  /\ Keeps(c) /\ SameConsent(c)

Close(c) ==
  /\ phase[c] \in {"offered", "open"}
  /\ Enters(c, "closed")
  /\ Keeps(c) /\ kept'[c] = {}

Next == \E c \in Conn : Offer(c) \/ Open(c) \/ Use(c) \/ Close(c)

Spec == Init /\ [][Next]_lifecycleVars
=============================================================================
