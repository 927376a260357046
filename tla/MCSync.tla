------------------------------- MODULE MCSync --------------------------------
(***************************************************************************)
(* Values for the constants of SyncExecution.                              *)
(***************************************************************************)
EXTENDS SyncExecution, TLC

PublicConnections == [c \in Conn |-> "none"]
TokenConnections == [c \in Conn |-> "token"]
OAuthConnections == [c \in Conn |-> "oauth2"]

\* Workers, jobs and requests are interchangeable.  Tokens are not declared so,
\* because FreshToken chooses one; jobs are, because FreeJob chooses among slots
\* that nothing tells apart.
Interchangeable ==
  Permutations(Worker) \cup Permutations(Job) \cup Permutations(Handler)
=============================================================================
