------------------------------ MODULE MCDeletion -----------------------------
(***************************************************************************)
(* AccountDeletion for TLC: deletion requests and legal holds may name the *)
(* account or its subject.                                                 *)
(***************************************************************************)
EXTENDS AccountDeletion

CONSTANT s1

MCTarget == {Account, s1}
=============================================================================
