-------------------------- MODULE MCPasswordReset --------------------------
(* Small instances of PasswordReset for TLC. *)
EXTENDS PasswordReset, TLC

Symmetry == UNION {Permutations(s) : s \in {TokenId, Worker, IP}}
=============================================================================
