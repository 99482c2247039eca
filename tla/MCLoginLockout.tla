--------------------------- MODULE MCLoginLockout ---------------------------
(* Small instances of LoginLockout for TLC. *)
EXTENDS LoginLockout, TLC

Symmetry == Permutations(Worker)
=============================================================================
