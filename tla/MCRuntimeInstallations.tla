----------------------- MODULE MCRuntimeInstallations -----------------------
(* Small instances of RuntimeInstallations for TLC. *)
EXTENDS RuntimeInstallations, TLC

Symmetry == Permutations(TokenId) \cup Permutations(Worker)
=============================================================================
