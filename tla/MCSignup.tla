------------------------------ MODULE MCSignup ------------------------------
(* Small instances of Signup for TLC. *)
EXTENDS Signup, TLC

CONSTANTS e1, e2, e3, s1, s2

(* e1 and e2 have the same slug. *)
SharedSlug == e1 :> s1 @@ e2 :> s1 @@ e3 :> s2

Symmetry == Permutations(Link) \cup Permutations(Worker)
=============================================================================
