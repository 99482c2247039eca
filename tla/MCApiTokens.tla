---------------------------- MODULE MCApiTokens ----------------------------
(* Small instances of ApiTokens for TLC. *)
EXTENDS ApiTokens, TLC

Symmetry == Permutations(User) \cup Permutations(Account)
            \cup Permutations(TokenId) \cup Permutations(Worker)

(* expires_in "-1" is a duration too. *)
Lifetimes == {-1, 0}
=============================================================================
