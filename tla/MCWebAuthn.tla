----------------------------- MODULE MCWebAuthn -----------------------------
(* Small instances of WebAuthn for TLC. *)
EXTENDS WebAuthn, TLC

Symmetry == Permutations(User) \cup Permutations(Key) \cup Permutations(RowId)
            \cup Permutations(ChallengeId) \cup Permutations(Worker)
=============================================================================
