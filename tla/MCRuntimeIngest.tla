-------------------------- MODULE MCRuntimeIngest --------------------------
(* Small instances of RuntimeIngest for TLC. *)
EXTENDS RuntimeIngest, TLC

CONSTANT a1

Symmetry == Permutations(TokenId) \cup Permutations(Worker) \cup Permutations(Tunnel)

(* Everything is account a1's. *)
OwnerA1    == [i \in Installation |-> a1]
DeclaredA1 == [x \in Tunnel |-> a1]

(* All tunnels and the event, or one tunnel alone. *)
Payloads == {<<Tunnel, EventId>>} \cup {<<{x}, {}>> : x \in Tunnel}

(* One tunnel names a1, the others an account that does not exist and the *)
(* event none.                                                            *)
MixedClaims ==
  {[x \in Item |-> IF x = y THEN a1 ELSE IF x \in Tunnel THEN Foreign ELSE NoAccount] : y \in Tunnel}
=============================================================================
