----------------------------- MODULE MCTunnels -----------------------------
(* Small instances of Tunnels for TLC. *)
EXTENDS Tunnels, TLC

Symmetry == Permutations(Account) \cup Permutations(TunnelId)
            \cup Permutations(Host) \cup Permutations(Worker)
=============================================================================
