-------------------------- MODULE MCRouteIndexSync --------------------------
(* Small instances of RouteIndexSync for TLC. *)
EXTENDS RouteIndexSync, TLC

Symmetry == Permutations(Runs) \cup Permutations(Tunnels)
=============================================================================
