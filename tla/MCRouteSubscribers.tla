------------------------- MODULE MCRouteSubscribers -------------------------
(* Small instances of RouteSubscribers for TLC. *)
EXTENDS RouteSubscribers, TLC

ConnSymmetry == Permutations(Conns)
=============================================================================
