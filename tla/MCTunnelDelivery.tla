-------------------------- MODULE MCTunnelDelivery --------------------------
(* Small instances of TunnelDelivery for TLC. *)
EXTENDS TunnelDelivery
=============================================================================
