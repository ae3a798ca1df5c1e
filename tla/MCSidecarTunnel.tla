-------------------------- MODULE MCSidecarTunnel --------------------------
(* A reverse-tunnel sidecar on a small instance. *)
EXTENDS SidecarTunnel

=============================================================================
