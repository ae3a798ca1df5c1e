-------------------------- MODULE MCSidecarPublic --------------------------
(* A public-target sidecar on a small instance. *)
EXTENDS SidecarPublic

=============================================================================
