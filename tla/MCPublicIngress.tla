-------------------------- MODULE MCPublicIngress --------------------------
(* A public request among two subscribers of its named route and one of    *)
(* the root route.                                                         *)
EXTENDS PublicIngress

(* At first the path is allowlisted on both routes or on neither; an edit  *)
(* makes them differ.                                                      *)
AlikeInit == Init /\ allowed \in {{}, Routes}

AlikeSpec == AlikeInit /\ [][Next]_vars
=============================================================================
