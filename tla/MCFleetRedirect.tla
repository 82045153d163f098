--------------------------- MODULE MCFleetRedirect ---------------------------
(* Instances of FleetRedirect for TLC.                                     *)
EXTENDS FleetRedirect, TLC

CONSTANTS w1, w2, o1, o2, o3

OneEach == (w1 :> o1) @@ (w2 :> o2)
=============================================================================
