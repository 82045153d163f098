--------------------------- MODULE MCCerebrateHA ---------------------------
(* Instances of CerebrateHA for TLC.                                       *)
EXTENDS CerebrateHA, TLC

Pair   == (1 :> 2) @@ (2 :> 1)
Wired  == [o \in Overlords |-> NoPeer]   \* agent_mode.go never calls SetPeer
=============================================================================
