------------------------- MODULE MCToolOrchestrator -------------------------
(* Instances of ToolOrchestrator for TLC.                                  *)
EXTENDS ToolOrchestrator

(* Two reads of one key and a read of another, then two writes, then both  *)
(* reads again with a write among them.                                    *)
RunRounds == <<1, 1, 1, 2, 2, 2, 3, 3, 3>>
RunKeys   == <<"a", "a", "b", "x", "y", "b", "a", "x", "b">>
=============================================================================
