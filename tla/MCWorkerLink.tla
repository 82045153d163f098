---------------------------- MODULE MCWorkerLink ----------------------------
(* Instances of WorkerLink for TLC.                                        *)
EXTENDS WorkerLink, TLC

CONSTANTS w1, w2, o1, o2, a1, a2

Single      == (w1 :> {a1})
Sharing     == (w1 :> {a1, a2} @@ w2 :> {a1})
FourLinks   == 1 .. 4
AllAtFirst  == [w \in Workers |-> o1]
=============================================================================
