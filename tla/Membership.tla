------------------------------ MODULE Membership ------------------------------
(***************************************************************************)
(* What the registry of an Overlord promises: while its Overlord runs it   *)
(* only admits Workers, and it is lost as a whole when the Overlord dies.  *)
(* WorkerLink implements this with handlers, heartbeats and a poller that  *)
(* touch the entries concurrently; the regions of FleetRedirect, which     *)
(* has none of those, are such registries too.                             *)
(***************************************************************************)
CONSTANTS Workers, Overlords

VARIABLES
  up,       \* is the Overlord up?
  member    \* the Workers it knows

vars == <<up, member>>

Init ==
  /\ up \in [Overlords -> BOOLEAN]
  /\ member \in [Overlords -> SUBSET Workers]

(* A Worker registers.                                                     *)
Admit(o, w) ==
  /\ up[o]
  /\ member' = [member EXCEPT ![o] = @ \cup {w}]
  /\ UNCHANGED up

Die(o) ==
  /\ up[o]
  /\ up' = [up EXCEPT ![o] = FALSE]
  /\ member' = [member EXCEPT ![o] = {}]

Start(o) ==
  /\ ~up[o]
  /\ up' = [up EXCEPT ![o] = TRUE]
  /\ UNCHANGED member

Next ==
  \E o \in Overlords :
    Die(o) \/ Start(o) \/ \E w \in Workers : Admit(o, w)

Spec == Init /\ [][Next]_vars
=============================================================================
