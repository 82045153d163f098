------------------------- MODULE FleetRedirect_proofs -------------------------
(***************************************************************************)
(* Theorems about FleetRedirect, for every set of Workers and Overlords    *)
(* and any number of faults.                                               *)
(***************************************************************************)
EXTENDS FleetRedirect, FiniteSetTheorems, TLAPS

(* A set of Workers can be counted.                                        *)
LEMMA WorkersCounted == ASSUME NEW S \in SUBSET Workers
                        PROVE  Cardinality(S) \in Nat
BY FleetAssumption, FS_Subset, FS_CardinalityType

LEMMA Configured == HomeOf \in [Workers -> Overlords] /\ MaxFaults \in Nat
BY FleetAssumption

(* A fault is counted and only adds to the faulty Overlords.               *)
LEMMA FaultCounted ==
  ASSUME HistoryTypes, NEW S \in SUBSET Overlords, Fault(S), missed' \subseteq Workers
  PROVE  HistoryTypes' /\ faulty \subseteq faulty'
BY Configured DEF HistoryTypes, Fault

LEMMA PollTickTypes == ASSUME TypeOK, PollTick PROVE TypeOK'
BY DEF TypeOK, RegionTypes, FleetTypes, PollerTypes, HistoryTypes, PollTick,
       regions, history, TimedOut

LEMMA RedirectWorkersTypes ==
  ASSUME TypeOK, NEW o \in Overlords, RedirectWorkers(o)
  PROVE  TypeOK'
<1>1. RegionTypes' /\ FleetTypes'
  BY DEF TypeOK, RedirectWorkers, RegionTypes, FleetTypes, regions, fleet
<1>3. missed' \in SUBSET Workers
  BY DEF TypeOK, RedirectWorkers, RegionTypes, HistoryTypes, Users
<1>4. HistoryTypes'
  BY <1>3 DEF TypeOK, RedirectWorkers, HistoryTypes, history
<1>2. calls' \in SUBSET [worker : Workers, to : Overlords]
  <2>1. CASE UNCHANGED calls
    BY <2>1 DEF TypeOK, PollerTypes
  <2>2. CASE \E t \in Healthy(o) :
               calls' = {[worker |-> w, to |-> t] : w \in cached[o]}
    BY <2>2 DEF TypeOK, FleetTypes, Healthy
  <2>. QED  BY <2>1, <2>2 DEF RedirectWorkers
<1>. QED  BY <1>1, <1>2, <1>4 DEF TypeOK, PollerTypes, RedirectWorkers

LEMMA CallTypes ==
  ASSUME TypeOK, NEW c \in calls, RedirectWorker(c) \/ RedirectLost(c)
  PROVE  TypeOK'
<1>1. c.worker \in Workers /\ c.to \in Overlords
  BY DEF TypeOK, PollerTypes
<1>2. HistoryTypes'
  <2>1. missed' \subseteq Workers
    BY <1>1 DEF TypeOK, HistoryTypes, RedirectWorker, RedirectLost
  <2>. QED
    BY <2>1, FaultCounted DEF TypeOK, RedirectWorker, RedirectLost, HistoryTypes, history
<1>3. FleetTypes' /\ PollerTypes'
  BY DEF TypeOK, FleetTypes, PollerTypes, RedirectWorker, RedirectLost, fleet
<1>4. RegionTypes'
  BY <1>1 DEF TypeOK, RegionTypes, RedirectWorker, RedirectLost, regions
<1>. QED  BY <1>2, <1>3, <1>4 DEF TypeOK

LEMMA PollingTypes ==
  ASSUME TypeOK, StartPolling \/ EndPolling
  PROVE  TypeOK'
BY DEF TypeOK, RegionTypes, FleetTypes, PollerTypes, HistoryTypes, StartPolling,
       EndPolling, regions, fleet, history

LEMMA GetRegionStatusTypes ==
  ASSUME TypeOK, NEW o \in Overlords, GetRegionStatus(o)
  PROVE  TypeOK'
<1>1. PICK ws \in SUBSET region[o] :
        /\ answer' = [of |-> {o}, workers |-> ws, total |-> WorkerCount(o)]
        /\ \/ UNCHANGED history
           \/ Fault({})
  BY DEF GetRegionStatus
<1>2. region[o] \subseteq Workers /\ WorkerCount(o) \in Nat
  BY WorkersCounted DEF TypeOK, RegionTypes, WorkerCount
<1>3. PollerTypes'
  BY <1>1, <1>2 DEF TypeOK, PollerTypes, GetRegionStatus
<1>4. HistoryTypes'
  <2>1. missed' = missed
    BY DEF GetRegionStatus
  <2>. QED  BY <1>1, <2>1, FaultCounted DEF TypeOK, HistoryTypes, history
<1>. QED  BY <1>3, <1>4 DEF TypeOK, RegionTypes, FleetTypes, GetRegionStatus, regions, fleet

LEMMA StatusTypes ==
  ASSUME TypeOK, NEW o \in Overlords, StatusFails(o) \/ StatusApplied(o)
  PROVE  TypeOK'
<1>1. HistoryTypes'
  BY FaultCounted DEF TypeOK, HistoryTypes, StatusFails, StatusApplied, history
<1>2. PollerTypes'
  BY DEF TypeOK, PollerTypes, StatusFails, StatusApplied, NoAnswer
<1>3. FleetTypes'
  BY DEF TypeOK, FleetTypes, PollerTypes, StatusFails, StatusApplied, Unanswered, Listed
<1>. QED  BY <1>1, <1>2, <1>3 DEF TypeOK, RegionTypes, StatusFails, StatusApplied, regions

LEMMA JoinTypes == ASSUME TypeOK, NEW w \in Workers, Join(w) PROVE TypeOK'
<1>1. home[w] \in Overlords
  BY DEF TypeOK, RegionTypes
<1>. QED  BY <1>1 DEF TypeOK, RegionTypes, FleetTypes, PollerTypes, HistoryTypes, Join,
                     fleet, poller, history

LEMMA OverlordTypes ==
  ASSUME TypeOK, NEW o \in Overlords,
         \/ RegisterOverlord(o) \/ Heartbeat(o) \/ Ping(o) \/ Expire(o) \/ Cutoff(o)
         \/ CrashOverlord(o) \/ StartOverlord(o)
  PROVE  TypeOK'
<1>1. WorkerCount(o) \in Nat
  BY WorkersCounted DEF TypeOK, RegionTypes, WorkerCount
<1>2. HistoryTypes'
  BY FaultCounted DEF TypeOK, HistoryTypes, RegisterOverlord, Heartbeat, Ping, Seen, Expire,
     Cutoff, CrashOverlord, StartOverlord, history
<1>3. PollerTypes' /\ RegionTypes'
  BY DEF TypeOK, PollerTypes, RegionTypes, RegisterOverlord, Heartbeat, Ping, Seen, Expire,
     Cutoff, CrashOverlord, StartOverlord, poller, regions
<1>4. FleetTypes'
  <2>1. CASE Heartbeat(o) \/ Ping(o)
    <3>1. PICK n \in Nat : Seen(o, n)
      BY <1>1, <2>1 DEF Heartbeat, Ping
    <3>. QED  BY <3>1 DEF TypeOK, FleetTypes, Seen
  <2>2. CASE RegisterOverlord(o) \/ Expire(o) \/ Cutoff(o)
    BY <2>2 DEF TypeOK, FleetTypes, RegisterOverlord, Expire, Cutoff
  <2>3. CASE CrashOverlord(o) \/ StartOverlord(o)
    BY <2>3 DEF TypeOK, FleetTypes, CrashOverlord, StartOverlord, fleet
  <2>. QED  BY <2>1, <2>2, <2>3
<1>. QED  BY <1>2, <1>3, <1>4 DEF TypeOK

LEMMA CerebrateTypes ==
  ASSUME TypeOK, CrashCerebrate \/ StartCerebrate
  PROVE  TypeOK'
<1>1. HistoryTypes'
  BY FaultCounted DEF TypeOK, HistoryTypes, CrashCerebrate, StartCerebrate, history
<1>2. RegionTypes'
  BY DEF TypeOK, RegionTypes, CrashCerebrate, StartCerebrate, regions
<1>3. FleetTypes'
  <2>1. CASE CrashCerebrate
    <3>1. cup' \in BOOLEAN
      BY <2>1 DEF CrashCerebrate
    <3>2. /\ state' \in [Overlords -> {"NONE", "UNKNOWN", "RUNNING", "OFFLINE"}]
          /\ fresh' \in [Overlords -> BOOLEAN]
      BY <2>1 DEF CrashCerebrate
    <3>3. /\ cached' \in [Overlords -> SUBSET Workers]
          /\ count' \in [Overlords -> Nat]
      BY <2>1 DEF CrashCerebrate
    <3>. QED  BY <3>1, <3>2, <3>3 DEF FleetTypes
  <2>2. CASE StartCerebrate
    BY <2>2 DEF TypeOK, FleetTypes, StartCerebrate
  <2>. QED  BY <2>1, <2>2
<1>4. PollerTypes'
  <2>1. CASE CrashCerebrate
    <3>1. NoAnswer \in [of : SUBSET Overlords, workers : SUBSET Workers, total : Nat]
      BY DEF NoAnswer
    <3>. QED  BY <2>1, <3>1 DEF PollerTypes, CrashCerebrate
  <2>2. CASE StartCerebrate
    BY <2>2 DEF TypeOK, PollerTypes, StartCerebrate, poller
  <2>. QED  BY <2>1, <2>2
<1>. QED  BY <1>1, <1>2, <1>3, <1>4 DEF TypeOK

(* All variables keep their types; the number of faults never passes its   *)
(* bound (overlord_conn.go:37-67).                                         *)
THEOREM TypeCorrect == Spec => []TypeOK
<1>1. Init => TypeOK
  <2>. SUFFICES ASSUME Init PROVE TypeOK
    OBVIOUS
  <2>1. RegionTypes
    BY Configured DEF Init, RegionTypes
  <2>2. \A o \in Overlords : Cardinality(region[o]) \in Nat
    BY <2>1, WorkersCounted DEF RegionTypes
  <2>. QED  BY <2>1, <2>2, Configured DEF Init, TypeOK, RegionTypes, FleetTypes, PollerTypes,
                                          HistoryTypes, NoAnswer
<1>2. TypeOK /\ [Next]_vars => TypeOK'
  <2>. SUFFICES ASSUME TypeOK, [Next]_vars PROVE TypeOK'
    OBVIOUS
  <2>1. CASE PollStep
    BY <2>1, PollTickTypes, PollingTypes, RedirectWorkersTypes, GetRegionStatusTypes,
       StatusTypes, CallTypes DEF PollStep
  <2>2. CASE \E w \in Workers : Join(w)
    BY <2>2, JoinTypes
  <2>3. CASE \E o \in Overlords :
               \/ RegisterOverlord(o) \/ Heartbeat(o) \/ Ping(o) \/ Expire(o) \/ Cutoff(o)
               \/ CrashOverlord(o) \/ StartOverlord(o)
    BY <2>3, OverlordTypes
  <2>4. CASE CrashCerebrate \/ StartCerebrate
    BY <2>4, CerebrateTypes
  <2>5. CASE UNCHANGED vars
    BY <2>5 DEF vars, regions, fleet, poller, history, TypeOK, RegionTypes, FleetTypes,
                PollerTypes, HistoryTypes
  <2>. QED  BY <2>1, <2>2, <2>3, <2>4, <2>5 DEF Next
<1>. QED  BY <1>1, <1>2, PTL DEF Spec

-----------------------------------------------------------------------------
(* The argument for HealthyKeepsWorkers.  An Overlord that never failed is *)
(* up and never timed out, so it is never among the dead whose Workers are *)
(* sent away; and its Workers are on no other Overlord's list.             *)

NeverTimedOut ==
  \A o \in Overlords \ faulty : up[o] /\ (state[o] = "RUNNING" => fresh[o])

DeadAreFaulty == pc = "redirect" => todo \subseteq faulty

(* Neither in o's registry, nor on its list, nor in its next answer.       *)
Unlisted(w, o) ==
  w \notin region[o] /\ w \notin cached[o] /\ (o \in answer.of => w \notin answer.workers)

ListedAtHome ==
  \A w \in Workers : HomeOf[w] \notin faulty =>
    home[w] = HomeOf[w] /\ \A o \in Overlords \ {HomeOf[w]} : Unlisted(w, o)

CalledFromFaulty == \A c \in calls : HomeOf[c.worker] \in faulty

StayInv == NeverTimedOut /\ DeadAreFaulty /\ ListedAtHome /\ CalledFromFaulty

(* A fault only shrinks what the invariant speaks of.                      *)
LEMMA FaultyGrows ==
  ASSUME TypeOK, [Next]_vars
  PROVE  faulty \subseteq faulty'
BY DEF Next, PollStep, PollTick, StartPolling, EndPolling, RedirectWorkers, GetRegionStatus,
       StatusFails, StatusApplied, RedirectWorker, RedirectLost, Join, RegisterOverlord,
       Heartbeat, Ping, Seen, Expire, Cutoff, CrashOverlord, StartOverlord, CrashCerebrate,
       StartCerebrate, Fault, vars, history

LEMMA NeverTimedOutStep ==
  ASSUME TypeOK, StayInv, [Next]_vars
  PROVE  NeverTimedOut'
<1>. SUFFICES ASSUME NEW o \in Overlords, o \notin faulty'
              PROVE  up'[o] /\ (state'[o] = "RUNNING" => fresh'[o])
  BY DEF NeverTimedOut
<1>1. o \notin faulty
  BY FaultyGrows
<1>2. up[o] /\ (state[o] = "RUNNING" => fresh[o])
  BY <1>1 DEF StayInv, NeverTimedOut
<1>3. up'[o]
  BY <1>2 DEF TypeOK, RegionTypes, Next, PollStep, PollTick, StartPolling, EndPolling,
     RedirectWorkers, GetRegionStatus, StatusFails, StatusApplied, RedirectWorker,
     RedirectLost, Join, RegisterOverlord, Heartbeat, Ping, Seen, Expire, Cutoff,
     CrashOverlord, StartOverlord, CrashCerebrate, StartCerebrate, Fault, vars, regions
<1>4. state'[o] = "RUNNING" => fresh'[o]
  <2>1. CASE PollStep
    BY <2>1, <1>2 DEF TypeOK, FleetTypes, PollStep, PollTick, StartPolling, EndPolling,
       RedirectWorkers, GetRegionStatus, StatusFails, StatusApplied, Unanswered,
       RedirectWorker, RedirectLost, fleet
  <2>2. CASE \E w \in Workers : Join(w)
    BY <2>2, <1>2 DEF Join, fleet
  <2>3. ASSUME NEW p \in Overlords, RegisterOverlord(p) \/ Heartbeat(p) \/ Ping(p) \/ Expire(p)
        PROVE  state'[o] = "RUNNING" => fresh'[o]
    BY <2>3, <1>2 DEF TypeOK, FleetTypes, RegisterOverlord, Heartbeat, Ping, Seen, Expire
  <2>4. ASSUME NEW p \in Overlords, Cutoff(p) \/ CrashOverlord(p) \/ StartOverlord(p)
        PROVE  state'[o] = "RUNNING" => fresh'[o]
    BY <2>4, <1>2 DEF TypeOK, FleetTypes, Cutoff, CrashOverlord, StartOverlord, Fault, fleet
  <2>5. CASE CrashCerebrate \/ StartCerebrate \/ UNCHANGED vars
    BY <2>5, <1>2 DEF CrashCerebrate, StartCerebrate, vars, fleet
  <2>. QED  BY <2>1, <2>2, <2>3, <2>4, <2>5 DEF Next
<1>. QED  BY <1>3, <1>4

LEMMA DeadAreFaultyStep ==
  ASSUME TypeOK, StayInv, [Next]_vars
  PROVE  DeadAreFaulty'
<1>1. CASE PollTick
  BY <1>1, FaultyGrows DEF StayInv, NeverTimedOut, DeadAreFaulty, PollTick, TimedOut
<1>2. CASE StartPolling \/ EndPolling \/ CrashCerebrate
  BY <1>2 DEF DeadAreFaulty, StartPolling, EndPolling, CrashCerebrate
<1>3. CASE UNCHANGED pc /\ todo' \subseteq todo
  BY <1>3, FaultyGrows DEF StayInv, DeadAreFaulty
<1>. QED
  BY <1>1, <1>2, <1>3 DEF Next, PollStep, RedirectWorkers, GetRegionStatus, StatusFails,
     StatusApplied, RedirectWorker, RedirectLost, Join, RegisterOverlord, Heartbeat, Ping,
     Seen, Expire, Cutoff, CrashOverlord, StartOverlord, StartCerebrate, vars, poller

LEMMA CalledFromFaultyStep ==
  ASSUME TypeOK, StayInv, [Next]_vars
  PROVE  CalledFromFaulty'
<1>1. ASSUME NEW dead \in Overlords, RedirectWorkers(dead), NEW c \in calls'
      PROVE  HomeOf[c.worker] \in faulty
  <2>1. CASE UNCHANGED calls
    BY <2>1, <1>1 DEF StayInv, CalledFromFaulty
  <2>2. CASE \E t \in Healthy(dead) :
               calls' = {[worker |-> w, to |-> t] : w \in cached[dead]}
    <3>1. c.worker \in cached[dead] /\ c.worker \in Workers
      BY <2>2, <1>1 DEF TypeOK, FleetTypes
    <3>2. dead \in faulty
      BY <1>1 DEF StayInv, DeadAreFaulty, RedirectWorkers
    <3>. QED  BY <3>1, <3>2 DEF StayInv, ListedAtHome, Unlisted
  <2>. QED  BY <1>1, <2>1, <2>2 DEF RedirectWorkers
<1>2. CASE calls' \subseteq calls
  BY <1>2, FaultyGrows DEF StayInv, CalledFromFaulty
<1>. QED
  BY <1>1, <1>2, FaultyGrows DEF CalledFromFaulty, Next, PollStep, PollTick, StartPolling,
     EndPolling, GetRegionStatus, StatusFails, StatusApplied, RedirectWorker, RedirectLost,
     Join, RegisterOverlord, Heartbeat, Ping, Seen, Expire, Cutoff, CrashOverlord,
     StartOverlord, CrashCerebrate, StartCerebrate, vars, poller

LEMMA ListedAtHomeStep ==
  ASSUME TypeOK, StayInv, [Next]_vars
  PROVE  ListedAtHome'
<1>. SUFFICES ASSUME NEW w \in Workers, HomeOf[w] \notin faulty'
              PROVE  home'[w] = HomeOf[w] /\ \A o \in Overlords \ {HomeOf[w]} : Unlisted(w, o)'
  BY DEF ListedAtHome
<1>1. home[w] = HomeOf[w] /\ \A o \in Overlords \ {HomeOf[w]} : Unlisted(w, o)
  BY FaultyGrows DEF StayInv, ListedAtHome
<1>2. HomeOf[w] \notin faulty
  BY FaultyGrows
<1>3. CASE UNCHANGED <<region, home, cached, answer>>
  BY <1>3, <1>1 DEF Unlisted
<1>4. ASSUME NEW v \in Workers, Join(v)
      PROVE  home'[w] = HomeOf[w] /\ \A o \in Overlords \ {HomeOf[w]} : Unlisted(w, o)'
  BY <1>4, <1>1 DEF TypeOK, RegionTypes, Join, Unlisted, fleet, poller
<1>5. ASSUME NEW c \in calls, RedirectWorker(c)
      PROVE  home'[w] = HomeOf[w] /\ \A o \in Overlords \ {HomeOf[w]} : Unlisted(w, o)'
  <2>1. c.worker # w
    BY <1>2, <1>5 DEF StayInv, CalledFromFaulty
  <2>. QED  BY <2>1, <1>5, <1>1 DEF TypeOK, RegionTypes, RedirectWorker, Unlisted, fleet
<1>6. ASSUME NEW p \in Overlords, GetRegionStatus(p)
      PROVE  home'[w] = HomeOf[w] /\ \A o \in Overlords \ {HomeOf[w]} : Unlisted(w, o)'
  BY <1>6, <1>1 DEF GetRegionStatus, Unlisted, regions, fleet
<1>7. ASSUME NEW p \in Overlords, StatusApplied(p)
      PROVE  home'[w] = HomeOf[w] /\ \A o \in Overlords \ {HomeOf[w]} : Unlisted(w, o)'
  BY <1>7, <1>1 DEF TypeOK, FleetTypes, StatusApplied, Listed, NoAnswer, Unlisted, regions
<1>8. ASSUME NEW p \in Overlords, CrashOverlord(p)
      PROVE  home'[w] = HomeOf[w] /\ \A o \in Overlords \ {HomeOf[w]} : Unlisted(w, o)'
  BY <1>8, <1>1 DEF TypeOK, RegionTypes, CrashOverlord, Unlisted, fleet, poller
<1>9. CASE CrashCerebrate
  BY <1>9, <1>1 DEF CrashCerebrate, NoAnswer, Unlisted, regions
<1>. QED
  BY <1>3, <1>4, <1>5, <1>6, <1>7, <1>8, <1>9 DEF Next, PollStep, PollTick, StartPolling,
     EndPolling, RedirectWorkers, StatusFails, RedirectLost, RegisterOverlord, Heartbeat,
     Ping, Seen, Expire, Cutoff, StartOverlord, StartCerebrate, vars, regions, fleet, poller

(* However crashes, missed heartbeats and lost calls follow each other,    *)
(* the Workers of an Overlord that never failed stay with it               *)
(* (overlord_conn.go:336-348).                                             *)
THEOREM HealthyKeep == Spec => []HealthyKeepsWorkers
<1>1. Init => StayInv
  BY Configured DEF Init, StayInv, NeverTimedOut, DeadAreFaulty, ListedAtHome,
     CalledFromFaulty, Unlisted, NoAnswer
<1>2. TypeOK /\ StayInv /\ [Next]_vars => StayInv'
  BY NeverTimedOutStep, DeadAreFaultyStep, ListedAtHomeStep, CalledFromFaultyStep DEF StayInv
<1>3. StayInv => HealthyKeepsWorkers
  BY DEF StayInv, ListedAtHome, HealthyKeepsWorkers
<1>. QED  BY <1>1, <1>2, <1>3, TypeCorrect, PTL DEF Spec

-----------------------------------------------------------------------------
(* The regions that heartbeats, status polls and redirects work on follow  *)
(* the same abstract registry, Membership, that WorkerLink implements:     *)
(* nothing the Cerebrate does or suffers makes an Overlord that runs       *)
(* forget a Worker.                                                        *)
THEOREM RegionsImplement == Spec => RegionsAreRegistries
<1>1. Init => Registry!Init
  BY DEF Init, Registry!Init
<1>2. TypeOK /\ [Next]_vars => [Registry!Next]_Registry!vars
  <2>. SUFFICES ASSUME TypeOK, [Next]_vars, ~UNCHANGED <<up, region>>
                PROVE  Registry!Next
    BY DEF Registry!vars
  <2>1. ASSUME NEW w \in Workers, Join(w) PROVE Registry!Next
    BY <2>1 DEF TypeOK, RegionTypes, Join, Registry!Next, Registry!Admit
  <2>2. ASSUME NEW o \in Overlords, CrashOverlord(o) PROVE Registry!Next
    BY <2>2 DEF CrashOverlord, Registry!Next, Registry!Die
  <2>3. ASSUME NEW o \in Overlords, StartOverlord(o) PROVE Registry!Next
    BY <2>3 DEF StartOverlord, Registry!Next, Registry!Start
  <2>. QED  BY <2>1, <2>2, <2>3 DEF Next, PollStep, PollTick, StartPolling, EndPolling,
     RedirectWorkers, GetRegionStatus, StatusFails, StatusApplied, RedirectWorker,
     RedirectLost, RegisterOverlord, Heartbeat, Ping, Seen, Expire, Cutoff,
     CrashCerebrate, StartCerebrate, vars, regions
<1>. QED  BY <1>1, <1>2, TypeCorrect, PTL DEF Spec, RegionsAreRegistries, Registry!Spec
=============================================================================
