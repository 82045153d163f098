------------------------- MODULE CerebrateHA_proofs -------------------------
(***************************************************************************)
(* Safety of CerebrateHA for every set of Overlords, every pairing of      *)
(* peers and every number of crashes and lost calls.  One inductive        *)
(* invariant, IInv, implies all of it.                                     *)
(***************************************************************************)
EXTENDS CerebrateHA, TLAPS

(* A monitor that still watches has failed less often than its limit.      *)
ChecksCounted ==
  \A o \in Overlords : monitor[o] \in {"off", "watch"} => failed[o] < MaxFailures

(* A handler past AddOverlord works for an Overlord of the fleet.          *)
HandledInFleet ==
  \A o \in Overlords : handler[o] \in {"added", "room"} => o \in fleet

(* Who promoted with all votes answered has priority over its peer.        *)
PromotedHasPriority ==
  ~unreached =>
    \A o \in Overlords : monitor[o] = "promoted" /\ Peer[o] # NoPeer => o < Peer[o]

(* What concerns the Cerebrate and what concerns the monitors.             *)
FleetInv == HandledInFleet /\ AtMostTwoBackups /\ BackupsInFleet
VoteInv  == ChecksCounted /\ PromotedHasPriority /\ YieldsToSmaller
IInv == TypeOK /\ FleetInv /\ VoteInv

-----------------------------------------------------------------------------

(* What the steps need to know of the constants.                           *)
LEMMA Limits ==
  /\ MaxFailures \in Nat /\ 0 < MaxFailures
  /\ MaxCerebrateCrashes \in Nat /\ MaxOverlordCrashes \in Nat /\ MaxLosses \in Nat
BY HAAssumption DEF HAAssumption

LEMMA Pairs ==
  /\ Overlords \subseteq Nat /\ NoPeer \notin Overlords
  /\ \A o \in Overlords :
       /\ Peer[o] # NoPeer => Peer[o] \in Overlords /\ Peer[Peer[o]] = o
       /\ Peer[o] # o
BY HAAssumption DEF HAAssumption, NoPeer

(* What a step leaves alone keeps its part of the invariant.               *)
LEMMA CerebrateUnchanged ==
  ASSUME CerebrateTypes, UNCHANGED cvars
  PROVE  CerebrateTypes'
BY DEF CerebrateTypes, cvars

LEMMA FleetUnchanged ==
  ASSUME FleetInv, UNCHANGED <<cvars, handler>>
  PROVE  FleetInv'
BY DEF FleetInv, HandledInFleet, AtMostTwoBackups, BackupsInFleet, cvars

LEMMA ClientUnchanged ==
  ASSUME ClientTypes, UNCHANGED ovars
  PROVE  ClientTypes'
BY DEF ClientTypes, ovars

LEMMA MonitorUnchanged ==
  ASSUME MonitorTypes, VoteInv, UNCHANGED svars
  PROVE  MonitorTypes' /\ VoteInv'
BY DEF MonitorTypes, VoteInv, ChecksCounted, PromotedHasPriority, YieldsToSmaller, svars

LEMMA BoundsUnchanged ==
  ASSUME BoundTypes, UNCHANGED bounds
  PROVE  BoundTypes'
BY DEF BoundTypes, bounds

(* A lost call stays within the bound on lost calls.                       *)
LEMMA LossesBounded ==
  ASSUME BoundTypes, UNCHANGED <<ccrashes, ocrashes>>,
         UNCHANGED losses \/ (losses < MaxLosses /\ losses' = losses + 1)
  PROVE  BoundTypes'
BY Limits DEF BoundTypes

(* Starting a monitor that is off disturbs nothing.                        *)
LEMMA MonitorStartKeeps ==
  ASSUME MonitorTypes, VoteInv, NEW o \in Overlords,
         MonitorStarted(o), UNCHANGED <<failed, unreached>>
  PROVE  MonitorTypes' /\ VoteInv'
<1>1. MonitorTypes'
  BY DEF MonitorTypes, MonitorStarted
<1>2. ChecksCounted'
  BY DEF MonitorTypes, MonitorStarted, VoteInv, ChecksCounted
<1>3. PromotedHasPriority' /\ YieldsToSmaller'
  BY DEF MonitorTypes, MonitorStarted, VoteInv, PromotedHasPriority, YieldsToSmaller
<1> QED BY <1>1, <1>2, <1>3 DEF VoteInv

-----------------------------------------------------------------------------

LEMMA InitIInv == Init => IInv
<1> SUFFICES ASSUME Init PROVE IInv
  OBVIOUS
<1> USE Limits DEF Init
<1>1. backups \in Seq(Overlords) /\ Len(backups) = 0
  OBVIOUS
<1>2. CerebrateTypes /\ HandlerTypes
  BY <1>1 DEF CerebrateTypes, HandlerTypes
<1>3. ClientTypes
  BY DEF ClientTypes
<1>4. MonitorTypes
  <2>1. failed \in [Overlords -> 0 .. MaxFailures]
    OBVIOUS
  <2>2. monitor \in [Overlords -> {"off", "watch", "elect", "promoted", "yielded"}]
    OBVIOUS
  <2> QED BY <2>1, <2>2 DEF MonitorTypes
<1>5. BoundTypes
  BY DEF BoundTypes
<1>6. VoteInv
  BY DEF VoteInv, ChecksCounted, PromotedHasPriority, YieldsToSmaller
<1>7. FleetInv
  BY <1>1 DEF FleetInv, HandledInFleet, AtMostTwoBackups, BackupsInFleet, MaxBackups
<1> QED BY <1>2, <1>3, <1>4, <1>5, <1>6, <1>7 DEF IInv, TypeOK

(* The registration handlers, each for one Overlord.                       *)
LEMMA HandlerKeepsIInv ==
  ASSUME IInv, NEW o \in Overlords, HandlerStep(o)
  PROVE  IInv'
<1>1. CASE AddOverlord(o)
  <2>1. CerebrateTypes' /\ HandlerTypes' /\ FleetInv'
    BY <1>1 DEF AddOverlord, IInv, TypeOK, CerebrateTypes, HandlerTypes,
      FleetInv, HandledInFleet, AtMostTwoBackups, BackupsInFleet
  <2> QED
    BY <1>1, <2>1, ClientUnchanged, MonitorUnchanged, BoundsUnchanged
    DEF AddOverlord, IInv, TypeOK
<1>2. CASE BackupCount(o)
  <2>1. HandlerTypes' /\ HandledInFleet'
    BY <1>2 DEF BackupCount, IInv, TypeOK, HandlerTypes, FleetInv, HandledInFleet, cvars
  <2>2. FleetInv'
    BY <1>2, <2>1 DEF BackupCount, IInv, FleetInv, AtMostTwoBackups, BackupsInFleet, cvars
  <2> QED
    BY <1>2, <2>1, <2>2, CerebrateUnchanged, ClientUnchanged, MonitorUnchanged,
      BoundsUnchanged DEF BackupCount, IInv, TypeOK
<1>3. CASE AddBackup(o)
  <2>1. /\ backups \in Seq(Overlords) /\ o \in fleet /\ Len(backups) <= MaxBackups
    BY <1>3 DEF AddBackup, IInv, TypeOK, CerebrateTypes, FleetInv, HandledInFleet,
      AtMostTwoBackups
  <2>2. backups' \in Seq(Overlords) /\ Len(backups') <= MaxBackups
    BY <1>3, <2>1 DEF AddBackup, MaxBackups
  <2>3. BackupsInFleet'
    BY <1>3, <2>1 DEF AddBackup, IInv, FleetInv, BackupsInFleet
  <2>4. CerebrateTypes' /\ HandlerTypes' /\ FleetInv'
    BY <1>3, <2>2, <2>3 DEF AddBackup, IInv, TypeOK, CerebrateTypes, HandlerTypes,
      FleetInv, HandledInFleet, AtMostTwoBackups
  <2> QED
    BY <1>3, <2>4, ClientUnchanged, MonitorUnchanged, BoundsUnchanged
    DEF AddBackup, IInv, TypeOK
<1> QED BY <1>1, <1>2, <1>3 DEF HandlerStep

(* The client of one Overlord: it may start the monitor, no more.          *)
LEMMA ClientKeepsIInv ==
  ASSUME IInv, NEW o \in Overlords, ClientStep(o)
  PROVE  IInv'
<1>1. CASE CallRegister(o)
  <2>1. HandlerTypes' /\ ClientTypes' /\ FleetInv'
    BY <1>1 DEF CallRegister, IInv, TypeOK, HandlerTypes, ClientTypes,
      FleetInv, HandledInFleet, AtMostTwoBackups, BackupsInFleet, cvars
  <2>2. MonitorTypes' /\ VoteInv'
    BY <1>1, MonitorUnchanged, MonitorStartKeeps DEF CallRegister, IInv, TypeOK, svars
  <2>3. BoundTypes'
    BY <1>1, LossesBounded DEF CallRegister, Reaches, Fails, IInv, TypeOK
  <2> QED
    BY <1>1, <2>1, <2>2, <2>3, CerebrateUnchanged DEF CallRegister, IInv, TypeOK
<1>2. CASE RegisterReturns(o)
  <2>1. HandlerTypes' /\ ClientTypes' /\ FleetInv'
    BY <1>2 DEF RegisterReturns, IInv, TypeOK, HandlerTypes, ClientTypes,
      FleetInv, HandledInFleet, AtMostTwoBackups, BackupsInFleet, cvars
  <2>2. MonitorTypes' /\ VoteInv'
    BY <1>2, MonitorUnchanged, MonitorStartKeeps DEF RegisterReturns, IInv, TypeOK, svars
  <2>3. BoundTypes'
    BY <1>2, LossesBounded DEF RegisterReturns, Fails, IInv, TypeOK
  <2> QED
    BY <1>2, <2>1, <2>2, <2>3, CerebrateUnchanged DEF RegisterReturns, IInv, TypeOK
<1>3. CASE RegisterBroken(o)
  <2>1. ClientTypes'
    BY <1>3 DEF RegisterBroken, IInv, TypeOK, ClientTypes
  <2>2. MonitorTypes' /\ VoteInv'
    BY <1>3, MonitorStartKeeps DEF RegisterBroken, IInv, TypeOK
  <2>3. HandlerTypes'
    BY <1>3 DEF RegisterBroken, IInv, TypeOK, HandlerTypes
  <2> QED
    BY <1>3, <2>1, <2>2, <2>3, CerebrateUnchanged, FleetUnchanged, BoundsUnchanged
    DEF RegisterBroken, IInv, TypeOK
<1>4. CASE Heartbeat(o)
  <2>1. missed' \in [Overlords -> 0 .. MaxFailures - 1]
    BY <1>4, Limits DEF Heartbeat, GivesUp, IInv, TypeOK, ClientTypes
  <2>2. ClientTypes' /\ HandlerTypes'
    BY <1>4, <2>1 DEF Heartbeat, IInv, TypeOK, ClientTypes, HandlerTypes
  <2>3. BoundTypes'
    BY <1>4, LossesBounded DEF Heartbeat, Reaches, Fails, IInv, TypeOK
  <2> QED
    BY <1>4, <2>2, <2>3, CerebrateUnchanged, FleetUnchanged, MonitorUnchanged
    DEF Heartbeat, IInv, TypeOK
<1> QED BY <1>1, <1>2, <1>3, <1>4 DEF ClientStep

(* The standby monitor of one Overlord: the counting and the election.     *)
LEMMA MonitorKeepsIInv ==
  ASSUME IInv, NEW o \in Overlords, MonitorStep(o)
  PROVE  IInv'
<1>1. CASE CheckCerebrate(o)
  <2>1. failed[o] < MaxFailures
    BY <1>1 DEF CheckCerebrate, IInv, VoteInv, ChecksCounted
  <2>2. MonitorTypes'
    BY <1>1, <2>1, Limits DEF CheckCerebrate, IInv, TypeOK, MonitorTypes
  <2>3. ChecksCounted'
    BY <1>1, <2>1, Limits DEF CheckCerebrate, GivesUp, IInv, TypeOK, MonitorTypes,
      VoteInv, ChecksCounted
  <2>4. PromotedHasPriority' /\ YieldsToSmaller'
    BY <1>1 DEF CheckCerebrate, IInv, TypeOK, MonitorTypes, VoteInv,
      PromotedHasPriority, YieldsToSmaller
  <2>5. BoundTypes'
    BY <1>1, LossesBounded DEF CheckCerebrate, Reaches, Fails, IInv, TypeOK
  <2>6. HandlerTypes'
    BY <1>1 DEF CheckCerebrate, IInv, TypeOK, HandlerTypes
  <2> QED
    BY <1>1, <2>2, <2>3, <2>4, <2>5, <2>6, CerebrateUnchanged, FleetUnchanged,
      ClientUnchanged DEF CheckCerebrate, IInv, TypeOK, VoteInv
<1>2. CASE RunElection(o)
  <2>1. MonitorTypes'
    BY <1>2 DEF RunElection, Unanswered, IInv, TypeOK, MonitorTypes
  <2>2. ChecksCounted'
    BY <1>2 DEF RunElection, Unanswered, IInv, TypeOK, MonitorTypes, VoteInv, ChecksCounted
  <2>3. PromotedHasPriority'
    BY <1>2 DEF RunElection, ElectionVote, Unanswered, IInv, TypeOK, MonitorTypes,
      VoteInv, PromotedHasPriority
  <2>4. YieldsToSmaller'
    <3>1. ASSUME Peer[o] # NoPeer, ~(o < Peer[o])
          PROVE  Peer[o] \in Overlords /\ Peer[o] < o
      <4>1. Peer[o] \in Overlords /\ Peer[o] # o
        BY <3>1, Pairs
      <4>2. o \in Nat /\ Peer[o] \in Nat
        BY <4>1, Pairs
      <4> QED BY <3>1, <4>1, <4>2
    <3> QED
      BY <1>2, <3>1 DEF RunElection, ElectionVote, Unanswered, IInv, TypeOK, MonitorTypes,
        VoteInv, YieldsToSmaller
  <2>5. BoundTypes'
    BY <1>2, LossesBounded DEF RunElection, Reaches, Fails, IInv, TypeOK
  <2>6. HandlerTypes'
    BY <1>2 DEF RunElection, IInv, TypeOK, HandlerTypes
  <2> QED
    BY <1>2, <2>1, <2>2, <2>3, <2>4, <2>5, <2>6, CerebrateUnchanged, FleetUnchanged,
      ClientUnchanged DEF RunElection, IInv, TypeOK, VoteInv
<1> QED BY <1>1, <1>2 DEF MonitorStep

(* Processes that start and die.                                           *)
LEMMA ProcessKeepsIInv ==
  ASSUME IInv,
         \/ \E o \in Overlords : StartOverlord(o) \/ CrashOverlord(o)
         \/ StartCerebrate \/ SetHAManager \/ CrashCerebrate
  PROVE  IInv'
<1>1. ASSUME NEW o \in Overlords, StartOverlord(o) PROVE IInv'
  <2>1. ClientTypes' /\ HandlerTypes'
    BY <1>1 DEF StartOverlord, IInv, TypeOK, ClientTypes, HandlerTypes
  <2> QED
    BY <1>1, <2>1, CerebrateUnchanged, FleetUnchanged, MonitorUnchanged, BoundsUnchanged
    DEF StartOverlord, IInv, TypeOK
<1>2. ASSUME NEW o \in Overlords, CrashOverlord(o) PROVE IInv'
  <2>1. ClientTypes' /\ HandlerTypes'
    BY <1>2, Limits DEF CrashOverlord, IInv, TypeOK, ClientTypes, HandlerTypes
  <2>2. MonitorTypes'
    BY <1>2, Limits DEF CrashOverlord, IInv, TypeOK, MonitorTypes
  <2>3. VoteInv'
    BY <1>2, Limits DEF CrashOverlord, IInv, TypeOK, MonitorTypes, VoteInv, ChecksCounted,
      PromotedHasPriority, YieldsToSmaller
  <2>4. BoundTypes'
    BY <1>2, Limits DEF CrashOverlord, IInv, TypeOK, BoundTypes
  <2> QED
    BY <1>2, <2>1, <2>2, <2>3, <2>4, CerebrateUnchanged, FleetUnchanged
    DEF CrashOverlord, IInv, TypeOK
<1>3. CASE StartCerebrate \/ SetHAManager
  <2>1. CerebrateTypes' /\ HandlerTypes' /\ FleetInv'
    BY <1>3 DEF StartCerebrate, SetHAManager, IInv, TypeOK, CerebrateTypes, HandlerTypes,
      FleetInv, HandledInFleet, AtMostTwoBackups, BackupsInFleet
  <2> QED
    BY <1>3, <2>1, ClientUnchanged, MonitorUnchanged, BoundsUnchanged
    DEF StartCerebrate, SetHAManager, IInv, TypeOK
<1>4. CASE CrashCerebrate
  <2>1. backups' \in Seq(Overlords) /\ Len(backups') = 0
    BY <1>4 DEF CrashCerebrate
  <2>2. CerebrateTypes' /\ HandlerTypes'
    BY <1>4, <2>1 DEF CrashCerebrate, CerebrateTypes, HandlerTypes
  <2>4. FleetInv'
    BY <1>4, <2>1 DEF CrashCerebrate, FleetInv, HandledInFleet, AtMostTwoBackups,
      BackupsInFleet, MaxBackups
  <2>3. BoundTypes'
    BY <1>4, Limits DEF CrashCerebrate, IInv, TypeOK, BoundTypes
  <2> QED
    BY <1>4, <2>2, <2>3, <2>4, ClientUnchanged, MonitorUnchanged DEF CrashCerebrate, IInv, TypeOK
<1> QED BY <1>1, <1>2, <1>3, <1>4

LEMMA NextKeepsIInv == IInv /\ [Next]_vars => IInv'
<1> SUFFICES ASSUME IInv, [Next]_vars PROVE IInv'
  OBVIOUS
<1>1. CASE UNCHANGED vars
  <2>1. HandlerTypes'
    BY <1>1 DEF vars, IInv, TypeOK, HandlerTypes
  <2> QED
    BY <1>1, <2>1, CerebrateUnchanged, FleetUnchanged, ClientUnchanged, MonitorUnchanged,
      BoundsUnchanged DEF vars, IInv, TypeOK
<1>2. CASE Next
  BY <1>2, HandlerKeepsIInv, ClientKeepsIInv, MonitorKeepsIInv, ProcessKeepsIInv DEF Next
<1> QED BY <1>1, <1>2

LEMMA InvariantIInv == Spec => []IInv
BY InitIInv, NextKeepsIInv, PTL DEF Spec

(* Two peers that both had priority would each be smaller than the other.  *)
LEMMA PriorityIsExclusive == IInv => PeersPickOne
<1> SUFFICES ASSUME IInv, ~unreached, NEW o \in Overlords, {o, Peer[o]} \subseteq Promoted
             PROVE  FALSE
  BY DEF PeersPickOne
<1>1. Peer[o] \in Overlords /\ Peer[o] # NoPeer /\ Peer[Peer[o]] = o
  BY Pairs DEF Promoted
<1>2. monitor[o] = "promoted" /\ monitor[Peer[o]] = "promoted" /\ o # NoPeer
  BY Pairs DEF Promoted
<1>3. o < Peer[o] /\ Peer[o] < Peer[Peer[o]]
  BY <1>1, <1>2 DEF IInv, VoteInv, PromotedHasPriority
<1>4. o \in Nat /\ Peer[o] \in Nat
  BY <1>1, Pairs
<1> QED BY <1>1, <1>3, <1>4

-----------------------------------------------------------------------------

(* Every variable keeps its type; in particular the failure counters of    *)
(* heartbeat loop and monitor stay within their limit.                     *)
THEOREM TypeCorrect == Spec => []TypeOK
BY InvariantIInv, PTL DEF IInv

(* However many Overlords register at once, two are designated.            *)
THEOREM TwoBackups == Spec => []AtMostTwoBackups
BY InvariantIInv, PTL DEF IInv, FleetInv

(* Every designated backup is an Overlord the Cerebrate has in its fleet.  *)
THEOREM BackupsKnown == Spec => []BackupsInFleet
BY InvariantIInv, PTL DEF IInv, FleetInv

(* Among peers that could ask each other, one promotes.                    *)
THEOREM OnePromotes == Spec => []PeersPickOne
BY InvariantIInv, PriorityIsExclusive, PTL

(* An Overlord gives up its claim only to a peer with a smaller id.        *)
THEOREM YieldsOnlyToPriority == Spec => []YieldsToSmaller
BY InvariantIInv, PTL DEF IInv, VoteInv
=============================================================================
