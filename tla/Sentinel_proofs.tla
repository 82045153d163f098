-------------------------- MODULE Sentinel_proofs --------------------------
(***************************************************************************)
(* What the anomaly detector keeps for every set of metrics, every tier    *)
(* and every count: its types, and the two promises its reports make.      *)
(***************************************************************************)
EXTENDS Sentinel, TLAPS

Consecutive == {"sustained", "dual"}

\* The parts of the inductive invariant.

\* A cooldown is over when the detector watches.
WatchIsWarm == state \in {"Idle", "Watch"} => ~cooling

\* A sustained metric's count is a run of breaches that really was seen.
CountsSeen ==
    \A m \in Metric : Kind[m] \in Consecutive =>
        /\ counts[m] < SustainedCount
        /\ suppressed[m] # "none" => counts[m] = 0
        /\ state \in {"Idle", "Watch"} => counts[m] <= streak[m]

\* A metric that is not suppressed was never reported, or recovered since.
FreeIsCleared == \A m \in Metric : suppressed[m] = "none" => m \in cleared

\* Nothing is counted before the baseline is ready.
IdleCounts == state = "Idle" => \A m \in Metric : counts[m] = 0

IInv == TypeOK /\ IdleCounts /\ WatchIsWarm /\ CountsSeen /\ FreeIsCleared

-----------------------------------------------------------------------------
(* Lemmas about the operators of the detection.                            *)

\* A sample holds the current values of metrics.
LEMMA SampleValues ==
    ASSUME NEW t
    PROVE  /\ DOMAIN Sample(t) \subseteq Metric
           /\ \A m \in DOMAIN Sample(t) : Sample(t)[m] = val[m]
  BY DEF Sample, Present

\* The places of the order are places of metrics.
LEMMA PlaceIsMetric ==
    ASSUME NEW i \in 1 .. Len(Order)
    PROVE  Order[i] \in Metric
  BY DEF Metric

\* It takes at least one sample to trigger.
LEMMA NeededPositive ==
    ASSUME NEW m \in Metric
    PROVE  /\ Needed(m) \in Nat \ {0}
           /\ Kind[m] \in Consecutive => Needed(m) = SustainedCount
  BY CountAssumption DEF Needed, Consecutive

\* A count goes up by one or back to 0.
LEMMA CountedType ==
    ASSUME NEW m \in Metric, NEW s, counts \in [Metric -> Nat]
    PROVE  Counted(m, s) \in Nat
  BY DEF Counted

\* A scan leaves numbers behind.
LEMMA CountsUpToType ==
    ASSUME NEW n, NEW s, NEW kinds, NEW old \in [Metric -> Nat],
           counts \in [Metric -> Nat]
    PROVE  CountsUpTo(n, s, kinds, old) \in [Metric -> Nat]
  BY CountedType DEF CountsUpTo

\* Resetting leaves numbers behind.
LEMMA ResetCountsType ==
    ASSUME NEW old \in [Metric -> Nat]
    PROVE  ResetCounts(old) \in [Metric -> Nat]
  BY DEF ResetCounts

\* Recovering leaves limits behind.
LEMMA RecoveryType ==
    ASSUME NEW s, suppressed \in [Metric -> Limits \union {"none"}]
    PROVE  Recovery(s) \in [Metric -> Limits \union {"none"}]
  BY DEF Recovery

\* What a scan of the extended kinds does to the count of a session metric:
\* nothing.
LEMMA ExtendedLeaves ==
    ASSUME NEW n, NEW s, NEW old, NEW m \in Metric, Kind[m] \in Consecutive
    PROVE  CountsUpTo(n, s, ExtendedKinds, old)[m] = old[m]
  BY DEF CountsUpTo, Considered, ExtendedKinds, Consecutive

\* A metric out of suppression once the sample is seen was cleared.
LEMMA RecoveryCleared ==
    ASSUME NEW t, NEW m \in Metric, FreeIsCleared, Recovery(Sample(t))[m] = "none"
    PROVE  m \in SeenToRecover(Sample(t))
  BY DEF FreeIsCleared, Recovery, SeenToRecover

-----------------------------------------------------------------------------
(* What one tick leaves, whatever the detector makes of its sample.        *)

\* The tick's own part of the types.
TickTypes == /\ tickCount' \in 0 .. (Period - 1)
             /\ streak' \in [Metric -> 0 .. SustainedCount]
             /\ stopCh' \in BOOLEAN
             /\ alertCh' \in 0 .. AlertCap
             /\ val' \in [Metric -> Levels] /\ dbUp' \in BOOLEAN

\* A tick keeps the types of what it changes itself.
LEMMA TickKeepsTypes ==
    ASSUME TypeOK, NEW s, Tick(s)
    PROVE  TickTypes
<1>1. tickCount' \in 0 .. (Period - 1)
  BY TierAssumption DEF TypeOK, Tick
<1>2. streak' \in [Metric -> 0 .. SustainedCount]
  BY CountAssumption DEF TypeOK, Tick
<1> QED  BY <1>1, <1>2 DEF TypeOK, Tick, dbVars, TickTypes

\* The baseline window holds no more samples than it may.
LEMMA PushKeepsType ==
    ASSUME TypeOK, PushSample
    PROVE  samples' \in 0 .. Window
  BY WindowAssumption DEF TypeOK, PushSample

\* The metrics seen to recover are metrics.
LEMMA SeenType ==
    ASSUME TypeOK, NEW t
    PROVE  SeenToRecover(Sample(t)) \subseteq Metric
  BY SampleValues DEF TypeOK, SeenToRecover

\* Over one sample a count that does not make its metric trigger keeps up
\* with the run of breaches the history sees.
LEMMA ScanSeen ==
    ASSUME TypeOK, CountsSeen, state = "Watch", NEW s, Tick(s),
           NEW m \in Metric, Kind[m] \in Consecutive, ~cooling,
           NoSessionTrigger(s)
    PROVE  /\ Scanned(s)[m] < SustainedCount
           /\ Scanned(s)[m] <= streak'[m]
           /\ Recovery(s)[m] # "none" => Scanned(s)[m] = 0
<1>1. FiringPlaces(s, SessionKinds) = {}  BY DEF NoSessionTrigger
<1>2. ~Fires(m, s, SessionKinds)
  BY <1>1 DEF FiringPlaces, Metric
<1>3. Kind[m] \in SessionKinds /\ Kind[m] # "capacity"
  BY DEF Consecutive, SessionKinds
<1>4. \E i \in 1 .. Len(Order) : Order[i] = m  BY DEF Metric
<1>5. Scanned(s)[m] = IF Considered(m, s, SessionKinds) THEN Counted(m, s) ELSE counts[m]
  BY <1>2, <1>3, <1>4 DEF Scanned, CountsUpTo
<1>6. /\ counts[m] \in Nat /\ counts[m] < SustainedCount /\ counts[m] <= streak[m]
      /\ streak[m] \in 0 .. SustainedCount
      /\ suppressed[m] # "none" => counts[m] = 0
  BY DEF TypeOK, CountsSeen
<1>7. streak'[m] = IF m \notin DOMAIN s THEN streak[m]
                   ELSE IF ~Breach(m, s[m]) THEN 0
                   ELSE IF streak[m] < SustainedCount THEN streak[m] + 1 ELSE streak[m]
  BY DEF Tick
<1>8. CASE Considered(m, s, SessionKinds)
  <2>1. m \in DOMAIN s /\ Recovery(s)[m] = "none"  BY <1>8 DEF Considered
  <2>2. Counted(m, s) < SustainedCount
    BY <1>2, <1>8, <1>6, NeededPositive, CountedType, CountAssumption DEF Fires, TypeOK
  <2>3. Counted(m, s) <= streak'[m]
    BY <2>1, <1>6, <1>7, CountAssumption DEF Counted
  <2> QED  BY <1>5, <1>8, <2>1, <2>2, <2>3
<1>9. CASE ~Considered(m, s, SessionKinds)
  <2>1. m \notin DOMAIN s \/ Recovery(s)[m] # "none"  BY <1>9, <1>3 DEF Considered
  <2>2. Recovery(s)[m] # "none" => suppressed[m] # "none"  BY DEF Recovery
  <2>3. counts[m] <= streak'[m]
    BY <2>1, <2>2, <1>6, <1>7, CountAssumption
  <2> QED  BY <1>5, <1>6, <1>9, <2>2, <2>3
<1> QED  BY <1>8, <1>9

\* A trigger leaves everything typed but the counts.
LEMMA TriggerTypes ==
    ASSUME TypeOK, NEW t, NEW s, s = Sample(t), Tick(s), PushSample,
           NEW m \in Metric, Trigger(m, s), counts' \in [Metric -> Nat]
    PROVE  TypeOK'
<1>1. TickTypes  BY TickKeepsTypes
<1>2. samples' \in 0 .. Window  BY PushKeepsType
<1>3. cleared' \subseteq Metric  BY SeenType DEF Trigger
<1>4. suppressed' \in [Metric -> Limits \union {"none"}]
  BY RecoveryType DEF TypeOK, Trigger, Limit, Limits
<1> QED  BY <1>1, <1>2, <1>3, <1>4 DEF TypeOK, TickTypes, Trigger

\* A trigger leaves cleared what is not suppressed.
LEMMA TriggerCleared ==
    ASSUME TypeOK, FreeIsCleared, NEW t, NEW s, s = Sample(t),
           NEW m \in Metric, Trigger(m, s)
    PROVE  FreeIsCleared'
<1>1. Recovery(s) \in [Metric -> Limits \union {"none"}]  BY RecoveryType DEF TypeOK
<1>2. \A x \in Metric : x # m => suppressed'[x] = Recovery(s)[x]
  BY <1>1 DEF Trigger
<1>3. suppressed'[m] # "none"  BY <1>1 DEF Trigger, Limit
<1>4. \A x \in Metric : x # m /\ suppressed'[x] = "none" => x \in SeenToRecover(s)
  BY <1>2, RecoveryCleared
<1> QED  BY <1>3, <1>4 DEF FreeIsCleared, Trigger

-----------------------------------------------------------------------------
(* The invariant holds at first and every action keeps it.                 *)

\* The detector's owner has not started it yet: nothing was counted.
LEMMA InitInv == Init => IInv
<1> SUFFICES ASSUME Init PROVE IInv  OBVIOUS
<1>1. Order[1] \in Metric
  BY PlaceIsMetric, OrderAssumption
<1>2. TypeOK
  <2>1. tickCount \in 0 .. (Period - 1) /\ samples \in 0 .. Window /\ alertCh \in 0 .. AlertCap
    BY TierAssumption, CountAssumption, WindowAssumption DEF Init
  <2>2. counts \in [Metric -> Nat] /\ streak \in [Metric -> 0 .. SustainedCount]
    BY CountAssumption DEF Init
  <2>3. suppressed \in [Metric -> Limits \union {"none"}] /\ val \in [Metric -> Levels]
    BY DEF Init, Levels
  <2> QED  BY <1>1, <2>1, <2>2, <2>3 DEF Init, TypeOK
<1>3. CountsSeen
  BY CountAssumption DEF Init, CountsSeen
<1> QED  BY <1>2, <1>3 DEF Init, IInv, IdleCounts, WatchIsWarm, FreeIsCleared

\* A tick while the baseline is not ready.
LEMMA TickIdleInv == IInv /\ TickIdle => IInv'
<1> SUFFICES ASSUME IInv, TickIdle PROVE IInv'  OBVIOUS
<1> USE DEF IInv
<1>s. PICK s \in {Sample(tickCount + 1)} :
        /\ Tick(s)
        /\ state = "Idle"
        /\ PushSample
        /\ state' = IF samples' >= ReadySamples THEN "Watch" ELSE "Idle"
        /\ cleared' = SeenToRecover(s)
        /\ UNCHANGED <<pc, counts, suppressed, trigger, clockVars>>
  BY DEF TickIdle
<1>1. TypeOK'
  <2>1. TickTypes  BY <1>s, TickKeepsTypes
  <2>2. samples' \in 0 .. Window  BY <1>s, PushKeepsType
  <2>3. cleared' \subseteq Metric  BY <1>s, SeenType
  <2> QED  BY <1>s, <2>1, <2>2, <2>3 DEF TypeOK, TickTypes, clockVars
<1>2. WatchIsWarm'  BY <1>s DEF WatchIsWarm, clockVars
<1>3. CountsSeen'
  <2>1. \A m \in Metric : Kind[m] \in Consecutive => counts[m] = 0
    BY <1>s DEF IdleCounts
  <2> QED  BY <2>1, <1>s, CountAssumption, TickKeepsTypes DEF CountsSeen, TickTypes
<1>4. FreeIsCleared'  BY <1>s DEF FreeIsCleared, SeenToRecover
<1>5. IdleCounts'  BY <1>s DEF IdleCounts
<1> QED  BY <1>1, <1>2, <1>3, <1>4, <1>5

\* A session metric triggers: its counts start again with all the others.
LEMMA TickSessionInv == IInv /\ TickSessionTrigger => IInv'
<1> SUFFICES ASSUME IInv, TickSessionTrigger PROVE IInv'  OBVIOUS
<1> USE DEF IInv
<1>s. PICK s \in {Sample(tickCount + 1)} :
        /\ Tick(s)
        /\ PushSample
        /\ \E i \in FiringPlaces(s, SessionKinds) : Trigger(Order[i], s)
        /\ counts' = ResetCounts(counts)
  BY DEF TickSessionTrigger
<1>i. PICK i \in 1 .. Len(Order) : Fires(Order[i], s, SessionKinds) /\ Trigger(Order[i], s)
  BY <1>s DEF FiringPlaces
<1>m. Order[i] \in Metric  BY PlaceIsMetric
<1>1. TypeOK'
  BY <1>s, <1>i, <1>m, TriggerTypes, ResetCountsType DEF TypeOK
<1>2. WatchIsWarm'  BY <1>i DEF WatchIsWarm, Trigger
<1>3. CountsSeen'
  <2>1. \A m \in Metric : Kind[m] \in Consecutive => counts'[m] = 0
    BY <1>s DEF ResetCounts, Consecutive, SessionKinds
  <2> QED  BY <2>1, <1>i, CountAssumption DEF CountsSeen, Trigger
<1>4. FreeIsCleared'  BY <1>s, <1>i, <1>m, TriggerCleared
<1>5. IdleCounts'  BY <1>i DEF IdleCounts, Trigger
<1> QED  BY <1>1, <1>2, <1>3, <1>4, <1>5

\* An extended metric triggers: the session counts stay as scanned.
LEMMA TickExtendedInv == IInv /\ TickExtendedTrigger => IInv'
<1> SUFFICES ASSUME IInv, TickExtendedTrigger PROVE IInv'  OBVIOUS
<1> USE DEF IInv
<1>s. PICK s \in {Sample(tickCount + 1)} :
        /\ Tick(s)
        /\ state = "Watch" /\ NoSessionTrigger(s)
        /\ PushSample
        /\ \E i \in FiringPlaces(s, ExtendedKinds) :
              /\ Trigger(Order[i], s)
              /\ counts' = CountsUpTo(i, s, ExtendedKinds, Scanned(s))
  BY DEF TickExtendedTrigger
<1>i. PICK i \in 1 .. Len(Order) :
        /\ Fires(Order[i], s, ExtendedKinds)
        /\ Trigger(Order[i], s)
        /\ counts' = CountsUpTo(i, s, ExtendedKinds, Scanned(s))
  BY <1>s DEF FiringPlaces
<1>m. Order[i] \in Metric  BY PlaceIsMetric
<1>c. counts \in [Metric -> Nat] /\ Scanned(s) \in [Metric -> Nat]
  BY CountsUpToType DEF TypeOK, Scanned
<1>1. TypeOK'
  BY <1>s, <1>i, <1>m, <1>c, TriggerTypes, CountsUpToType
<1>2. WatchIsWarm'  BY <1>i DEF WatchIsWarm, Trigger
<1>3. CountsSeen'
  <2> SUFFICES ASSUME NEW m \in Metric, Kind[m] \in Consecutive
               PROVE  /\ counts'[m] < SustainedCount
                      /\ suppressed'[m] # "none" => counts'[m] = 0
    BY <1>i DEF CountsSeen, Trigger
  <2>1. counts'[m] = Scanned(s)[m]  BY <1>i, ExtendedLeaves
  <2>2. /\ Scanned(s)[m] < SustainedCount
        /\ Recovery(s)[m] # "none" => Scanned(s)[m] = 0
    BY <1>s, ScanSeen DEF WatchIsWarm
  <2>3. m # Order[i]
    BY <1>i DEF Fires, Considered, Consecutive, ExtendedKinds
  <2>4. suppressed'[m] = Recovery(s)[m]
    BY <1>i, <2>3, RecoveryType DEF Trigger, TypeOK
  <2> QED  BY <2>1, <2>2, <2>4
<1>4. FreeIsCleared'  BY <1>s, <1>i, <1>m, TriggerCleared
<1>5. IdleCounts'  BY <1>i DEF IdleCounts, Trigger
<1> QED  BY <1>1, <1>2, <1>3, <1>4, <1>5

\* Nothing triggers: the counts are those of the scans.
LEMMA TickNoTriggerInv == IInv /\ TickNoTrigger => IInv'
<1> SUFFICES ASSUME IInv, TickNoTrigger PROVE IInv'  OBVIOUS
<1> USE DEF IInv
<1>s. PICK s \in {Sample(tickCount + 1)} :
        /\ Tick(s)
        /\ state = "Watch" /\ NoSessionTrigger(s)
        /\ PushSample
        /\ counts' = CountsUpTo(Len(Order), s, ExtendedKinds, Scanned(s))
        /\ suppressed' = Recovery(s)
        /\ cleared' = SeenToRecover(s)
        /\ UNCHANGED <<pc, state, trigger, clockVars>>
  BY DEF TickNoTrigger
<1>c. counts \in [Metric -> Nat] /\ Scanned(s) \in [Metric -> Nat]
  BY CountsUpToType DEF TypeOK, Scanned
<1>1. TypeOK'
  <2>1. TickTypes  BY <1>s, TickKeepsTypes
  <2>2. samples' \in 0 .. Window  BY <1>s, PushKeepsType
  <2>3. cleared' \subseteq Metric  BY <1>s, SeenType
  <2>4. suppressed' \in [Metric -> Limits \union {"none"}]
    BY <1>s, RecoveryType DEF TypeOK
  <2>5. counts' \in [Metric -> Nat]  BY <1>s, <1>c, CountsUpToType
  <2> QED  BY <1>s, <2>1, <2>2, <2>3, <2>4, <2>5 DEF TypeOK, TickTypes, clockVars
<1>2. WatchIsWarm'  BY <1>s DEF WatchIsWarm, clockVars
<1>3. CountsSeen'
  <2> SUFFICES ASSUME NEW m \in Metric, Kind[m] \in Consecutive
               PROVE  /\ counts'[m] < SustainedCount
                      /\ suppressed'[m] # "none" => counts'[m] = 0
                      /\ counts'[m] <= streak'[m]
    BY DEF CountsSeen
  <2>1. counts'[m] = Scanned(s)[m]  BY <1>s, ExtendedLeaves
  <2> QED  BY <1>s, <2>1, ScanSeen DEF WatchIsWarm
<1>4. FreeIsCleared'
  <2>1. \A m \in Metric : Recovery(s)[m] = "none" => m \in SeenToRecover(s)
    BY <1>s, RecoveryCleared
  <2> QED  BY <1>s, <2>1 DEF FreeIsCleared
<1>5. IdleCounts'  BY <1>s DEF IdleCounts
<1> QED  BY <1>1, <1>2, <1>3, <1>4, <1>5

\* The cooldown: the counts start again when it is over.
LEMMA TickCooldownInv == IInv /\ TickCooldown => IInv'
<1> SUFFICES ASSUME IInv, TickCooldown PROVE IInv'  OBVIOUS
<1> USE DEF IInv
<1>s. PICK s \in {Sample(tickCount + 1)} :
        /\ Tick(s)
        /\ state = "Cooldown"
        /\ PushSample
        /\ suppressed' = Recovery(s)
        /\ cleared' = SeenToRecover(s)
        /\ state' = IF cooling THEN "Cooldown" ELSE "Watch"
        /\ counts' = IF cooling THEN counts ELSE ResetCounts(counts)
        /\ UNCHANGED <<pc, trigger, clockVars>>
  BY DEF TickCooldown
<1>1. TypeOK'
  <2>1. TickTypes  BY <1>s, TickKeepsTypes
  <2>2. samples' \in 0 .. Window  BY <1>s, PushKeepsType
  <2>3. cleared' \subseteq Metric  BY <1>s, SeenType
  <2>4. suppressed' \in [Metric -> Limits \union {"none"}]
    BY <1>s, RecoveryType DEF TypeOK
  <2>5. counts' \in [Metric -> Nat]  BY <1>s, ResetCountsType DEF TypeOK
  <2> QED  BY <1>s, <2>1, <2>2, <2>3, <2>4, <2>5 DEF TypeOK, TickTypes, clockVars
<1>2. WatchIsWarm'  BY <1>s DEF WatchIsWarm, clockVars
<1>3. CountsSeen'
  <2> SUFFICES ASSUME NEW m \in Metric, Kind[m] \in Consecutive
               PROVE  /\ counts'[m] < SustainedCount
                      /\ suppressed'[m] # "none" => counts'[m] = 0
                      /\ state' = "Watch" => counts'[m] <= streak'[m]
    BY <1>s DEF CountsSeen
  <2>1. CASE cooling
    <3>1. suppressed'[m] # "none" => suppressed[m] # "none"
      BY <1>s DEF Recovery
    <3> QED  BY <1>s, <2>1, <3>1 DEF CountsSeen
  <2>2. CASE ~cooling
    <3>1. counts'[m] = 0
      BY <1>s, <2>2 DEF ResetCounts, Consecutive, SessionKinds
    <3>2. streak'[m] \in 0 .. SustainedCount
      BY <1>s, TickKeepsTypes DEF TickTypes
    <3> QED  BY <3>1, <3>2, CountAssumption
  <2> QED  BY <2>1, <2>2
<1>4. FreeIsCleared'
  <2>1. \A m \in Metric : Recovery(s)[m] = "none" => m \in SeenToRecover(s)
    BY <1>s, RecoveryCleared
  <2> QED  BY <1>s, <2>1 DEF FreeIsCleared
<1>5. IdleCounts'  BY <1>s DEF IdleCounts
<1> QED  BY <1>1, <1>2, <1>3, <1>4, <1>5

\* A detector that stopped is forgotten: the next one starts from nothing.
LEMMA LoopStopsInv == IInv /\ LoopStops => IInv'
<1> SUFFICES ASSUME IInv, LoopStops PROVE IInv'  OBVIOUS
<1> USE DEF IInv
<1>1. TypeOK'
  <2>1. Order[1] \in Metric  BY PlaceIsMetric, OrderAssumption
  <2>2. tickCount' \in 0 .. (Period - 1) /\ samples' \in 0 .. Window /\ alertCh' \in 0 .. AlertCap
    BY TierAssumption, CountAssumption, WindowAssumption DEF LoopStops, NewDetector
  <2>3. counts' \in [Metric -> Nat] /\ streak' \in [Metric -> 0 .. SustainedCount]
    BY CountAssumption DEF LoopStops, NewDetector
  <2>4. suppressed' \in [Metric -> Limits \union {"none"}]
    BY DEF LoopStops, NewDetector
  <2> QED  BY <2>1, <2>2, <2>3, <2>4 DEF TypeOK, LoopStops, NewDetector, dbVars
<1>2. CountsSeen'  BY CountAssumption DEF CountsSeen, LoopStops, NewDetector
<1> QED
  BY <1>1, <1>2 DEF LoopStops, NewDetector, IdleCounts, WatchIsWarm, FreeIsCleared

\* The steps that leave the detection alone.
Aside == \/ Start \/ Stop
         \/ \E quiet \in BOOLEAN : FrameGoesOn(quiet) \/ FrameEnds(quiet)
         \/ BurstStops \/ Report \/ TakeAlert
         \/ CooldownPasses \/ CalmDelayPasses \/ BurstDurationPasses
         \/ \E m \in Metric, v \in Levels : ValueMoves(m, v)
         \/ DatabaseFlips

\* They keep the types.
LEMMA AsideTypes == TypeOK /\ Aside => TypeOK'
<1> SUFFICES ASSUME TypeOK, Aside PROVE TypeOK'  OBVIOUS
<1> USE DEF TypeOK, loopVars, detectVars, clockVars, dbVars, history
<1>1. CASE Start \/ Stop  BY <1>1 DEF Start, Stop
<1>2. CASE \E quiet \in BOOLEAN : FrameGoesOn(quiet)  BY <1>2 DEF FrameGoesOn
<1>3. CASE (\E quiet \in BOOLEAN : FrameEnds(quiet)) \/ BurstStops
  BY <1>3 DEF FrameEnds, BurstStops, BurstEnds
<1>4. CASE Report  BY <1>4, CountAssumption DEF Report
<1>5. CASE TakeAlert  BY <1>5, CountAssumption DEF TakeAlert
<1>6. CASE CooldownPasses \/ CalmDelayPasses \/ BurstDurationPasses
  BY <1>6 DEF CooldownPasses, CalmDelayPasses, BurstDurationPasses
<1>7. CASE \E m \in Metric, v \in Levels : ValueMoves(m, v)  BY <1>7 DEF ValueMoves
<1>8. CASE DatabaseFlips  BY <1>8 DEF DatabaseFlips
<1> QED  BY <1>1, <1>2, <1>3, <1>4, <1>5, <1>6, <1>7, <1>8 DEF Aside

\* They count, suppress and clear nothing, and bring no cooldown forward.
LEMMA AsideLeaves ==
    Aside => /\ UNCHANGED <<counts, suppressed, streak, cleared>>
             /\ state' = state \/ state' = "Cooldown"
             /\ cooling' = cooling \/ state' = "Cooldown"
  BY DEF Aside, Start, Stop, FrameGoesOn, FrameEnds, BurstStops, BurstEnds, Report,
         TakeAlert, CooldownPasses, CalmDelayPasses, BurstDurationPasses, ValueMoves,
         DatabaseFlips, loopVars, detectVars, clockVars, dbVars, history

\* They keep the invariant.
LEMMA AsideInv == IInv /\ Aside => IInv'
  BY AsideTypes, AsideLeaves DEF IInv, IdleCounts, WatchIsWarm, CountsSeen, FreeIsCleared

\* Every step keeps the invariant.
LEMMA NextInv == IInv /\ [Next]_vars => IInv'
<1> SUFFICES ASSUME IInv, [Next]_vars PROVE IInv'  OBVIOUS
<1>1. CASE LoopStops  BY <1>1, LoopStopsInv
<1>2. CASE TickIdle  BY <1>2, TickIdleInv
<1>3. CASE TickSessionTrigger  BY <1>3, TickSessionInv
<1>4. CASE TickExtendedTrigger  BY <1>4, TickExtendedInv
<1>5. CASE TickNoTrigger  BY <1>5, TickNoTriggerInv
<1>6. CASE TickCooldown  BY <1>6, TickCooldownInv
<1>7. CASE Aside  BY <1>7, AsideInv
<1>8. CASE UNCHANGED vars
  BY <1>8 DEF IInv, TypeOK, IdleCounts, WatchIsWarm, CountsSeen, FreeIsCleared, vars,
              loopVars, detectVars, clockVars, dbVars, history
<1> QED  BY <1>1, <1>2, <1>3, <1>4, <1>5, <1>6, <1>7, <1>8 DEF Next, Aside

\* The invariant the theorems below rest on.
LEMMA Invariant == Spec => []IInv
  BY InitInv, NextInv, PTL DEF Spec

-----------------------------------------------------------------------------
(* The theorems.                                                           *)

\* The detector's state stays within its types: counts are numbers, every
\* suppressed metric has a limit, the alert channel never exceeds its capacity.
THEOREM TypeCorrect == Spec => []TypeOK
<1>1. IInv => TypeOK  BY DEF IInv
<1> QED  BY Invariant, <1>1, PTL

\* Only the two kinds of trigger report.
LEMMA ReportIsTrigger ==
    ASSUME IInv, [Next]_vars, NEW m, Reports(m)
    PROVE  TickSessionTrigger \/ TickExtendedTrigger
<1>1. state = "Watch" /\ state' = "Burst"  BY DEF Reports
<1>2. ~Aside  BY <1>1, AsideLeaves
<1>3. ~UNCHANGED vars  BY <1>1 DEF vars, detectVars
<1>4. ~LoopStops  BY <1>1 DEF LoopStops, NewDetector
<1>5. ~TickIdle /\ ~TickNoTrigger /\ ~TickCooldown
  BY <1>1 DEF TickIdle, TickNoTrigger, TickCooldown
<1> QED  BY <1>2, <1>3, <1>4, <1>5 DEF Next, Aside

\* A metric that triggers was in breach often enough in a row.
LEMMA TriggerWasSustained ==
    ASSUME IInv, TickSessionTrigger \/ TickExtendedTrigger,
           NEW m \in Metric, Reports(m), Kind[m] \in Consecutive
    PROVE  streak'[m] = SustainedCount
<1>1. state = "Watch" /\ trigger' = m  BY DEF Reports
<1>2. CASE TickExtendedTrigger
  <2>s. PICK s \in {Sample(tickCount + 1)} :
          \E i \in FiringPlaces(s, ExtendedKinds) : Trigger(Order[i], s)
    BY <1>2 DEF TickExtendedTrigger
  <2>1. PICK i \in 1 .. Len(Order) :
          Fires(Order[i], s, ExtendedKinds) /\ trigger' = Order[i]
    BY <2>s DEF FiringPlaces, Trigger
  <2> QED  BY <1>1, <2>1 DEF Fires, Considered, ExtendedKinds, Consecutive
<1>3. CASE TickSessionTrigger
  <2>s. PICK s \in {Sample(tickCount + 1)} :
          Tick(s) /\ \E i \in FiringPlaces(s, SessionKinds) : Trigger(Order[i], s)
    BY <1>3 DEF TickSessionTrigger
  <2>1. PICK i \in 1 .. Len(Order) :
          Fires(Order[i], s, SessionKinds) /\ trigger' = Order[i]
    BY <2>s DEF FiringPlaces, Trigger
  <2>2. m \in DOMAIN s /\ Counted(m, s) >= SustainedCount
    BY <1>1, <2>1, NeededPositive DEF Fires, Considered
  <2>3. /\ counts[m] \in Nat /\ counts[m] <= streak[m]
        /\ streak[m] \in 0 .. SustainedCount
    BY <1>1 DEF IInv, TypeOK, CountsSeen
  <2>4. Breach(m, s[m]) /\ counts[m] + 1 >= SustainedCount
    BY <2>2, CountAssumption DEF Counted
  <2>5. streak'[m] = IF streak[m] < SustainedCount THEN streak[m] + 1 ELSE streak[m]
    BY <2>s, <2>2, <2>4 DEF Tick
  <2> QED  BY <2>3, <2>4, <2>5, CountAssumption
<1> QED  BY <1>2, <1>3

\* Whatever the metrics, tiers and counts: a sustained metric is reported
\* only after SustainedCount samples in breach with no other one between.
THEOREM Consecutively == Spec => SustainedMeansConsecutive
<1>1. ASSUME IInv, [Next]_vars
      PROVE  [\A m \in Metric : Reports(m) /\ Kind[m] \in {"sustained", "dual"}
                => streak'[m] = SustainedCount]_vars
  BY <1>1, ReportIsTrigger, TriggerWasSustained DEF Consecutive
<1> QED  BY Invariant, <1>1, PTL DEF Spec, SustainedMeansConsecutive

\* A metric that triggers is not suppressed, so it has recovered.
LEMMA TriggerWasCleared ==
    ASSUME IInv, TickSessionTrigger \/ TickExtendedTrigger, NEW m \in Metric, Reports(m)
    PROVE  m \in SeenToRecover(Sample(tickCount + 1))
<1>1. PICK i \in 1 .. Len(Order), kinds \in {SessionKinds, ExtendedKinds} :
        Fires(Order[i], Sample(tickCount + 1), kinds) /\ trigger' = Order[i]
  BY DEF TickSessionTrigger, TickExtendedTrigger, FiringPlaces, Trigger
<1>2. Recovery(Sample(tickCount + 1))[m] = "none"
  BY <1>1 DEF Reports, Fires, Considered
<1> QED  BY <1>2, RecoveryCleared DEF IInv

\* A metric is never reported twice without a sample in between that was
\* back behind the limit of the first report.
THEOREM Once == Spec => ReportedOnce
<1>1. ASSUME IInv, [Next]_vars
      PROVE  [\A m \in Metric : Reports(m)
                => m \in SeenToRecover(Sample(tickCount + 1))]_vars
  BY <1>1, ReportIsTrigger, TriggerWasCleared
<1> QED  BY Invariant, <1>1, PTL DEF Spec, ReportedOnce
=============================================================================
