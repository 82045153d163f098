------------------------------ MODULE Sentinel ------------------------------
(***************************************************************************)
(* The background anomaly detector of PostgreSQL: one goroutine samples    *)
(* the metrics, waits for a baseline, watches for a metric in breach, runs *)
(* a burst collection about it, raises an alert and cools down.  A metric  *)
(* that was reported is suppressed until it recovers.                      *)
(*                                                                         *)
(* Source: src/internal/postgres/sentinel/sentinel.go, burst.go,           *)
(* detector.go, baseline.go and the skill that owns the detector,          *)
(* src/internal/postgres/skill/ai/sentinel_skill.go.                       *)
(*                                                                         *)
(* A value is abstracted to where it lies: "good" (recovered), "band"      *)
(* (between recovery and breach), "bad" (in breach) or "absent" (the probe *)
(* returned nothing for the metric).  What band means depends on the       *)
(* metric's kind, see Breach and Recovered.                                *)
(***************************************************************************)
EXTENDS Naturals, Sequences, FiniteSets

CONSTANTS Order,           \* metricPriorityOrder
          Kind,            \* the strategy of every metric
          Every,           \* the tier of a metric: sampled every that many ticks
          Period,          \* a common multiple of the tiers (bounds tickCount)
          SustainedCount,  \* samples in breach before a sustained metric triggers
          ReadySamples,    \* samples that make the baseline ready (10)
          Window,          \* cfg.BaselineWindow
          AlertCap         \* capacity of alertCh (4)

Metric == {Order[i] : i \in 1 .. Len(Order)}

SessionKinds == {"sustained", "dual", "instant"}         \* T1 and T2
ExtendedKinds == {"floor", "trend", "capacity"}          \* T8/T9, T3, T5/T6

ASSUME OrderAssumption == Order \in Seq(STRING) /\ Order # <<>>
ASSUME KindAssumption == Kind \in [Metric -> SessionKinds \union ExtendedKinds]
ASSUME TierAssumption == /\ Period \in Nat \ {0}
                         /\ Every \in [Metric -> Nat \ {0}]
ASSUME CountAssumption == /\ SustainedCount \in Nat \ {0}
                          /\ ReadySamples \in Nat \ {0}
                          /\ AlertCap \in Nat
\* baseline.go:37 wants 10 samples whatever the configuration says; with a
\* shorter window the detector never leaves Idle.
ASSUME WindowAssumption == Window \in Nat /\ Window >= ReadySamples

VARIABLES pc,          \* where the goroutine is: none, select, burst, report, gone
          stopCh,      \* stopCh was closed
          state,       \* the detector's state
          tickCount,   \* modulo Period
          samples,     \* samples in the baseline window
          counts,      \* sustainedCounts, and the detector's sustainedT3/T8/T9
          suppressed,  \* the limit a metric was reported for, or none
          trigger,     \* the metric of the latest TriggerEvent
          cooling,     \* less than CooldownPeriod since lastTrigger
          calm,        \* the burst's calm timer: no, timing, due
          late,        \* now is after burstEnd
          alertCh,     \* number of alerts in the channel
          val,         \* the database: where every metric's value lies now
          dbUp,        \* the database answers the fast probe
          streak,      \* history: consecutive samples of a metric in breach
          cleared      \* history: metrics that recovered since their last report

loopVars == <<pc, stopCh>>
detectVars == <<state, tickCount, samples, counts, suppressed, trigger>>
clockVars == <<cooling, calm, late>>
dbVars == <<val, dbUp>>
history == <<streak, cleared>>
vars == <<loopVars, detectVars, clockVars, alertCh, dbVars, history>>

Levels == {"absent", "good", "band", "bad"}
Limits == {"upper", "lower"}

-----------------------------------------------------------------------------
(* What a value means for a metric.                                        *)

\* A dual metric (T1 and T2) is in breach above its hard ceiling already,
\* below the trend limit that the band lies under.
Breach(m, v) == v = "bad" \/ (v = "band" /\ Kind[m] = "dual")

\* The threshold recorded with the trigger: the trend limit when the value
\* passed it, the hard ceiling otherwise.
Limit(v) == IF v = "bad" THEN "upper" ELSE "lower"

\* checkSuppressedRecovery: below 0.9 of the recorded threshold; a floor
\* metric has no such margin.
Recovered(m, v, l) ==
    \/ v = "good"
    \/ v = "band" /\ (Kind[m] = "floor" \/ (Kind[m] = "dual" /\ l = "upper"))

\* Samples in breach it takes to trigger.
Needed(m) == IF Kind[m] \in {"instant", "capacity"} THEN 1 ELSE SustainedCount

-----------------------------------------------------------------------------
(* Detection over one sample s, a function on the metrics it has.          *)

Probed(m, t) == t % Every[m] = 0 /\ val[m] # "absent"

Present(t) == {m \in Metric : Probed(m, t)}

Sample(t) == [m \in Present(t) |-> val[m]]

(* Mutant: a metric that is not in the sample is taken for recovered. *)
RecoveryAbsent(s) ==
    [m \in Metric |->
        IF m \notin DOMAIN s \/ Recovered(m, s[m], suppressed[m]) THEN "none"
        ELSE suppressed[m]]

\* checkSuppressedRecovery: what stays suppressed after the sample.
Recovery(s) ==
    [m \in Metric |->
        IF m \in DOMAIN s /\ Recovered(m, s[m], suppressed[m]) THEN "none"
        ELSE suppressed[m]]

\* A metric one of the two detectors looks at: present and not suppressed.
Considered(m, s, kinds) ==
    m \in DOMAIN s /\ Recovery(s)[m] = "none" /\ Kind[m] \in kinds

Counted(m, s) == IF Breach(m, s[m]) THEN counts[m] + 1 ELSE 0

Fires(m, s, kinds) == Considered(m, s, kinds) /\ Counted(m, s) >= Needed(m)

FiringPlaces(s, kinds) == {i \in 1 .. Len(Order) : Fires(Order[i], s, kinds)}

\* The counts of kinds once the first n metrics were looked at.  A trigger
\* takes its metric's count back to 0; the capacity check keeps no count.
CountsUpTo(n, s, kinds, old) ==
    [m \in Metric |->
        IF /\ Considered(m, s, kinds)
           /\ Kind[m] # "capacity"
           /\ \E i \in 1 .. n : Order[i] = m
        THEN IF Fires(m, s, kinds) THEN 0 ELSE Counted(m, s)
        ELSE old[m]]

(* Mutant: the counts survive. *)
ResetKept(old) == old

\* resetSustainedCounts: the T1/T2 counts; the extended detector keeps its own.
ResetCounts(old) == [m \in Metric |-> IF Kind[m] \in SessionKinds THEN 0 ELSE old[m]]

-----------------------------------------------------------------------------
(* The detector as its owner sees it.                                      *)

NewDetector ==
    /\ stopCh' = FALSE
    /\ state' = "Idle" /\ tickCount' = 0 /\ samples' = 0
    /\ counts' = [m \in Metric |-> 0]
    /\ suppressed' = [m \in Metric |-> "none"]
    /\ trigger' = Order[1]
    /\ cooling' = FALSE /\ calm' = "no" /\ late' = FALSE
    /\ alertCh' = 0
    /\ streak' = [m \in Metric |-> 0]
    /\ cleared' = Metric

Init ==
    /\ pc = "none" /\ stopCh = FALSE
    /\ state = "Idle" /\ tickCount = 0 /\ samples = 0
    /\ counts = [m \in Metric |-> 0]
    /\ suppressed = [m \in Metric |-> "none"]
    /\ trigger = Order[1]
    /\ cooling = FALSE /\ calm = "no" /\ late = FALSE
    /\ alertCh = 0
    /\ val = [m \in Metric |-> "good"] /\ dbUp = TRUE
    /\ streak = [m \in Metric |-> 0]
    /\ cleared = Metric

\* start or AutoStart of the skill: a new detector and its goroutine.
Start ==
    /\ pc = "none"
    /\ pc' = "select"
    /\ UNCHANGED <<stopCh, detectVars, clockVars, alertCh, dbVars, history>>

\* stop or StopSentinel of the skill: stopCh is closed, the caller waits.
Stop ==
    /\ pc # "none" /\ ~stopCh
    /\ stopCh' = TRUE
    /\ UNCHANGED <<pc, detectVars, clockVars, alertCh, dbVars, history>>

\* The loop's select takes stopCh; it returns and Stop with it.  The skill
\* forgets the detector and the alerts still in its channel.
LoopStops ==
    /\ pc = "select" /\ stopCh
    /\ pc' = "none"
    /\ NewDetector
    /\ UNCHANGED dbVars

-----------------------------------------------------------------------------
(* A tick.  A fast probe that fails ends it before anything changed.       *)

\* What every tick whose fast probe answers does; the history sees the
\* sample as the detector does.
Tick(s) ==
    /\ pc = "select" /\ dbUp
    /\ s = Sample(tickCount + 1)
    /\ tickCount' = (tickCount + 1) % Period
    /\ streak' = [m \in Metric |->
          IF m \notin DOMAIN s THEN streak[m]
          ELSE IF ~Breach(m, s[m]) THEN 0
          ELSE IF streak[m] < SustainedCount THEN streak[m] + 1 ELSE streak[m]]
    /\ UNCHANGED <<stopCh, alertCh, dbVars>>

\* pushSample; the window drops the oldest one.
PushSample == samples' = IF samples < Window THEN samples + 1 ELSE samples

SeenToRecover(s) ==
    cleared \union {m \in DOMAIN s : Recovered(m, s[m], suppressed[m])}

TickIdle ==
    \E s \in {Sample(tickCount + 1)} :
        /\ Tick(s)
        /\ state = "Idle"
        /\ PushSample
        /\ state' = IF samples' >= ReadySamples THEN "Watch" ELSE "Idle"
        /\ cleared' = SeenToRecover(s)
        /\ UNCHANGED <<pc, counts, suppressed, trigger, clockVars>>

(* Mutant: the trigger is not recorded among the suppressed metrics. *)
TriggerForgets(m, s) ==
    /\ trigger' = m
    /\ suppressed' = Recovery(s)
    /\ cleared' = SeenToRecover(s) \ {m}
    /\ state' = "Burst" /\ pc' = "burst"
    /\ cooling' = TRUE
    /\ UNCHANGED <<calm, late>>

\* A trigger: its metric is suppressed, and startBurst runs in this goroutine.
Trigger(m, s) ==
    /\ trigger' = m
    /\ suppressed' = [Recovery(s) EXCEPT ![m] = Limit(s[m])]
    /\ cleared' = SeenToRecover(s) \ {m}
    /\ state' = "Burst" /\ pc' = "burst"
    /\ cooling' = TRUE
    /\ UNCHANGED <<calm, late>>

\* detectAnomaly finds a T1 or T2 metric: all its counts start again.
TickSessionTrigger ==
    \E s \in {Sample(tickCount + 1)} :
        /\ Tick(s)
        /\ state = "Watch" /\ ~cooling
        /\ PushSample
        /\ \E i \in FiringPlaces(s, SessionKinds) :
              /\ \A j \in FiringPlaces(s, SessionKinds) : i <= j
              /\ Trigger(Order[i], s)
        /\ counts' = ResetCounts(counts)

\* The counts after a detectAnomaly that found nothing.
Scanned(s) ==
    IF cooling THEN counts ELSE CountsUpTo(Len(Order), s, SessionKinds, counts)

NoSessionTrigger(s) == cooling \/ FiringPlaces(s, SessionKinds) = {}

\* DetectExtended finds a T3-T9 metric; those behind it are not looked at.
TickExtendedTrigger ==
    \E s \in {Sample(tickCount + 1)} :
        /\ Tick(s)
        /\ state = "Watch" /\ NoSessionTrigger(s)
        /\ PushSample
        /\ \E i \in FiringPlaces(s, ExtendedKinds) :
              /\ \A j \in FiringPlaces(s, ExtendedKinds) : i <= j
              /\ Trigger(Order[i], s)
              /\ counts' = CountsUpTo(i, s, ExtendedKinds, Scanned(s))

TickNoTrigger ==
    \E s \in {Sample(tickCount + 1)} :
        /\ Tick(s)
        /\ state = "Watch" /\ NoSessionTrigger(s)
        /\ FiringPlaces(s, ExtendedKinds) = {}
        /\ PushSample
        /\ counts' = CountsUpTo(Len(Order), s, ExtendedKinds, Scanned(s))
        /\ suppressed' = Recovery(s)
        /\ cleared' = SeenToRecover(s)
        /\ UNCHANGED <<pc, state, trigger, clockVars>>

\* Cooldown: samples feed the baseline and let metrics recover; the first
\* one after CooldownPeriod returns to Watch.
TickCooldown ==
    \E s \in {Sample(tickCount + 1)} :
        /\ Tick(s)
        /\ state = "Cooldown"
        /\ PushSample
        /\ suppressed' = Recovery(s)
        /\ cleared' = SeenToRecover(s)
        /\ state' = IF cooling THEN "Cooldown" ELSE "Watch"
        /\ counts' = IF cooling THEN counts ELSE ResetCounts(counts)
        /\ UNCHANGED <<pc, trigger, clockVars>>

-----------------------------------------------------------------------------
(* The burst: frames until it is calm for long enough, the time is up, or  *)
(* the detector is stopped.  A frame whose probe fails goes back to the    *)
(* select at once, past the check of the time.                             *)

FrameGoesOn(quiet) ==
    /\ pc = "burst" /\ dbUp
    /\ ~late /\ ~(quiet /\ calm = "due")
    /\ calm' = IF ~quiet THEN "no" ELSE IF calm = "no" THEN "timing" ELSE calm
    /\ UNCHANGED <<pc, stopCh, detectVars, cooling, late, alertCh, dbVars, history>>

\* Leaving the burst, its timers with it.
BurstEnds ==
    /\ pc' = "report"
    /\ calm' = "no" /\ late' = FALSE
    /\ UNCHANGED <<stopCh, detectVars, cooling, alertCh, dbVars, history>>

FrameEnds(quiet) ==
    /\ pc = "burst" /\ dbUp
    /\ late \/ (quiet /\ calm = "due")
    /\ BurstEnds

BurstStops ==
    /\ pc = "burst" /\ stopCh
    /\ BurstEnds

(* Mutant: the alert waits for room in the channel. *)
ReportBlocks ==
    /\ pc = "report" /\ alertCh < AlertCap
    /\ state' = "Cooldown"
    /\ cooling' = TRUE
    /\ alertCh' = alertCh + 1
    /\ pc' = "select"
    /\ UNCHANGED <<stopCh, tickCount, samples, counts, suppressed, trigger,
                   calm, late, dbVars, history>>

\* The rest of startBurst: the report is kept, the cooldown begins, and the
\* alert is dropped when nobody made room for it.
Report ==
    /\ pc = "report"
    /\ state' = "Cooldown"
    /\ cooling' = TRUE
    /\ alertCh' = IF alertCh < AlertCap THEN alertCh + 1 ELSE alertCh
    /\ pc' = "select"
    /\ UNCHANGED <<stopCh, tickCount, samples, counts, suppressed, trigger,
                   calm, late, dbVars, history>>

\* The terminal (or dbtop) takes an alert.
TakeAlert ==
    /\ pc # "none" /\ alertCh > 0
    /\ alertCh' = alertCh - 1
    /\ UNCHANGED <<loopVars, detectVars, clockVars, dbVars, history>>

-----------------------------------------------------------------------------
(* Time and the database.                                                  *)

\* The only place where cooling is read and not set again before.
CooldownPasses ==
    /\ state = "Cooldown" /\ cooling
    /\ cooling' = FALSE
    /\ UNCHANGED <<loopVars, detectVars, calm, late, alertCh, dbVars, history>>

CalmDelayPasses ==
    /\ pc = "burst" /\ calm = "timing"
    /\ calm' = "due"
    /\ UNCHANGED <<loopVars, detectVars, cooling, late, alertCh, dbVars, history>>

BurstDurationPasses ==
    /\ pc = "burst" /\ ~late
    /\ late' = TRUE
    /\ UNCHANGED <<loopVars, detectVars, cooling, calm, alertCh, dbVars, history>>

\* A fast probe returns all its metrics; the slower ones may miss some.  A
\* value is read in ticks only, so it need not move in between.
ValueMoves(m, v) ==
    /\ pc = "select"
    /\ val[m] # v
    /\ v = "absent" => Every[m] > 1
    /\ val' = [val EXCEPT ![m] = v]
    /\ UNCHANGED <<loopVars, detectVars, clockVars, alertCh, dbUp, history>>

DatabaseFlips ==
    /\ dbUp' = ~dbUp
    /\ UNCHANGED <<loopVars, detectVars, clockVars, alertCh, val, history>>

TickAny ==
    TickIdle \/ TickSessionTrigger \/ TickExtendedTrigger \/ TickNoTrigger \/ TickCooldown

Next ==
    \/ Start \/ Stop \/ LoopStops
    \/ TickIdle \/ TickSessionTrigger \/ TickExtendedTrigger
    \/ TickNoTrigger \/ TickCooldown
    \/ \E quiet \in BOOLEAN : FrameGoesOn(quiet) \/ FrameEnds(quiet)
    \/ BurstStops \/ Report \/ TakeAlert
    \/ CooldownPasses \/ CalmDelayPasses \/ BurstDurationPasses
    \/ \E m \in Metric, v \in Levels : ValueMoves(m, v)
    \/ DatabaseFlips

\* The goroutine runs, its tickers fire, and time passes.  A select with a
\* ready ticker and a closed stopCh picks one at random, so stopCh is taken
\* some time.  Nobody has to read the alerts and nothing is assumed of the
\* database.
Fairness ==
    /\ WF_vars(TickAny)
    /\ WF_vars(\E quiet \in BOOLEAN : FrameEnds(quiet))
    /\ SF_vars(LoopStops) /\ WF_vars(BurstStops) /\ WF_vars(Report)
    /\ WF_vars(CooldownPasses) /\ WF_vars(BurstDurationPasses)

Spec == Init /\ [][Next]_vars /\ Fairness

-----------------------------------------------------------------------------
TypeOK ==
    /\ pc \in {"none", "select", "burst", "report"}
    /\ stopCh \in BOOLEAN
    /\ state \in {"Idle", "Watch", "Burst", "Cooldown"}
    /\ tickCount \in 0 .. (Period - 1)
    /\ samples \in 0 .. Window
    /\ counts \in [Metric -> Nat]
    /\ suppressed \in [Metric -> Limits \union {"none"}]
    /\ trigger \in Metric
    /\ cooling \in BOOLEAN /\ calm \in {"no", "timing", "due"} /\ late \in BOOLEAN
    /\ alertCh \in 0 .. AlertCap
    /\ val \in [Metric -> Levels] /\ dbUp \in BOOLEAN
    /\ streak \in [Metric -> 0 .. SustainedCount]
    /\ cleared \subseteq Metric

Reports(m) == state = "Watch" /\ state' = "Burst" /\ trigger' = m

\* A sustained metric is reported only after SustainedCount samples of it in
\* breach with no other one between, whatever bursts, cooldowns and missing
\* probes lay between them (sentinel.go, detectAnomaly: both trigger paths
\* "require SustainedCount consecutive ticks").
SustainedMeansConsecutive ==
    [][\A m \in Metric : Reports(m) /\ Kind[m] \in {"sustained", "dual"}
          => streak'[m] = SustainedCount]_vars

\* A metric that was reported is not reported again before a sample of it
\* was back behind the limit it was reported for: missing samples, bursts
\* and cooldowns do not bring the same anomaly up a second time.
ReportedOnce ==
    [][\A m \in Metric : Reports(m) => m \in SeenToRecover(Sample(tickCount + 1))]_vars

\* An anomaly that lasts is reported in the end, and stays on record: with a
\* database that answers, values that no longer move and a detector that is
\* not stopped, no other metric, burst or cooldown keeps it from that.
LastingIsReported ==
    \A m \in Metric :
        (/\ <>[](pc # "none" /\ ~stopCh /\ dbUp /\ val[m] = "bad")
         /\ <>[][UNCHANGED val]_vars)
        => <>[](suppressed[m] # "none")

\* Whoever stops the detector gets an answer: from its select, from a burst
\* whose probes fail, and with nobody reading the alerts.
StopReturns == stopCh ~> pc = "none"
=============================================================================
