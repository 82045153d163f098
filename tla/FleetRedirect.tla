---------------------------- MODULE FleetRedirect ----------------------------
(***************************************************************************)
(* The Cerebrate's view of the fleet and the redirection of Workers whose  *)
(* Overlord is dead: FleetManager with its status poller                   *)
(* (cerebrate/overlord_conn.go), the heartbeats that feed it               *)
(* (cerebrate/grpc_server.go, overlord/cerebrate_client.go, the ping of    *)
(* the standby monitor in cerebrate/ha.go), and the region each Overlord   *)
(* reports (overlord/grpc_server.go).                                      *)
(*                                                                         *)
(* The link of a Worker to its Overlord, WorkerLink in detail, appears     *)
(* here as what it promises: a Worker registers with the Overlord it was   *)
(* told to use whenever that is up.  The poller is one goroutine; between  *)
(* its network calls heartbeats arrive and processes fail.                 *)
(***************************************************************************)
EXTENDS Naturals, FiniteSets

CONSTANTS
  Workers, Overlords,
  HomeOf,         \* HomeOf[w]: the Overlord w is configured for
  MaxFaults       \* bound: crashes, spells without heartbeats, lost calls

ASSUME FleetAssumption ==
  /\ IsFiniteSet(Workers)
  /\ HomeOf \in [Workers -> Overlords]
  /\ MaxFaults \in Nat

VARIABLES
  up,         \* is the Overlord's process up?
  region,     \* the Workers in its registry
  home,       \* the Overlord each Worker was told to use
  cup,        \* is the Cerebrate up?
  state,      \* OverlordConnection.State, NONE without an entry
  fresh,      \* was LastSeen within OverlordHeartbeatTimeout?
  cached,     \* OverlordConnection.Workers
  count,      \* OverlordConnection.WorkerCount
  pc,         \* what the status poller does
  todo,       \* Overlords it has still to do that for
  calls,      \* the RedirectWorker calls it waits for
  answer,     \* the GetRegionStatus answer it is about to apply
  missed,     \* history: Workers the last pass over their Overlord did not move
  faulty,     \* history: Overlords that crashed or missed heartbeats
  faults

regions == <<up, region, home>>
fleet   == <<cup, state, fresh, cached, count>>
poller  == <<pc, todo, calls, answer>>
history == <<faulty, faults>>
vars    == <<regions, fleet, poller, missed, history>>

NoAnswer == [of |-> {}, workers |-> {}, total |-> 0]

RegionTypes ==
  /\ up \in [Overlords -> BOOLEAN]
  /\ region \in [Overlords -> SUBSET Workers]
  /\ home \in [Workers -> Overlords]
FleetTypes ==
  /\ cup \in BOOLEAN
  /\ state \in [Overlords -> {"NONE", "UNKNOWN", "RUNNING", "OFFLINE"}]
  /\ fresh \in [Overlords -> BOOLEAN]
  /\ cached \in [Overlords -> SUBSET Workers]
  /\ count \in [Overlords -> Nat]
PollerTypes ==
  /\ pc \in {"idle", "redirect", "poll"}
  /\ todo \in SUBSET Overlords
  /\ calls \in SUBSET [worker : Workers, to : Overlords]
  /\ answer \in [of : SUBSET Overlords, workers : SUBSET Workers, total : Nat]
HistoryTypes ==
  /\ missed \in SUBSET Workers
  /\ faulty \in SUBSET Overlords
  /\ faults \in 0 .. MaxFaults

TypeOK == RegionTypes /\ FleetTypes /\ PollerTypes /\ HistoryTypes

(* One more fault, of the Overlords in S.                                  *)
Fault(S) ==
  /\ faults < MaxFaults
  /\ faults' = faults + 1
  /\ faulty' = faulty \cup S

-----------------------------------------------------------------------------
(* Workers and Overlords.                                                  *)

(* The Worker registers with its Overlord; an older one keeps its entry.   *)
Join(w) ==
  /\ up[home[w]] /\ w \notin region[home[w]]
  /\ region' = [region EXCEPT ![home[w]] = @ \cup {w}]
  /\ UNCHANGED <<missed, up, home, fleet, poller, history>>

(* The CerebrateClient registers an Overlord the fleet does not know: a    *)
(* known one keeps its entry as it is.                                     *)
RegisterOverlord(o) ==
  /\ up[o] /\ cup /\ state[o] = "NONE"
  /\ state' = [state EXCEPT ![o] = "UNKNOWN"]
  /\ fresh' = [fresh EXCEPT ![o] = TRUE]
  /\ UNCHANGED <<missed, regions, cup, cached, count, poller, history>>

(* OverlordHeartbeat of a known Overlord that reports n Workers.           *)
Seen(o, n) ==
  /\ up[o] /\ cup /\ state[o] # "NONE"
  /\ state' = [state EXCEPT ![o] = "RUNNING"]
  /\ fresh' = [fresh EXCEPT ![o] = TRUE]
  /\ count' = [count EXCEPT ![o] = n]
  /\ UNCHANGED <<missed, regions, cup, cached, poller, history>>

WorkerCount(o) == Cardinality(region[o])

(* From the CerebrateClient's ticker, or right after a Worker registered.  *)
Heartbeat(o) == Seen(o, WorkerCount(o))

(* From checkCerebrate of its standby monitor, which reports no Workers.   *)
Ping(o) == Seen(o, 0)

(* OverlordHeartbeatTimeout passes without a sign of life.                 *)
Expire(o) ==
  /\ ~up[o] /\ fresh[o]
  /\ fresh' = [fresh EXCEPT ![o] = FALSE]
  /\ UNCHANGED <<missed, regions, cup, state, cached, count, poller, history>>

(* It passes although the Overlord is up: its heartbeats do not arrive.    *)
Cutoff(o) ==
  /\ up[o] /\ fresh[o] /\ Fault({o})
  /\ fresh' = [fresh EXCEPT ![o] = FALSE]
  /\ UNCHANGED <<missed, regions, cup, state, cached, count, poller>>

-----------------------------------------------------------------------------
(* The status poller.                                                      *)

(* Mutant: a RUNNING Overlord is timed out whenever it was last seen.      *)
TimedOut_Always(o) == state[o] = "RUNNING"

TimedOut(o) == state[o] = "RUNNING" /\ ~fresh[o]

(* The ticker: CheckOverlordHeartbeatTimeouts marks all that are stale     *)
(* before the first of them is dealt with.                                 *)
PollTick ==
  /\ cup /\ pc = "idle"
  /\ pc' = "redirect"
  /\ todo' = {o \in Overlords : TimedOut(o)}
  /\ state' = [o \in Overlords |-> IF TimedOut(o) THEN "OFFLINE" ELSE state[o]]
  /\ UNCHANGED <<missed, regions, cup, fresh, cached, count, calls, answer, history>>

(* findHealthyOverlord: any other Overlord that is RUNNING, in map order.  *)
Healthy(dead) == {o \in Overlords \ {dead} : state[o] = "RUNNING"}

Users(o) == {w \in Workers : home[w] = o}

(* The next dead Overlord: the Workers of its cached list are redirected   *)
(* to one target, all at once, and the poller waits for all of them.       *)
RedirectWorkers(dead) ==
  /\ pc = "redirect" /\ calls = {} /\ dead \in todo
  /\ todo' = todo \ {dead}
  /\ \/ /\ Healthy(dead) = {}
        /\ UNCHANGED calls
     \/ \E o \in Healthy(dead) :
          calls' = {[worker |-> w, to |-> o] : w \in cached[dead]}
  /\ missed' = (missed \ Users(dead))
                \cup {w \in Users(dead) : Healthy(dead) = {} \/ w \notin cached[dead]}
  /\ UNCHANGED <<regions, fleet, pc, answer, history>>

(* A Worker obeys (whether it can register at once, or the reply arrives,  *)
(* is only logged) ...                                                     *)
RedirectWorker(c) ==
  /\ c \in calls
  /\ calls' = calls \ {c}
  /\ home' = [home EXCEPT ![c.worker] = c.to]
  /\ missed' = missed \ {c.worker}
  /\ UNCHANGED <<up, region, fleet, pc, todo, answer, history>>

(* ... or the call is lost; it is not made again.                          *)
RedirectLost(c) ==
  /\ c \in calls
  /\ calls' = calls \ {c}
  /\ Fault({})
  /\ missed' = missed \cup {c.worker}
  /\ UNCHANGED <<regions, fleet, pc, todo, answer>>

(* GetAllRegionStatus: the ids are copied, then asked one by one.          *)
StartPolling ==
  /\ pc = "redirect" /\ todo = {} /\ calls = {}
  /\ pc' = "poll"
  /\ todo' = {o \in Overlords : state[o] # "NONE"}
  /\ UNCHANGED <<missed, regions, fleet, calls, answer, history>>

(* The Overlord asks its Workers and lists those that answered; its count  *)
(* is that of its whole registry.                                          *)
GetRegionStatus(o) ==
  /\ pc = "poll" /\ answer = NoAnswer /\ o \in todo
  /\ up[o]
  /\ todo' = todo \ {o}
  /\ \E ws \in SUBSET region[o] :
       /\ answer' = [of |-> {o}, workers |-> ws, total |-> WorkerCount(o)]
       /\ \/ ws = region[o] /\ UNCHANGED history
          \/ ws # region[o] /\ Fault({})
  /\ UNCHANGED <<missed, regions, fleet, pc, calls>>

(* Mutant: an Overlord that does not answer is marked OFFLINE at once.     *)
Unanswered_Offline(o) == state' = [state EXCEPT ![o] = "OFFLINE"]

(* An Overlord that does not answer keeps its entry as it is.              *)
Unanswered(o) == UNCHANGED state

StatusFails(o) ==
  /\ pc = "poll" /\ answer = NoAnswer /\ o \in todo
  /\ todo' = todo \ {o}
  /\ \/ ~up[o] /\ UNCHANGED history
     \/ up[o] /\ Fault({})
  /\ Unanswered(o)
  /\ UNCHANGED <<missed, regions, cup, fresh, cached, count, pc, calls, answer>>

(* Mutant: the list of Workers is not replaced.                            *)
Listed_Kept(o) == cached[o]

(* The Workers a status answer leaves in the entry.                        *)
Listed(o) == answer.workers

StatusApplied(o) ==
  /\ o \in answer.of
  /\ answer' = NoAnswer
  /\ state' = [state EXCEPT ![o] = "RUNNING"]
  /\ fresh' = [fresh EXCEPT ![o] = TRUE]
  /\ cached' = [cached EXCEPT ![o] = Listed(o)]
  /\ count' = [count EXCEPT ![o] = answer.total]
  /\ UNCHANGED <<missed, regions, cup, pc, todo, calls, history>>

EndPolling ==
  /\ pc = "poll" /\ todo = {} /\ answer = NoAnswer
  /\ pc' = "idle"
  /\ UNCHANGED <<missed, regions, fleet, todo, calls, answer, history>>

-----------------------------------------------------------------------------
(* Processes.                                                              *)

CrashOverlord(o) ==
  /\ up[o] /\ Fault({o})
  /\ up' = [up EXCEPT ![o] = FALSE]
  /\ region' = [region EXCEPT ![o] = {}]
  /\ UNCHANGED <<missed, home, fleet, poller>>

StartOverlord(o) ==
  /\ ~up[o]
  /\ up' = [up EXCEPT ![o] = TRUE]
  /\ UNCHANGED <<missed, region, home, fleet, poller, history>>

(* The fleet is kept in memory only.                                       *)
CrashCerebrate ==
  /\ cup /\ Fault({})
  /\ cup' = FALSE
  /\ state' = [o \in Overlords |-> "NONE"]
  /\ fresh' = [o \in Overlords |-> FALSE]
  /\ cached' = [o \in Overlords |-> {}]
  /\ count' = [o \in Overlords |-> 0]
  /\ pc' = "idle" /\ todo' = {} /\ calls' = {} /\ answer' = NoAnswer
  /\ UNCHANGED <<missed, regions>>

StartCerebrate ==
  /\ ~cup
  /\ cup' = TRUE
  /\ UNCHANGED <<missed, regions, state, fresh, cached, count, poller, history>>

-----------------------------------------------------------------------------
(* A fleet at rest: everything is up, registered and polled once.          *)
Init ==
  /\ up = [o \in Overlords |-> TRUE] /\ cup = TRUE
  /\ region = [o \in Overlords |-> {w \in Workers : HomeOf[w] = o}]
  /\ home = HomeOf
  /\ state = [o \in Overlords |-> "RUNNING"]
  /\ fresh = [o \in Overlords |-> TRUE]
  /\ cached = region
  /\ count = [o \in Overlords |-> Cardinality(region[o])]
  /\ pc = "idle" /\ todo = {} /\ calls = {} /\ answer = NoAnswer
  /\ missed = {} /\ faulty = {} /\ faults = 0

PollStep ==
  \/ PollTick \/ StartPolling \/ EndPolling
  \/ \E o \in Overlords :
       RedirectWorkers(o) \/ GetRegionStatus(o) \/ StatusFails(o) \/ StatusApplied(o)
  \/ \E c \in calls : RedirectWorker(c) \/ RedirectLost(c)

Next ==
  \/ PollStep
  \/ \E w \in Workers : Join(w)
  \/ \E o \in Overlords :
       \/ RegisterOverlord(o) \/ Heartbeat(o) \/ Ping(o) \/ Expire(o) \/ Cutoff(o)
       \/ CrashOverlord(o) \/ StartOverlord(o)
  \/ CrashCerebrate \/ StartCerebrate

(* The tickers of poller, client and monitor go on, Workers keep trying to *)
(* register, and time passes.                                              *)
Fairness ==
  /\ WF_vars(PollStep)
  /\ \A w \in Workers : WF_vars(Join(w))
  /\ \A o \in Overlords :
       /\ WF_vars(RegisterOverlord(o)) /\ WF_vars(Heartbeat(o)) /\ WF_vars(Ping(o))
       /\ WF_vars(Expire(o))

Spec == Init /\ [][Next]_vars
FairSpec == Spec /\ Fairness

-----------------------------------------------------------------------------
(* Safety.                                                                 *)

(* A Worker is sent away only from an Overlord that failed: whatever the   *)
(* others go through, the Workers configured for an Overlord that never    *)
(* crashed and never missed its heartbeats stay with it                    *)
(* (overlord_conn.go:336-348).                                             *)
HealthyKeepsWorkers ==
  \A w \in Workers : HomeOf[w] \notin faulty => home[w] = HomeOf[w]

-----------------------------------------------------------------------------
(* Liveness.                                                               *)

(* The Cerebrate knows of a healthy Overlord, and w still uses a dead one. *)
Orphan(w) ==
  /\ cup /\ ~up[home[w]]
  /\ \E o \in Overlords : up[o] /\ state[o] = "RUNNING"

(* "Redirects Workers from a dead Overlord to a healthy one"               *)
(* (overlord_conn.go:359), as far as the code keeps that: no Worker stays  *)
(* with a dead Overlord for good while the Cerebrate has a healthy one to  *)
(* offer, unless the one pass over that Overlord did not move it (it was   *)
(* not on the list, there was no healthy Overlord then, or the call was    *)
(* lost) or a restarted Cerebrate has not seen that Overlord RUNNING.      *)
NoOrphans ==
  \A w \in Workers :
    []<>(\/ ~Orphan(w) \/ w \in missed
         \/ state[home[w]] \in {"NONE", "UNKNOWN"})

(* The list the redirection works from catches up with the region: a       *)
(* Worker that stays registered ends up on it, and one that is gone ends   *)
(* up off it (overlord_conn.go:137).                                       *)
ListCatchesUp ==
  \A o \in Overlords : \A w \in Workers :
    /\ <>[](cup /\ up[o] /\ w \in region[o]) => <>[](w \in cached[o])
    /\ <>[](cup /\ up[o] /\ w \notin region[o]) => <>[](w \notin cached[o])

-----------------------------------------------------------------------------
(* Refinement.                                                             *)

Registry == INSTANCE Membership WITH member <- region

(* The regions change as the registries of WorkerLink promise.             *)
RegionsAreRegistries == Registry!Spec
=============================================================================
