----------------------------- MODULE CerebrateHA -----------------------------
(***************************************************************************)
(* High availability of the Cerebrate: the registration of Overlords and   *)
(* the designation of backups (cerebrate/grpc_server.go, HAManager in      *)
(* cerebrate/ha.go), the Overlord's client with its heartbeat loop         *)
(* (overlord/cerebrate_client.go), and the StandbyMonitor every Overlord   *)
(* runs, with its election (cerebrate/ha.go, overlord/grpc_server.go).     *)
(*                                                                         *)
(* A heartbeat, a health check and a vote are each one RPC whose outcome   *)
(* only its caller sees, so each is one step.  The registration handler    *)
(* reads and writes shared state in several steps and handlers of several  *)
(* Overlords run concurrently: it is modelled step by step.                *)
(***************************************************************************)
EXTENDS Naturals, Sequences, FiniteSets

CONSTANTS
  Overlords,      \* Overlord ids; their order is the order of the strings
  Peer,           \* Peer[o]: what SetPeer gave o's monitor, NoPeer if never called
  TokenRequired,  \* has the Cerebrate a saved join token?
  MaxFailures,    \* maxFailures of StandbyMonitor, and the 3 of StartHeartbeat
  MaxCerebrateCrashes, MaxOverlordCrashes,  \* bounds: process crashes
  MaxLosses       \* bound: RPCs lost although the callee is up

NoPeer == 0
MaxBackups == 2

ASSUME HAAssumption ==
  /\ Overlords \subseteq Nat \ {0}
  /\ Peer \in [Overlords -> Overlords \cup {NoPeer}]
  /\ \A o \in Overlords : Peer[o] # o
  /\ \A o \in Overlords : Peer[o] # NoPeer => Peer[Peer[o]] = o
  /\ TokenRequired \in BOOLEAN
  /\ MaxFailures \in Nat \ {0}
  /\ MaxCerebrateCrashes \in Nat /\ MaxOverlordCrashes \in Nat /\ MaxLosses \in Nat

VARIABLES
  cup,        \* is the Cerebrate process up?
  haReady,    \* was SetHAManager called?
  fleet,      \* FleetManager.overlords: the ids it has an entry for
  backups,    \* HAManager.backupOverlords
  handler,    \* where the RegisterOverlord handler serving o is
  client,     \* where the Overlord's CerebrateClient is
  missed,     \* consecutiveFailures of its heartbeat loop
  monitor,    \* where the Overlord's StandbyMonitor is
  failed,     \* StandbyMonitor.failureCount
  unreached,  \* history: has a vote request ever got no answer?
  ccrashes, ocrashes, losses

cvars  == <<cup, haReady, fleet, backups>>
ovars  == <<client, missed>>
svars  == <<monitor, failed, unreached>>
bounds == <<ccrashes, ocrashes, losses>>
vars   == <<cvars, handler, ovars, svars, bounds>>

CerebrateTypes ==
  /\ cup \in BOOLEAN /\ haReady \in BOOLEAN
  /\ fleet \in SUBSET Overlords
  /\ backups \in Seq(Overlords)
HandlerTypes ==
  handler \in [Overlords -> {"none", "called", "added", "room", "accepted", "refused"}]
ClientTypes ==
  /\ client \in [Overlords -> {"down", "boot", "lost", "register", "connected"}]
  /\ missed \in [Overlords -> 0 .. MaxFailures - 1]
MonitorTypes ==
  /\ monitor \in [Overlords -> {"off", "watch", "elect", "promoted", "yielded"}]
  /\ failed \in [Overlords -> 0 .. MaxFailures]
  /\ unreached \in BOOLEAN
BoundTypes ==
  /\ ccrashes \in 0 .. MaxCerebrateCrashes
  /\ ocrashes \in 0 .. MaxOverlordCrashes
  /\ losses \in 0 .. MaxLosses

TypeOK == CerebrateTypes /\ HandlerTypes /\ ClientTypes /\ MonitorTypes /\ BoundTypes

(* An RPC reaches its callee and its answer comes back, or it does not.    *)
Reaches(up)  == up /\ UNCHANGED losses
Fails(up) ==
  \/ ~up /\ UNCHANGED losses
  \/ up /\ losses < MaxLosses /\ losses' = losses + 1

-----------------------------------------------------------------------------
(* Cerebrate: the RegisterOverlord handler, one per calling Overlord.      *)

(* Token check, then AddOverlord: a known Overlord keeps its entry.        *)
AddOverlord(o) ==
  /\ handler[o] = "called"
  /\ IF TokenRequired
     THEN /\ handler' = [handler EXCEPT ![o] = "refused"]
          /\ UNCHANGED fleet
     ELSE /\ handler' = [handler EXCEPT ![o] = "added"]
          /\ fleet' = fleet \cup {o}
  /\ UNCHANGED <<cup, haReady, backups, ovars, svars, bounds>>

(* haMgr != nil and BackupCount() < 2, read before AddBackup locks.        *)
BackupCount(o) ==
  /\ handler[o] = "added"
  /\ handler' = [handler EXCEPT ![o] =
       IF haReady /\ Len(backups) < MaxBackups THEN "room" ELSE "accepted"]
  /\ UNCHANGED <<cvars, ovars, svars, bounds>>

(* Mutant: the count is not taken again under the lock.                    *)
AddBackup_NoRecount(o) ==
  /\ handler[o] = "room"
  /\ backups' = Append(backups, o)
  /\ handler' = [handler EXCEPT ![o] = "accepted"]
  /\ UNCHANGED <<cup, haReady, fleet, ovars, svars, bounds>>

(* AddBackup counts again under its lock; it does not look at the ids.     *)
AddBackup(o) ==
  /\ handler[o] = "room"
  /\ backups' = IF Len(backups) >= MaxBackups THEN backups ELSE Append(backups, o)
  /\ handler' = [handler EXCEPT ![o] = "accepted"]
  /\ UNCHANGED <<cup, haReady, fleet, ovars, svars, bounds>>

(* Mutant: the Cerebrate acknowledges Overlords it does not know.          *)
Acknowledges_All(o) == cup

(* OverlordHeartbeat is acknowledged only for an Overlord in the fleet.    *)
Acknowledges(o) == cup /\ o \in fleet

-----------------------------------------------------------------------------
(* Overlord: the CerebrateClient.                                          *)

(* The monitor starts once the first Connect has returned.                 *)
MonitorStarted(o) ==
  monitor' = [monitor EXCEPT ![o] = IF @ = "off" THEN "watch" ELSE @]

(* Connect or reconnect: RegisterOverlord is called.                       *)
CallRegister(o) ==
  /\ client[o] \in {"boot", "lost"} /\ handler[o] = "none"
  /\ \/ /\ Reaches(cup)
        /\ client' = [client EXCEPT ![o] = "register"]
        /\ handler' = [handler EXCEPT ![o] = "called"]
        /\ UNCHANGED monitor
     \/ /\ Fails(cup)
        /\ client' = [client EXCEPT ![o] = "lost"]
        /\ MonitorStarted(o)
        /\ UNCHANGED handler
  /\ UNCHANGED <<cvars, missed, failed, unreached, ccrashes, ocrashes>>

(* The handler is done; its answer arrives or is lost.                     *)
RegisterReturns(o) ==
  /\ handler[o] \in {"accepted", "refused"}
  /\ handler' = [handler EXCEPT ![o] = "none"]
  /\ IF client[o] = "register"
     THEN /\ \/ /\ UNCHANGED losses
                /\ client' = [client EXCEPT ![o] =
                     IF handler[o] = "accepted" THEN "connected" ELSE "lost"]
             \/ /\ Fails(TRUE)
                /\ client' = [client EXCEPT ![o] = "lost"]
          /\ MonitorStarted(o)
     ELSE UNCHANGED <<client, monitor, losses>>
  /\ UNCHANGED <<cvars, missed, failed, unreached, ccrashes, ocrashes>>

(* The Cerebrate died while the call was being served.                     *)
RegisterBroken(o) ==
  /\ client[o] = "register" /\ handler[o] = "none"
  /\ client' = [client EXCEPT ![o] = "lost"]
  /\ MonitorStarted(o)
  /\ UNCHANGED <<cvars, handler, missed, failed, unreached, bounds>>

(* Is the failure after n failures in a row one too many?                  *)
GivesUp(n) == n + 1 >= MaxFailures

(* The heartbeat ticker, connected.  An Overlord the fleet does not know   *)
(* gets an error; MaxFailures errors in a row give the connection up.      *)
Heartbeat(o) ==
  /\ client[o] = "connected"
  /\ \/ /\ Reaches(Acknowledges(o))
        /\ missed' = [missed EXCEPT ![o] = 0]
        /\ UNCHANGED client
     \/ /\ Fails(Acknowledges(o))
        /\ IF GivesUp(missed[o])
           THEN /\ client' = [client EXCEPT ![o] = "lost"]
                /\ missed' = [missed EXCEPT ![o] = 0]
           ELSE /\ missed' = [missed EXCEPT ![o] = @ + 1]
                /\ UNCHANGED client
  /\ UNCHANGED <<cvars, handler, svars, ccrashes, ocrashes>>

-----------------------------------------------------------------------------
(* Overlord: the StandbyMonitor.                                           *)

(* The ticker: checkCerebrate sends an OverlordHeartbeat, and any error,   *)
(* a refusal included, counts as a failure.                                *)
CheckCerebrate(o) ==
  /\ monitor[o] = "watch"
  /\ \/ /\ Reaches(Acknowledges(o))
        /\ failed' = [failed EXCEPT ![o] = 0]
        /\ UNCHANGED monitor
     \/ /\ Fails(Acknowledges(o))
        /\ failed' = [failed EXCEPT ![o] = @ + 1]
        /\ monitor' = [monitor EXCEPT ![o] =
             IF GivesUp(failed[o]) THEN "elect" ELSE @]
  /\ UNCHANGED <<cvars, handler, ovars, unreached, ccrashes, ocrashes>>

(* The peer's gRPC server is up once its first Connect has returned.       *)
Votes(p) == monitor[p] # "off"

(* Mutant: the voter agrees to everyone.                                   *)
ElectionVote_Always(candidate, p) == TRUE

(* ElectionVote at voter p: the candidate is accepted iff its id is the    *)
(* smaller one, whatever p itself saw or did.                              *)
ElectionVote(candidate, p) == candidate < p

(* Mutant: a candidate whose vote request fails yields.                    *)
Unanswered_Yields == "yielded"

(* What a candidate becomes whose vote request got no answer.              *)
Unanswered == "promoted"

(* runElection: without a peer, or without its answer, promote; else obey. *)
RunElection(o) ==
  /\ monitor[o] = "elect"
  /\ \/ /\ Peer[o] = NoPeer
        /\ monitor' = [monitor EXCEPT ![o] = "promoted"]
        /\ UNCHANGED <<unreached, losses>>
     \/ /\ Peer[o] # NoPeer /\ Reaches(Votes(Peer[o]))
        /\ monitor' = [monitor EXCEPT ![o] =
             IF ElectionVote(o, Peer[o]) THEN "promoted" ELSE "yielded"]
        /\ UNCHANGED unreached
     \/ /\ Peer[o] # NoPeer /\ Fails(Votes(Peer[o]))
        /\ monitor' = [monitor EXCEPT ![o] = Unanswered]
        /\ unreached' = TRUE
  /\ UNCHANGED <<cvars, handler, ovars, failed, ccrashes, ocrashes>>

-----------------------------------------------------------------------------
(* Processes start and die; the Cerebrate keeps fleet and backups in memory.*)

StartOverlord(o) ==
  /\ client[o] = "down"
  /\ client' = [client EXCEPT ![o] = "boot"]
  /\ UNCHANGED <<cvars, handler, missed, svars, bounds>>

CrashOverlord(o) ==
  /\ client[o] # "down" /\ ocrashes < MaxOverlordCrashes
  /\ ocrashes' = ocrashes + 1
  /\ client' = [client EXCEPT ![o] = "down"]
  /\ missed' = [missed EXCEPT ![o] = 0]
  /\ monitor' = [monitor EXCEPT ![o] = "off"]
  /\ failed' = [failed EXCEPT ![o] = 0]
  /\ UNCHANGED <<cvars, handler, unreached, ccrashes, losses>>

StartCerebrate ==
  /\ ~cup
  /\ cup' = TRUE
  /\ UNCHANGED <<haReady, fleet, backups, handler, ovars, svars, bounds>>

(* The gRPC server already serves when the HA manager is wired in.         *)
SetHAManager ==
  /\ cup /\ ~haReady
  /\ haReady' = TRUE
  /\ UNCHANGED <<cup, fleet, backups, handler, ovars, svars, bounds>>

CrashCerebrate ==
  /\ cup /\ ccrashes < MaxCerebrateCrashes
  /\ ccrashes' = ccrashes + 1
  /\ cup' = FALSE /\ haReady' = FALSE
  /\ fleet' = {} /\ backups' = <<>>
  /\ handler' = [o \in Overlords |-> "none"]
  /\ UNCHANGED <<ovars, svars, ocrashes, losses>>

-----------------------------------------------------------------------------
Init ==
  /\ cup \in BOOLEAN /\ haReady = FALSE
  /\ fleet = {} /\ backups = <<>>
  /\ handler = [o \in Overlords |-> "none"]
  /\ client = [o \in Overlords |-> "down"]
  /\ missed = [o \in Overlords |-> 0]
  /\ monitor = [o \in Overlords |-> "off"]
  /\ failed = [o \in Overlords |-> 0]
  /\ unreached = FALSE
  /\ ccrashes = 0 /\ ocrashes = 0 /\ losses = 0

HandlerStep(o) == AddOverlord(o) \/ BackupCount(o) \/ AddBackup(o)
ClientStep(o) ==
  CallRegister(o) \/ RegisterReturns(o) \/ RegisterBroken(o) \/ Heartbeat(o)
MonitorStep(o) == CheckCerebrate(o) \/ RunElection(o)

Next ==
  \/ \E o \in Overlords :
       \/ HandlerStep(o) \/ ClientStep(o) \/ MonitorStep(o)
       \/ StartOverlord(o) \/ CrashOverlord(o)
  \/ StartCerebrate \/ SetHAManager \/ CrashCerebrate

(* Tickers keep ticking and handlers and start-up go on; nothing forces a  *)
(* process to be started or to crash, or an RPC to be lost.                *)
Fairness ==
  /\ \A o \in Overlords :
       WF_vars(HandlerStep(o)) /\ WF_vars(ClientStep(o)) /\ WF_vars(MonitorStep(o))
  /\ WF_vars(SetHAManager)

Spec == Init /\ [][Next]_vars
FairSpec == Spec /\ Fairness

-----------------------------------------------------------------------------
(* Safety.                                                                 *)

Promoted == {o \in Overlords : monitor[o] = "promoted"}

(* Concurrent registrations never designate a third backup, although the   *)
(* count is read before the lock is taken (grpc_server.go:132, ha.go:77).  *)
AtMostTwoBackups == Len(backups) <= MaxBackups

(* A backup is an Overlord the fleet manager can name (ha.go:45).          *)
BackupsInFleet == \A i \in 1 .. Len(backups) : backups[i] \in fleet

(* As long as every vote request got an answer, the two peers never both   *)
(* promote, in whatever order they notice the failure (ha.go:247).         *)
PeersPickOne ==
  ~unreached =>
    \A o \in Overlords : ~({o, Peer[o]} \subseteq Promoted)

(* Who yields yields to a peer that has priority over it (ha.go:290).      *)
YieldsToSmaller ==
  \A o \in Overlords : monitor[o] = "yielded" => Peer[o] \in Overlords /\ Peer[o] < o

(* At most one Overlord takes the Cerebrate's place (ha.go:190: "The       *)
(* Overlord with the lexicographically smaller ID wins and promotes").     *)
AtMostOnePromoted == \A o, p \in Promoted : o = p

-----------------------------------------------------------------------------
(* Liveness.                                                               *)

(* When the Cerebrate stays down, the Overlord with priority in its pair   *)
(* promotes, if it stays up itself.                                        *)
PriorityTakesOver ==
  \A o \in Overlords :
    (Peer[o] = NoPeer \/ o < Peer[o]) /\ <>[]~cup /\ <>[](client[o] # "down")
    => <>[](o \in Promoted)

(* Overlords that stay up join a Cerebrate that stays up, and after its    *)
(* restart they join again (grpc_server.go:150, ISSUE-008).                *)
OverlordsJoin ==
  \A o \in Overlords :
    <>[]cup /\ <>[](client[o] # "down") => <>[](o \in fleet /\ client[o] = "connected")
=============================================================================
