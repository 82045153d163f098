---------------------------- MODULE WorkerAgent ----------------------------
(***************************************************************************)
(* What a Worker tells its Overlord, and what it writes down: the loop     *)
(* that handles the alerts of the detector, the bounded channel of         *)
(* outbound events with the goroutines that send them, the scan that       *)
(* reports changed memory, policy and rule files, and the audit log whose  *)
(* entries are chained by their hashes.  The process may stop at any point *)
(* and be started again.                                                   *)
(*                                                                         *)
(* Source: src/internal/drone/autonomy.go, grpc_server.go, memory_sync.go, *)
(* audit.go, audit_verify.go, rule_writer.go and their wiring in           *)
(* src/cmd/opendb/agent_mode.go (runWorkerMode).                           *)
(*                                                                         *)
(* The cause of an alert is the display name of the classification         *)
(* (sentinel.go:503), which is never a key of crossNodeCauses or of        *)
(* forceEscalateCauses and never "unknown" or empty: of handleAlert's      *)
(* routing only the single-node branch is reached, and pushes one event    *)
(* whether the diagnosis succeeded (backup) or not (escalation).           *)
(***************************************************************************)
EXTENDS Integers, Sequences, FiniteSets, FiniteSetsExt

CONSTANTS File,        \* paths in the three scanned directories
          Stream,      \* event streams an Overlord opens, each used once
          OutCap,      \* capacity of outEvents (64)
          AlertCap,    \* capacity of the detector's channel (4)
          MaxCrashes,  \* bound: times the process stops
          Loads        \* bounds: <<alerts raised, changes of files>>

ASSUME CapAssumption == OutCap \in Nat \ {0} /\ AlertCap \in Nat \ {0}
ASSUME BoundAssumption == MaxCrashes \in Nat /\ Loads \subseteq Nat \X Nat
ASSUME PathAssumption ==
    "none" \notin File /\ "alert" \notin File /\ "base name" \notin File

VARIABLES up,         \* the process runs
          alertCh,    \* alerts in the detector's channel
          handler,    \* the loop: select, diagnosing, logging
          outEvents,  \* events for the Overlord
          conn,       \* a stream: closed, open, cut (nobody noticed), ended
          sender,     \* its goroutine: none, waiting, holding, gone
          held,       \* the event it holds
          file,       \* the file system: time and text, Absent if deleted
          lastSync,   \* time of the last reported version, 0 if none
          scan,       \* the syncer: asleep, files, gone
          todo,       \* paths the scan has still to look at
          read,       \* the path being reported and the time it was stat'ed
          lines,      \* complete lines of the audit log
          torn,       \* the log ends without a newline
          prevHash,   \* the logger's chain value
          alerts, crashes, texts,    \* bounds
          told,       \* history: the text of a path the Overlord has
          crossed,    \* history: the newest event about the path was taken
                      \* while another open stream still held an older one
          missed,     \* history: an event about the path was dropped or lost
          blurred,    \* history: two versions of the path bear the same time
          stolen,     \* history: events taken for a stream that had ended
          cuts        \* history: log writes of which only a part was written

loopVars == <<alertCh, handler, alerts>>
streamVars == <<outEvents, conn, sender, held, told, crossed, stolen>>
syncVars == <<lastSync, scan, todo, read>>
fileVars == <<file, texts, blurred>>
logVars == <<lines, torn, prevHash, cuts>>
notStreams == <<up, crashes, loopVars, syncVars, fileVars, logVars>>
notSync == <<up, crashes, loopVars, conn, sender, held, told, crossed, stolen,
             fileVars, logVars>>
notLoop == <<up, crashes, streamVars, missed, syncVars, fileVars>>
vars == <<up, crashes, loopVars, streamVars, missed, syncVars, fileVars,
          logVars>>

Absent == [time |-> 0, text |-> 0]
AlertEvent == [about |-> "alert"]
\* A deletion is sent under the base name alone, a key no update is sent under.
GoneEvent == [about |-> "base name"]
None == [path |-> "none", time |-> 0]
Junk == -1     \* what is left of a hash cut in the middle

\* The bound on what comes from outside.
Within(a, t) == \E load \in Loads : a <= load[1] /\ t <= load[2]

-----------------------------------------------------------------------------
(* The channel of outbound events.                                         *)

\* An event that brings the text of a file, under its category and name.
Updates(e, f) == e.about = f

\* PushEvent: dropped when the channel is full.  An accepted update of a file
\* supersedes whatever was lost about it before.
Push(e) ==
    LET room == Len(outEvents) < OutCap IN
    /\ outEvents' = IF room THEN Append(outEvents, e) ELSE outEvents
    /\ missed' = [f \in File |-> IF Updates(e, f) THEN ~room ELSE missed[f]]

\* An event that does not arrive.
Lose(e) == missed' = [f \in File |-> Updates(e, f) \/ missed[f]]

\* EventStream: the Overlord opens a stream and the server starts its sender,
\* whatever other streams are open.
OpenStream(s) ==
    /\ up /\ conn[s] = "closed"
    /\ conn' = [conn EXCEPT ![s] = "open"]
    /\ sender' = [sender EXCEPT ![s] = "waiting"]
    /\ UNCHANGED <<notStreams, outEvents, held, told, crossed, stolen, missed>>

\* The connection breaks; the Worker goes on sending until it notices.
CutStream(s) ==
    /\ conn[s] = "open"
    /\ conn' = [conn EXCEPT ![s] = "cut"]
    /\ UNCHANGED <<notStreams, outEvents, sender, held, told, crossed, stolen,
                   missed>>

\* Recv fails: EventStream returns, and the stream's context is cancelled.
EndStream(s) ==
    /\ conn[s] \in {"open", "cut"}
    /\ conn' = [conn EXCEPT ![s] = "ended"]
    /\ UNCHANGED <<notStreams, outEvents, sender, held, told, crossed, stolen,
                   missed>>

Holds(s, f) == sender[s] = "holding" /\ Updates(held[s], f)

\* The sender receives an event: select may prefer it to a cancelled context.
TakeEvent(s) ==
    /\ sender[s] = "waiting" /\ outEvents # <<>>
    /\ held' = [held EXCEPT ![s] = Head(outEvents)]
    /\ outEvents' = Tail(outEvents)
    /\ sender' = [sender EXCEPT ![s] = "holding"]
    /\ crossed' = [f \in File |->
                     IF Updates(Head(outEvents), f)
                       THEN \E r \in Stream : conn[r] = "open" /\ Holds(r, f)
                       ELSE crossed[f]]
    /\ stolen' = IF conn[s] = "ended"
                   THEN [stolen EXCEPT ![s] = @ + 1] ELSE stolen
    /\ UNCHANGED <<notStreams, conn, told, missed>>

\* The sender notices the cancelled context.
QuitSender(s) ==
    /\ sender[s] = "waiting" /\ conn[s] = "ended"
    /\ sender' = [sender EXCEPT ![s] = "gone"]
    /\ UNCHANGED <<notStreams, outEvents, conn, held, told, crossed, stolen, missed>>

\* Send: it arrives, or goes nowhere on a connection that broke.
SendEvent(s) ==
    /\ sender[s] = "holding" /\ conn[s] \in {"open", "cut"}
    /\ sender' = [sender EXCEPT ![s] = "waiting"]
    /\ held' = [held EXCEPT ![s] = AlertEvent]
    /\ \/ /\ conn[s] = "open"
          /\ told' = [f \in File |->
                        IF Updates(held[s], f) THEN held[s].text ELSE told[f]]
          /\ UNCHANGED missed
       \/ /\ conn[s] = "cut"
          /\ Lose(held[s])
          /\ UNCHANGED told
    /\ UNCHANGED <<notStreams, outEvents, conn, crossed, stolen>>

\* Mutant: a sender that carries on after a failed Send.
SendFailsOn(s) ==
    /\ sender[s] = "holding" /\ conn[s] = "ended"
    /\ sender' = [sender EXCEPT ![s] = "waiting"]
    /\ held' = [held EXCEPT ![s] = AlertEvent]
    /\ Lose(held[s])
    /\ UNCHANGED <<notStreams, outEvents, conn, told, crossed, stolen>>

\* Send fails on an ended stream: the event is lost and the sender returns.
SendFails(s) ==
    /\ sender[s] = "holding" /\ conn[s] = "ended"
    /\ sender' = [sender EXCEPT ![s] = "gone"]
    /\ held' = [held EXCEPT ![s] = AlertEvent]
    /\ Lose(held[s])
    /\ UNCHANGED <<notStreams, outEvents, conn, told, crossed, stolen>>

-----------------------------------------------------------------------------
(* The loop that handles alerts.                                           *)

\* The detector raises an alert; a full channel drops it.
Alert ==
    /\ up /\ Within(alerts + 1, texts)
    /\ alerts' = alerts + 1
    /\ alertCh' = IF alertCh < AlertCap THEN alertCh + 1 ELSE alertCh
    /\ UNCHANGED <<notLoop, handler, logVars>>

\* Run receives it and handleAlert starts the local diagnosis.
TakeAlert ==
    /\ up /\ handler = "select" /\ alertCh > 0
    /\ alertCh' = alertCh - 1
    /\ handler' = "diagnosing"
    /\ UNCHANGED <<notLoop, alerts, logVars>>

\* The diagnosis returns, at the latest with its timeout of five minutes:
\* pushAlertBackup or escalateToOverlord.
Diagnosed ==
    /\ up /\ handler = "diagnosing"
    /\ Push(AlertEvent)
    /\ handler' = "logging"
    /\ UNCHANGED <<up, crashes, alertCh, alerts, conn, sender, held, told,
                   crossed, stolen, syncVars, fileVars, logVars>>

(* AuditLogger.Log.  A line is known by its hash (0 when it has no hash     *)
(* suffix), the chain value the hash was computed from, and whether it was  *)
(* appended to the remains of another.                                     *)
NewHash == 1 + Max({0} \union {lines[i].hash : i \in 1 .. Len(lines)})

\* The log after a write: what is appended to a torn line makes one line with
\* it, in which only the last hash suffix counts.
Extended(hash, prev) ==
    IF torn
      THEN LET behind == hash = 0 /\ lines[Len(lines)].hash # 0 IN
           [lines EXCEPT ![Len(lines)] =
               [hash |-> IF behind THEN Junk ELSE hash, prev |-> prev, glued |-> TRUE]]
      ELSE Append(lines, [hash |-> hash, prev |-> prev, glued |-> FALSE])

\* The write succeeds; or fails with nothing written; or with a part of it:
\* before the hash, in the hash, or all of it but the newline.
LogEntry ==
    /\ up /\ handler = "logging"
    /\ handler' = "select"
    /\ \/ /\ lines' = Extended(NewHash, prevHash)
          /\ torn' = FALSE
          /\ prevHash' = NewHash
          /\ UNCHANGED cuts
       \/ UNCHANGED <<lines, torn, prevHash, cuts>>
       \/ /\ \E h \in {0, Junk, NewHash} : lines' = Extended(h, prevHash)
          /\ torn' = TRUE
          /\ cuts' = cuts + 1
          /\ UNCHANGED prevHash
    /\ UNCHANGED <<notLoop, alertCh, alerts>>

\* verifyLines: the lines it reports.  A line without a hash is skipped and
\* the chain starts again behind it.
Tampered ==
    {i \in 1 .. Len(lines) :
        /\ lines[i].hash # 0
        /\ \/ lines[i].glued
           \/ lines[i].hash = Junk
           \/ lines[i].prev # (IF i = 1 THEN 0 ELSE lines[i - 1].hash)}

-----------------------------------------------------------------------------
(* The files and the scan that reports them.                               *)

\* Somebody writes a file: the rule-write skill, whose os.WriteFile truncates
\* and then writes, the program or the user.  The clock of the file system
\* may not have moved since the version before.
Change(f) ==
    /\ Within(alerts, texts + 1)
    /\ texts' = texts + 1
    /\ \E same \in {b \in BOOLEAN : b => file[f] # Absent} :
        /\ file' = [file EXCEPT ![f] =
                      [time |-> IF same THEN @.time ELSE texts', text |-> texts']]
        /\ blurred' = [blurred EXCEPT ![f] = same]
    /\ UNCHANGED <<up, crashes, loopVars, streamVars, missed, syncVars,
                   logVars>>

Delete(f) ==
    /\ file[f] # Absent
    /\ file' = [file EXCEPT ![f] = Absent]
    /\ UNCHANGED <<up, crashes, loopVars, streamVars, missed, syncVars,
                   texts, blurred, logVars>>

\* The ticker fires, or Start begins: ReadDir lists what is there.
StartScan ==
    /\ up /\ scan = "asleep"
    /\ scan' = "files"
    /\ todo' = {f \in File : file[f] # Absent}
    /\ UNCHANGED <<notSync, missed, lastSync, read, outEvents>>

\* entry.Info: an unchanged or vanished file is passed over, another is read.
StatFile(f) ==
    /\ up /\ scan = "files" /\ read = None /\ f \in todo
    /\ todo' = todo \ {f}
    /\ read' = IF file[f] # Absent /\ (lastSync[f] = 0 \/ file[f].time > lastSync[f])
                 THEN [path |-> f, time |-> file[f].time] ELSE None
    /\ UNCHANGED <<notSync, missed, lastSync, scan, outEvents>>

\* pushFile: the text is read now; the time noted is that of the stat, also
\* when PushEvent dropped the event.
PushFile(f) ==
    /\ up /\ read.path = f
    /\ IF file[f] = Absent
         THEN UNCHANGED <<outEvents, missed, lastSync>>
         ELSE /\ Push([about |-> f, text |-> file[f].text])
              /\ lastSync' = [lastSync EXCEPT ![f] = read.time]
    /\ read' = None
    /\ UNCHANGED <<notSync, scan, todo>>

\* The entries are done: now the paths reported once, in any order.
StartGone ==
    /\ up /\ scan = "files" /\ read = None /\ todo = {}
    /\ scan' = "gone"
    /\ todo' = {f \in File : lastSync[f] # 0}
    /\ UNCHANGED <<notSync, missed, lastSync, read, outEvents>>

\* pushDelete for a path that is not there any more, with the base name of the
\* path where the updates had category/name.
CheckGone(f) ==
    /\ up /\ scan = "gone" /\ f \in todo
    /\ todo' = todo \ {f}
    /\ IF file[f] = Absent
         THEN /\ Push(GoneEvent)
              /\ lastSync' = [lastSync EXCEPT ![f] = 0]
         ELSE UNCHANGED <<outEvents, missed, lastSync>>
    /\ UNCHANGED <<notSync, scan, read>>

\* Mutant: the time noted is that at which the scan ended.
EndScanNotesNow ==
    /\ up /\ scan = "gone" /\ todo = {}
    /\ scan' = "asleep"
    /\ lastSync' = [f \in File |-> IF lastSync[f] = 0 THEN 0 ELSE texts]
    /\ UNCHANGED <<notSync, missed, todo, read, outEvents>>

\* The scan is over until the ticker fires again.
EndScan ==
    /\ up /\ scan = "gone" /\ todo = {}
    /\ scan' = "asleep"
    /\ UNCHANGED <<notSync, missed, lastSync, todo, read, outEvents>>

-----------------------------------------------------------------------------
(* The process stops, at any point, and is started again.  The files and   *)
(* the audit log stay; what was to be said about a file may be lost.       *)

Stop ==
    /\ up /\ crashes < MaxCrashes
    /\ up' = FALSE
    /\ crashes' = crashes + 1
    /\ alertCh' = 0
    /\ handler' = "select"
    /\ outEvents' = <<>>
    /\ conn' = [s \in Stream |-> IF conn[s] = "closed" THEN "closed" ELSE "ended"]
    /\ sender' = [s \in Stream |-> IF sender[s] = "none" THEN "none" ELSE "gone"]
    /\ held' = [s \in Stream |-> AlertEvent]
    /\ lastSync' = [f \in File |-> 0]
    /\ scan' = "asleep"
    /\ todo' = {}
    /\ read' = None
    /\ prevHash' = 0
    /\ missed' = [f \in File |-> TRUE]
    /\ crossed' = [f \in File |-> FALSE]
    /\ UNCHANGED <<alerts, told, stolen, fileVars, lines, torn, cuts>>

\* Mutant: the chain starts again with every start of the process.
StartAnew ==
    /\ ~up
    /\ up' = TRUE
    /\ prevHash' = 0
    /\ UNCHANGED <<crashes, loopVars, streamVars, missed, syncVars,
                   fileVars, lines, torn, cuts>>

\* newAuditLogger takes the chain up at the hash of the last line.
Start ==
    /\ ~up
    /\ up' = TRUE
    /\ prevHash' = IF lines = <<>> THEN 0 ELSE lines[Len(lines)].hash
    /\ UNCHANGED <<crashes, loopVars, streamVars, missed, syncVars,
                   fileVars, lines, torn, cuts>>

-----------------------------------------------------------------------------
Init ==
    /\ up = FALSE /\ crashes = 0
    /\ alertCh = 0 /\ handler = "select" /\ alerts = 0
    /\ outEvents = <<>>
    /\ conn = [s \in Stream |-> "closed"]
    /\ sender = [s \in Stream |-> "none"]
    /\ held = [s \in Stream |-> AlertEvent]
    /\ told = [f \in File |-> 0] /\ stolen = [s \in Stream |-> 0]
    /\ missed = [f \in File |-> FALSE] /\ crossed = [f \in File |-> FALSE]
    /\ lastSync = [f \in File |-> 0]
    /\ scan = "asleep" /\ todo = {} /\ read = None
    /\ file = [f \in File |-> Absent] /\ texts = 0
    /\ blurred = [f \in File |-> FALSE]
    /\ lines = <<>> /\ torn = FALSE /\ prevHash = 0 /\ cuts = 0

Sender(s) == TakeEvent(s) \/ QuitSender(s) \/ SendEvent(s) \/ SendFails(s)
Handler == TakeAlert \/ Diagnosed \/ LogEntry
Syncer ==
    \/ StartScan \/ StartGone \/ EndScan
    \/ \E f \in File : StatFile(f) \/ PushFile(f) \/ CheckGone(f)

Next ==
    \/ \E s \in Stream :
        OpenStream(s) \/ CutStream(s) \/ EndStream(s) \/ Sender(s)
    \/ Alert \/ Handler \/ Syncer
    \/ \E f \in File : Change(f) \/ Delete(f)
    \/ Stop \/ Start

\* The goroutines of a running process are scheduled: the syncer, whose ticker
\* goes on, and the senders.  Nothing is assumed of alerts, diagnoses, streams,
\* files, stops and starts.
Spec == Init /\ [][Next]_vars /\ WF_vars(Syncer)
             /\ \A s \in Stream : WF_vars(Sender(s))

-----------------------------------------------------------------------------
(* Properties.                                                             *)

Event == {AlertEvent, GoneEvent} \union [about : File, text : Nat]
Hash == {Junk} \union Nat
Line == [hash : Hash, prev : Hash, glued : BOOLEAN]

LoopTypes ==
    /\ up \in BOOLEAN /\ crashes \in Nat
    /\ alertCh \in 0 .. AlertCap
    /\ handler \in {"select", "diagnosing", "logging"}
    /\ alerts \in Nat
StreamTypes ==
    /\ outEvents \in Seq(Event) /\ Len(outEvents) <= OutCap
    /\ conn \in [Stream -> {"closed", "open", "cut", "ended"}]
    /\ sender \in [Stream -> {"none", "waiting", "holding", "gone"}]
    /\ held \in [Stream -> Event]
    /\ told \in [File -> Nat] /\ stolen \in [Stream -> Nat]
    /\ missed \in [File -> BOOLEAN] /\ crossed \in [File -> BOOLEAN]
SyncTypes ==
    /\ lastSync \in [File -> Nat]
    /\ scan \in {"asleep", "files", "gone"}
    /\ todo \subseteq File
    /\ read \in {None} \union [path : File, time : Nat]
    /\ file \in [File -> [time : Nat, text : Nat]]
    /\ texts \in Nat /\ blurred \in [File -> BOOLEAN]
LogTypes ==
    /\ lines \in Seq(Line)
    /\ torn \in BOOLEAN /\ prevHash \in Hash /\ cuts \in Nat

(* All variables keep their types, and neither channel holds more than its  *)
(* capacity (grpc_server.go:77 and sentinel.go:109, where they are made).    *)
TypeOK == LoopTypes /\ StreamTypes /\ SyncTypes /\ LogTypes

(* The goroutine of an ended stream may still win an event from the channel *)
(* the next stream is served from, but no more than one (grpc_server.go     *)
(* lines 230-245).                                                          *)
EndedTakesOne == \A s \in Stream : stolen[s] <= 1

(* verifyLines reports no more lines of the audit log than writes of it were *)
(* cut short, however often the process was restarted in between: damage    *)
(* does not spread along the chain, and a log never cut verifies.           *)
DamageStaysLocal == Cardinality(Tampered) <= cuts

(* When the Worker stays up and a stream stays open, the Overlord ends up   *)
(* with the text of every file there is, although a file may change between *)
(* the stat and the read of the scan (memory_sync.go:95-115): unless the    *)
(* last event about it was dropped or lost, or was taken by one stream      *)
(* while another, older stream was still to send the one before             *)
(* (grpc_server.go:226 lets two streams share the channel), or the file's   *)
(* last two versions bear the same modification time.  Of a deleted file    *)
(* nothing is promised: what pushDelete sends names another key             *)
(* (memory_sync.go:124 against :162).                                       *)
Converges ==
    (<>[](up /\ \E s \in Stream : conn[s] = "open"))
        => <>[](\A f \in File : \/ file[f] = Absent \/ told[f] = file[f].text
                                \/ missed[f] \/ crossed[f] \/ blurred[f])
=============================================================================
