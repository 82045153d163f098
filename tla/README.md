# Verification of opendbcli

TLA+ models of the parts of opendbcli whose correctness depends on the order of
events, the TLC configurations that check them on small instances, and TLAPS
proofs of their safety for every instance. Each model is translated from the Go
source; `PROJECT.json` maps every definition to the lines it stands for.

opendbcli is a database administration agent. It runs in one of four ways: as a
command line program with an LLM-driven diagnosis loop, and, for fleets, as a
*Worker* beside each database (`internal/drone`), an *Overlord* for the Workers
of a region (`internal/overlord`) and a *Cerebrate* for the Overlords of a fleet
(`internal/cerebrate`). The roles talk by gRPC.

Contents: 1 the system and its parts, 2 modules, 3 runs, 4 fairness,
5 proofs, 6 abstractions, 7 disagreements, 8 not modelled, 9 plan, 10 checking.

## 1. The system and its parts

| Part | State | Operations | Talks to | What is hard | What makes it correct |
|---|---|---|---|---|---|
| Worker link (`drone/overlord_client.go`, `overlord/agent_service.go`, `overlord/worker_conn.go`) | client: address, connection, `connected`, failure count; Overlord: registry of Workers, list of the poller | Connect, heartbeat loop, reconnect, RedirectTo; Register and Heartbeat handlers; status poller, timeout | Worker <-> Overlord; Cerebrate calls RedirectWorker | the client is shared by three goroutines without a lock; both sides restart; replies get lost; the poller answers for an entry it read before | a live Worker is registered again after anything; a dead one does not stay RUNNING; the registry forgets nobody it accepted |
| Cerebrate HA (`cerebrate/ha.go`, `cerebrate/grpc_server.go`, `overlord/cerebrate_client.go`) | fleet entries, list of backups; per Overlord a client and a standby monitor | RegisterOverlord with AddBackup, heartbeat, ping, RequestVote, promote, yield | Overlord <-> Cerebrate, Overlord <-> Overlord | concurrent handlers; peers notice a failure at different times; votes get lost | at most two backups; not both peers promote; the one with priority does; Overlords rejoin |
| Fleet redirection (`cerebrate/overlord_conn.go`) | per Overlord: state, last seen, cached Workers, count | heartbeat, status poller, return of stale Overlords, RedirectWorkersFromDeadOverlord | Cerebrate -> Overlords, Workers | the poller acts on what it read several network calls ago; redirection happens once | Workers of a healthy Overlord stay; none stays with a dead one; the cached list catches up |
| Diagnosis loop (`engine/engine.go`, `engine/context`, `engine/session`) | conversation, turn, retries, streamed text, saved session | model call (streamed, fallback, retried), truncation recovery, parse retry, nudge, tool round, passthrough, compression, resume, save | providers, orchestrator, REPL (OnStream) | a dozen paths out of a turn; compression and resume cut into the conversation | every request is well-formed and about the question; no text twice; the run ends |
| Tool orchestrator (`engine/tool/orchestrator.go`) | results, slots, cache | partition, concurrent reads, serial writes, cache | loop, skills | goroutines, panics, a cache that is never invalidated | writes alone; every call answered; no repetition |
| Background scheduler (`scheduler/scheduler.go`, `skill/builtin/shared/scheduler.go`) | `running`, two channels, tasks, event channel | load, Start, Stop, EventCh, RunTask, loop, executeTask | REPL and tools call it; it runs skills | check-then-act without the lock; channels replaced while in use | one loop; channels closed once; Stop returns; events arrive |
| Sentinel (`postgres/sentinel`, `skill/ai/sentinel_skill.go`) | state machine, baseline window, sustained counts, suppressed metrics, alert channel | start, stop, tick (recovery, T1/T2 detection, extended detection), burst, report, cooldown | database; REPL, dbtop or Worker read the alerts | metrics of slower tiers are absent from most ticks; each trigger cools down all metrics; probes fail inside a burst; nobody reads the alerts | an alert needs its samples in a row; one alert per recovery; what lasts is reported; Stop returns |
| Worker agent (`drone/autonomy.go`, `grpc_server.go`, `memory_sync.go`, `audit.go`) | alert loop, channel of events, streams with their senders, times of reported files, chain of log entries | handle an alert, PushEvent, EventStream, scan with push and delete, Log, verify, start and stop | Sentinel -> Worker -> Overlord | two senders on one channel; a file changes between stat and read; a write is cut short; restarts between any two steps | the Overlord ends up with the files' contents; an ended stream steals no more than one event; damage to the log stays where it happened |
| REPL (`ui/repl*.go`, `ui/skill_runner.go`, `connection/manager.go`, callback of `diag_skill.go`) | `diagRunning`, `skillRunning`, their channels, command queue, progress callback, current driver, held alerts | keys, start of diagnoses and skills, queue, pickers, login (typed, queued, or called by a diagnosis), cancel, results, alerts | engine, scheduler, sentinel, database | results, keys and alerts come in any order; the callback is shared by two diagnoses; a panic in a goroutine or in rendering | one command at a time, on one connection, in the order typed; the queue drains; the REPL does not stay busy |

The remaining parts (providers, skills, rule engines, SQL tuning, drivers, setup,
web console, ...) are listed in `PROJECT.json` with the reason why they are not
modelled. They are sequential, pure or I/O.

The README of the repository documents the command line only; there is no design
document. Claims about behaviour come from comments (`ISSUE-nnn`, `Cnn`) and tests.

### Hazards

`PROJECT.json` lists forty, each at the line where it bites with the properties
that would catch it. Further ones, that no property covers:

- `cerebrate/overlord_conn.go:415`: neither the redirect nor the status calls have a
  deadline, so one Worker that accepts the connection and never answers stops the
  redirection of all (an assumption of the fleet's liveness, section 4).
- `cerebrate/ha.go:309`: pings overwrite the count of Workers; `ha.go:107`: a backup
  whose sync failed stays marked unhealthy.
- `overlord/grpc_server.go:129`: a Worker that was moved stays in the registry of its old
  Overlord, which answers for it too, so the Cerebrate hears of it twice.
- `drone/lifecycle.go:24`: the state is set by several goroutines, and only displayed.
- `cmd/opendb/agent_mode.go:467`: the Overlord serves before its client to the Cerebrate
  exists.
- `engine/engine.go:519`, `:827`, `:281`: the last text of an earlier question, streams
  that break, an error return that saves nothing (section 7).
- `drone/llm_budget.go:68` and `:102`: the budget is checked and spent apart; no program
  code calls it.

## 2. Modules

    Membership  <=  WorkerLink        implements (TLC and TLAPS)
    Membership  <=  FleetRedirect     implements (TLAPS): its regions are such registries
    CerebrateHA                        the Overlords above the regions
    Sentinel  --- alerts --->  WorkerAgent     beside the link, in a Worker
    Sentinel  --- alerts --->  Repl            at the command line
    Terminal    <=  Repl              implements (TLC and TLAPS)
    Repl  --- starts --->  AgentLoop  --- LoopGetsResults ---  ToolOrchestrator
    Scheduler                          in the background of the command line

Every component `X` has `X.tla` (model and properties), `MCX.tla` with
`MCX_<run>.cfg`, and `X_proofs.tla`, except that AgentLoop and ToolOrchestrator share
`Engine_proofs.tla`, where their composition is stated. Arrows are interfaces kept
small enough to cut there: the alert channel is a bounded counter on both sides,
which Sentinel fills without ever waiting (its `StopReturns` assumes no reader), and
Repl and WorkerAgent take from with an arbitrary producer; a run of AgentLoop is one
`work[i]` of Repl.

**Membership** is the abstract registry of an Overlord: while the Overlord runs, it
only admits Workers; it loses all of them when it dies. WorkerLink implements it
(`Members` maps an entry of any state to membership), and so do the regions of
FleetRedirect, which knows no clients, handlers or polls. The two follow the same
abstract registry. That is less than a composition: it does not say that all that
FleetRedirect takes for granted of a link (its `Join`) is what WorkerLink delivers.

**WorkerLink.** Three goroutines of a Worker use the client: `connect`, the
`heartbeat` loop that a successful Connect starts, and `redirect`, the handler in
RedirectTo; `pc[w][g]` is where each is. They share, without a lock, the fields
`home`, `conn`, `client` and `connected`, so every access to one is a step:
making a connection is `CheckOld`, `CloseOld`, `ForgetOld` (RedirectTo: `Disconnect`,
`Readdress`), `Dial`, `StoreConn`, `StoreClient`, `SendRegister`, and then `RegisterOk` or
`RegisterFailed` with `ClearConn`. `new` is a connection that was dialled and not stored
yet, `open` those that nobody closed. A call is made on the connection the client is
bound to at that moment; it is served (`ServeRegister`, `ServeHeartbeat`), fails
(`CallFails`), or fails because someone closes its connection, and its caller goes on
in a step of its own. A Close of nil ends the process (`Panic`). `reg[o][w]` is the
entry in `WorkerManager.workers`; `PollTick`, `PollAsk` and `PollApply` are the poller,
which chooses Workers, asks *whoever has the address of the entry*, and writes later
what it learnt (`Polled`). Processes crash (`CrashWorker`, `CrashOverlord`) and start
again with empty memory. `raced` is history: RedirectTo overlapped the last
connection that was made.

**CerebrateHA.** `handler[o]` walks through RegisterOverlord: entry, count of
backups, AddBackup under its own lock, acknowledgement. `client[o]`, `missed[o]` are
the CerebrateClient; `monitor[o]`, `failed[o]` the StandbyMonitor with its election.
`Peer` is what SetPeer was called with. Overlord ids are numbers in the order of the
strings.

**FleetRedirect.** `state`, `fresh`, `cached`, `count` are the OverlordConnection; `pc`,
`todo`, `calls`, `answer` the poller's goroutine between its network calls; `region` is
each Overlord's registry. `Join` is WorkerLink seen from afar: a Worker registers with
the Overlord it was told to use. `missed` is history: the Workers whom the pass over
their dead Overlord did not move.

**AgentLoop.** One action per stage of a turn: `NextTurn` (with `Compress`), `CallModel`
(with the paths stream, fallback, retried, chat) or `Fail`, `Recover` (continuation of a
truncated answer), `ParseRetry`, `Nudge`, `FinalRound`, `CallTools`, `ToolsDone`,
`Passthrough`, `TurnsUsedUp`, `SaveSession`, and `Start` of the next question from the
saved session. A text is the record of where it comes from, so that "shown twice" and
"lost" can be said. `mixed` is history: a text came beside memory writes or ghost calls.

**ToolOrchestrator.** `Execute` partitions a round; each read is `Begin`, `Read`,
`Store`, each a step; `Wait` collects; `StartWrite`/`EndWrite` are serial, and
`ReturnResults` ends the round. Panics in reads are caught by SafeGo, in writes they
end the run. The value of a read is the number of writes it saw. Names that
AgentLoop has too begin with `Tools`, so that one module can speak of both.

**Scheduler.** `op[c]` is where each caller is in start, stop or run; `cur` names the
channels in the fields by the Start that made them; `loop[g]` is the goroutine of the
g-th Start, which resets `running` and then closes *whatever channel the field holds
by then*. Executions and the events in the channel are counted; `received` is history: the
events that the REPL took.

**Sentinel.** A value is abstracted to where it lies relative to the limits of its
metric (`good`, `band`, `bad`, `absent`); `Breach` and `Recovered` say what that means
for each strategy, so the gap between the two, and the two limits of a session metric,
are there. One action per way a tick can end: `TickIdle`, `TickSessionTrigger`,
`TickExtendedTrigger`, `TickNoTrigger`, `TickCooldown`; a tick whose fast probe fails
changes nothing and is no action. `Sample(t)` holds the metrics whose tier is due;
`Recovery`, `CountsUpTo`, `ResetCounts` are what the code does to the suppressed
metrics and the counts, in its order. The burst is a loop of frames (`FrameGoesOn`,
`FrameEnds`, `BurstStops`) with its two timers; `Report` writes the cooldown and tries
the channel. `streak` and `cleared` are history.

**WorkerAgent.** `handler` is the alert loop (select, diagnosing, logging); `sender[s]`
is the goroutine of stream `s`, which waits, holds an event, or is gone, while `conn[s]`
is open, cut without anybody noticing, or ended. Several streams may be open at a time,
and their senders share one channel; `crossed` is history: one took an update of a file
while another still held an older one. `scan` walks through the files it listed
(`StatFile`, `PushFile`: the time is that of the stat, the text that of a later read)
and then through the paths it reported earlier (`CheckGone`, which reports under the
base name, a key no update uses: `GoneEvent`). A log line is its hash, the chain value
it was computed from, and whether it was glued to the remains of another; `Tampered` is
verifyLines. `Stop` loses everything but the files and the log.

**Repl.** `main` is what the terminal's goroutine does (select, working off the queue, a
picker, exited); `work[i]` is where the goroutine of the i-th typed command is. A
diagnosis reports through the callback field that all diagnoses share: `EmitTest` reads
it, `EmitCall` calls what was read or what is there by now, `ClearOnProgress` clears it,
`SendDone` sends the last event. What is typed starts at once (`TypeStarts`), is done at
once by the terminal itself (`TypeSync`: /conn, /logout, ...), opens a picker, waits
(`TypeQueues`) or is refused; from the queue, where /login with arguments is of that
kind too, a command goes the same ways, and a picker ends in nothing, a login, or a
diagnosis or skill (`PickerStarts`). `driver` is the current driver, 0 or 1, the other
with every change. `RunSync` changes it in the terminal's goroutine; `Reconnects`
changes it in the goroutine of a command, for `login`, `logout` and `conn` are tools
that a diagnosis may call, and /connect and /disconnect are ordinary commands. `conn` is
the driver that the last run began with or chose itself.

**Terminal** is the abstract specification of that: a single server. A command that is
typed waits at the end, is refused when too many wait, or begins at once if nothing is
at work and nothing waits; the first that waits begins, or, if it asks the user
something, leaves without; the connection is changed by the command whose turn it is,
between two others or while it is at work. Once something panicked, a new command may
overtake what waits. Repl implements it under a mapping in which the command of an open
picker is still the first that waits and what is at work are the goroutines that may ask
the database something, so that the result in the channel, the flags and the three ways
to resume the queue are hidden.

## 3. Runs

| Run | Instance | States | What it shows |
|---|---|---|---|
| `link_restart` | 2 Workers, one of which may start with the address of the other, 1 Overlord, 1 crash, 1 lost call | 793 196 | every order of crash, restart and loss: the client is consistent, `AcceptedStaysKnown`, `Rejoins`, `DeadIsNoticed`, the refinement |
| `link_redirect` | 1 Worker, 2 Overlords, either down at first, 1 redirect, 1 failed heartbeat gives up | 978 782 | every access of RedirectTo to the client between those of Connect, heartbeat and reconnect: what a Worker that survives it joins |
| `ha_pair` | 2 Overlords that are peers, 1 crash each of Cerebrate and an Overlord, 1 loss | 173 628 | designation and election as designed |
| `ha_wired` (violation) | 2 Overlords without peers | 2 370 | as wired in `agent_mode.go` both promote |
| `fleet_single` | 3 Overlords, 2 Workers, 2 faults of any kind | 551 752 | redirects that fail, targets that die, a Cerebrate that restarts: who is moved, and who is left behind only for a stated reason |
| `sentinel_run` | 2 metrics (a session metric with two limits; a floor of a slower tier), 3 samples to trigger, baseline after 1 of 2 samples, channel of 1 | 138 488 | every course of two metrics' values, with the database failing, bursts, cooldowns, stop and start |
| `events_run` | 1 file, 2 streams that may overlap, event channel of 2, alert channel of 1, 2 restarts; 3 alerts, or 3 changes of the file, or one of each | 1.6 M | what the Overlord learns and what the audit log proves |
| `repl_run` | 3 commands of any kind, 2 alerts, 1 progress report, all channels of 1, panics | 529 628 | every order of keys, results, pickers, logins, alerts, cancels and panics |
| `loop_session` | 2 questions, 3 and 2 turns, up to 2 calls an answer | 3.5 M | conversations stay well-formed |
| `loop_text` | 1 question, 3 turns, all texts kept apart, 1 recovery, 1 retry | 665 034 | what becomes of the texts; termination |
| `tools_run` | 3 rounds of 9 calls, reads of 2 keys, 2 slots | 14 290 | every interleaving of reads, cache, writes and panics |
| `sched_run` | 2 callers, 3 starts, 3 executions, channel of 2 | 558 716 | overlapping starts and stops; what holds while they do not overlap; which events arrive |

**Why the bounds suffice.** *Link*: two Workers, because the poller takes whoever
answers at an address for the Worker of the entry: one of the two may start with the
address of the other, so that a dead Worker has an impostor at once, gets one later, or
has none. More Workers add nothing, as an entry has one address and one answer; the
proofs cover any number. One crash and one loss meet in every order; `MaxFailures = 3`
is the code's constant. The redirect run has one Worker, since the race is between the
goroutines of one; two Overlords are needed for a redirect, either may be down when it
comes, so that each connection may fail at each step; a single failed heartbeat gives up
(`MaxFailures = 1`), so that reconnect is reached without crashes, which the other run
has. Four names for connections suffice: when one is needed, the fields and the other
goroutine that makes a connection or a call hold at most three. The model allows one
RedirectTo at a time. *HA*: votes are between two peers; a third Overlord only competes
for the two places of a backup, which `AtMostTwoBackups` is proved for in general.
*Fleet*: three Overlords so that the target of a redirect can be chosen wrongly; two
faults, because the hazards need them: an Overlord dies, and then its target does, or
the call is lost, or the Cerebrate restarts. *Loop*: from the third turn on the collapse
of old turns works, three turns reach it, and the second question starts from a saved
session; `Speaks = {}` in `loop_session` ignores the texts, `loop_text` keeps them
apart. *Tools*: keys repeat within a round, across rounds and across a write; two slots
for three reads make one wait. *Scheduler*: three starts let a loop outlive two
successors; three executions overfill a channel of two, whose events the REPL reads
between any of them. *Sentinel*: two metrics are needed for one to stand in the other's
way (order, common cooldown) and for one to be absent where the other is present; three
samples distinguish "in a row" from "in all"; the proofs cover any number of metrics,
tiers and counts, and the other strategies (trend, capacity, instant), which the
instance leaves out. The values go on for ever, no counter bounds the run. *Worker
agent*: two streams are one that ended and its successor, or two at once; a channel of
two overflows by the third event; with two restarts a line may be cut by each process.
Alerts touch the log and changes touch the scan, and they meet in the channel only:
`Loads` allows many of one kind or one of each. *REPL*: three commands make one that
runs, one that waits and one that comes when both are under way; the limits of the code
(3 queued diagnoses, channels of 256 and 4) are reached with 1.

`CHECK_DEADLOCK FALSE` is set where the system may stop: a session after its last
question, a run after its last round, a scheduler that nobody uses or whose process
has ended, a terminal that was left, a Worker after its last alert with its
restarts used up. Sentinel is checked for deadlock.

**Properties.** Each module's comments state them. The ones that need several actors to
violate: `AcceptedStaysKnown` (history of the client against the registry of the right
incarnation), `PeersPickOne` and `PriorityTakesOver` (two monitors and a vote),
`NoOrphans` (the one pass over a dead Overlord against what it missed),
`HealthyKeepsWorkers` (a Worker's home against the fault history of its Overlord, with
the stale list of the poller between), `ListCatchesUp`, `RequestsPaired` (after retries,
collapse, resume), `ReportReaches` (a captured report against every path out of a turn:
it was shown, or the answer contains it), `StaleOnlyRepeats` (what a read may miss),
`SafeAlone` with `OneLoop` (channels of several Starts), `EventsArrive` (executions
against what the REPL received), `SustainedMeansConsecutive` and `ReportedOnce` (a count
kept through bursts, cooldowns and absent samples, against the samples themselves),
`LastingIsReported`, `Converges` (the scan against a file that changes under it),
`DamageStaysLocal` (verification against all that can be cut short), `OneAtATime` with
`SameConnection` (the terminal's flags against goroutines that outlive their result),
`ServesInTurn`, `QueueDrains`. Some invariants that are parts of these are proved but
not configured in a run (`BackupsInFleet`, `YieldsToSmaller`, `NotExecutedAgain`,
`NothingForgotten`, `ResultDue`, `HeldForReason`, and the type invariant of every
module), nor is `TypedOrder`, which `ServesInTurn` implies.

## 4. Fairness

Weak fairness (with one exception below), and only for what the Go scheduler,
tickers and deadlines force: goroutines that can run, tickers, calls that end,
handlers, the REPL's loop. Never for processes being started, crashes, losses,
redirects, questions of the user, or tasks becoming due. For calls, "they end" is
justified by contexts with deadlines where the code sets one (Register, heartbeat,
vote, model calls, 60 s for tasks); the Cerebrate's redirect and status calls have
none (`overlord_conn.go:415`), so fleet liveness assumes peers that answer or fail.
`DeadIsNoticed` and `ListCatchesUp` rely on the poller's ticker, `OverlordsJoin` and
`Rejoins` on the heartbeat tickers, `EventsArrive` on the REPL going round (its
animation tick re-reads the channel) and on its premise `FewUnread`, that the channel is
not asked to hold more than it can, `StopReturns` on Go's select not preferring
its ticker for ever when stopCh is closed.

*Sentinel*: its goroutine, tickers, timers, weakly; `LoopStops` strongly, because a
`select` with a ready ticker and a closed stopCh picks one at random (the one use of
strong fairness). Nothing of the database or of the reader of alerts: what
`LastingIsReported` needs of them is its premise. *Worker agent*: the scan, whose
ticker goes on, and the senders; nothing of alerts, diagnoses, streams, files, restarts.
`Converges` names what it needs: the Worker stays up and a stream stays open. *REPL*:
goroutines of commands (Dispatch returns within its ten minutes or when cancelled), the
select loop over its channels, the queue. Nothing of the user, who may leave a picker
open for ever: `QueueDrains` and `HeldIsShown` name that case.

## 5. Proofs

All theorems are about `Spec` (safety part) and for all values of the constants
that satisfy the module's named assumption; tlapm checks about 10 400 obligations,
more than half of them about the engine and the REPL.

| Module | Theorems | Inductive invariant |
|---|---|---|
| `WorkerLink_proofs` | `TypeCorrect`, `ClientConsistent`, `AcceptedKnown`, `OnlyAdmits` | `ClientInv`: before the first redirect one goroutine at a time makes a connection, and its place says what the fields hold (`Linked`, `ClientOf`): a connection it has stored is open, one it has closed is forgotten before another is dialled, and a heartbeat's call is on the connection the client will close. `KnownInv`: what the client was told never comes from a later incarnation, and the accepting incarnation holds an entry. `MemberInv`: entries are whole and the poller only holds Workers the registry knows, so writing a poll's answer back re-creates nothing |
| `CerebrateHA_proofs` | `TypeCorrect`, `TwoBackups`, `BackupsKnown`, `OnePromotes`, `YieldsOnlyToPriority` | `IInv` = types, `FleetInv` (a handler beyond its first step has its Overlord in the fleet), `VoteInv` (who promoted with every vote answered has priority over its peer; priority is exclusive) |
| `FleetRedirect_proofs` | `TypeCorrect`, `HealthyKeep`, `RegionsImplement` | `StayInv`: an Overlord that is not faulty is up and never timed out, only faulty ones are queued for redirection, a Worker configured for a healthy Overlord is in no other one's registry, list or answer, and every pending call is for a Worker of a faulty one |
| `Engine_proofs`, AgentLoop | `TypeCorrect`, `RepeatsRecovered`, `ReportStays`, `PairingKept`, `QuestionStays` | `TypeInv`. `ShowInv`: what was shown belongs to earlier turns, or to this turn and a path that streams; the chat path shows nothing before the final round. `ReadInv`: what the run will return contains every report whose turn did not show it, as long as no report came `mixed` and the stream was neither disabled nor continued. `PairedInv`: while nothing was cut off and no result lost, the conversation and the saved session are well paired, and between an answer's calls and their results the conversation is so up to the calls (`Calling`). `QuestionInv`: in a new session the question is the second message; in a resumed one at most one assistant message for each turn comes after it |
| `Engine_proofs`, ToolOrchestrator | `ToolsTypeCorrect`, `SerialWrites`, `Answered`, `StaleRepeats`, `NotAgain`, `LoopGetsItsResults` | `ToolsInv`: which calls may be in which state in each phase (`InTurn`), one write, active reads at most the slots, the cache holds what an earlier answered call with the key read |
| `WorkerAgent_proofs` | `TypeCorrect`, `TakesOne`, `DamageLocal`, `NoFileForgotten` | `TypeInv`: types, both channels within their capacity, no torn line in an empty log. `StreamInv`: each sender took at most one event for an ended stream, and if it did it still holds it or is gone, whatever other streams are open. `ChainInv`: the chain value in memory is the hash of the last line unless that is torn, and lines that are, or will be, reported cost one cut write each (`Suspects`). `SyncInv`: for a file that exists, and of which no event was lost and none taken out of order (`crossed`), the newest update on its way, or if there is none what the Overlord was told, is what the time in `lastSync` stands for |
| `Sentinel_proofs` | `TypeCorrect`, `Consecutively`, `Once` | `CountsSeen`: the count of a sustained metric is below the limit, is 0 while the metric is suppressed, and outside bursts and cooldowns never exceeds the breaches seen in a row; `FreeIsCleared`: what is not suppressed has recovered since its last report; `WatchIsWarm`, `IdleCounts`. Neither theorem holds by induction alone: that a count survives a cooldown it should not is excluded only by the reset at its end |
| `Repl_proofs` | `TypeCorrect`, `WorksOneAtATime`, `KeepsConnection`, `InTypedOrder`, `ImplementsTerminal`, `ResultArrives`, `AlertsHeldForReason` | `IInv`: `Flags` (a flag is set exactly when its channel is, never both), `AtWork` (who works owns the channel), `Results` (a result in a channel means that its run asks nothing any more), `OwnCallback` (a run finds its own callback or none), `Fresh`, `Waits`, `InOrder` (what waits was typed after what started last, and an idle terminal has an empty queue, until a panic) |
| `Scheduler_proofs` | `TypeCorrect`, `OnlyOneLoop`, `SafeWhenAlone`, `RunningSchedulerFires` | `LoopInv`: `running` holds exactly from a Start to the reset by *its* loop. `AloneInv`, while nothing overlapped: a closed stopCh has a waiting Stop until its loop is over, a closed stopped channel says that its loop is over |

`AcceptedKnown` is stated under `AllListen`, that every Worker is configured with a
listen address, as the command line's default sees to: without one Register accepts the
Worker and makes no entry for it (`agent_service.go:82`). `OnlyAdmits` and
`RegionsImplement` are refinements: the initial states map to initial states and every
step to a step of `Membership` or a stutter; the second says only that regions behave
like registries, not that the rest of the link does (section 2). So is
`ImplementsTerminal`, of `Terminal`: from `IInv`, and from `Asked` (a picker is open
only for a command that asks something), typing, pickers and the queue map to its
`Wait`, `Begin`, `DoAtOnce` and `Leave`, a login by a tool or by /connect to its
`Reconnect`, the end of a run's work to `End`, whichever step that is, and all that goes
on between a run's last query and the moment its result is drawn to stuttering.

`ResultArrives` and `AlertsHeldForReason` are what the liveness of the terminal rests
on, as invariants: until something panics, a busy terminal is in its select, and the
run it waits for is still to send its result or has sent it; and alerts are held only
while a command runs or the screen is blocked. They hold for every channel size, also
where `repl_run` has 1.

`PairingKept` and `QuestionStays` are about sequences that the code filters
(`saveSession`) and cuts at positions it searches for (`CollapseTurns`). Nothing about
the search is used but where it may stop: the cut is between turns, so what is kept
starts no result without its call; and a kept prefix, or four assistant messages,
stand between the cut and the question. Filtering keeps, of the elements, the order
and no others (`Persisted` says so with the positions kept, `Nth`), and whatever removes
only system messages removes no call and no result. A resumed question is safe for
three requests and no more (section 7).

`LoopGetsItsResults` composes the two halves of the engine: for every round in which at most
one read panics, the calls that the results of `Execute` answer are those that one of
the results AgentLoop lets the loop append (`ToolMessages`) answers. A round with more
panics is left out of AgentLoop as well: there it loses one result.

`KeepsConnection` has two cases: a change of the driver by the terminal itself is a
step with nothing at work, and one by a command is its own choice. It excludes
that another command, typed or queued, gets in between, and does not exclude that a
diagnosis closes the driver under its own reads, which happens (section 7).

`ReportStays` states that a report a diagnosis captured reaches the user: it was
streamed, or the answer the run returns contains it, whichever of retry, nudge, final
round, passthrough and the end of the turns comes in between. Its three premises are
ways in which the code loses it (section 7); dropping any one of them makes TLC find
the loss.

`NoFileForgotten` is the safety half of `Converges`: at any moment, crashes, broken and
overlapping streams included, a file that exists, that the scan has no reason to
report again and about which no update is on its way is known to the Overlord as it is,
unless an event about it was lost (`missed`), two senders took its updates at once
(`crossed`) or two versions of it have one time (`blurred`). Nothing is said of a file
that was deleted, because the code does not achieve it (section 7). The first attempt
at `SyncInv` took the last event in the channel to be the newest; it is not when the
sender of an ended stream holds one taken later. TLC found that, and the invariant now
quantifies over all holders. The proofs need that a file is not called "none"
(`PathAssumption`), which stands for "no file is being read".

**Only model-checked.** All liveness (`Rejoins`, `DeadIsNoticed`, `PriorityTakesOver`,
`OverlordsJoin`, `NoOrphans`, `ListCatchesUp`, `Ends`, `Returns`, `StopReturns`,
`EventsArrive`, `LastingIsReported`, `Converges`, `QueueDrains`, `HeldIsShown`, `BusyEnds`):
fairness and ENABLED are out of the prover's reach.
Every invariant and every action property of a passing run is proved. No theorem
speaks of what a recursive function yields for every input, which would need induction
over data: the definitions used in proofs say what their result is (`Persisted`), or
the proof does not depend on it.

## 6. Abstractions

*Link.* The fields of the client are read and written whole: torn words of the data race
are not modelled, its interleavings are. A call is served while its caller waits, or not
at all (no late service after a timeout). gRPC dials lazily: `Dial` opens a connection,
whether its peer answers shows in the call made on it. One poller per Overlord, as
`StartStatusPoller` is called once. *HA.* A health check, heartbeat or vote is one step,
since only its caller sees the outcome. SyncToBackups is left out: it only refreshes
times nobody reads. *Fleet.* Heartbeats are delivered at once or not at all for a spell
(`Cutoff`); Workers do not crash there (WorkerLink lets them); redirection needs Workers
with an explicitly configured, reachable listen address. *Loop.* OnStream is set; token
counts are arbitrary, so compression may come before any turn; reminders added to one
request, usage and thinking are left out; the memory round has no effect on the
conversation, but it executes every tool call it gets. Whether a tool result is missing
is a choice, bounded by what `EveryCallAnswered` of ToolOrchestrator promises: only a
read that panicked has none. *Tools.* Of the database only the count of writes is kept.
*Scheduler.* There is no clock, so any armed task may fire at any time; panics of tasks
are left out. *Sentinel.* PostgreSQL's detector; those of MySQL, Oracle and openGauss
repeat the machine with other metrics. The baseline is the number of samples it has: how
limits follow from it (mean and deviation) is left out, so a value's place may change at
any tick. Order of metrics, tiers and strategies are constants. Each metric has one
strategy. Some metrics of the code have T1 with T4 or T6, and T4 (acceleration) and T7
(shift) read a history of values that the model does not keep: both are left out, so the
properties are about metrics that have one strategy of T1-T3, T6, T8 or T9. Probe times
are not modelled: a tick is one step. The cause of an alert and the report's contents
are left out. *Worker agent.* A diagnosis ends somehow; whether it succeeded changes
only the text of the event. Of the log only the chain is kept; equal entries have
different hashes. The base name of a deleted file is never the key of another one.
Nothing in the repository opens the Worker's event stream yet, so `OpenStream` is the
Overlord the service is written for. *REPL.* A command is its kind; what it does in the
database, drawing and editing are left out, pickers answer arbitrarily. A login is one
step, in the terminal's goroutine or in that of a command: the manager swaps and closes
the driver under its lock. /model behaves like /login and is not told apart from it.
Reading the callback field once or twice is a choice, since the code does so without a
lock. *All.* A caller that panics is recovered by SafeGo if it is a tool's goroutine,
and ends the program if it is the REPL's; a loop's panic is never recovered.

## 7. Disagreements between code and claims

Kept as a violation run: **`ha_wired`** (`agent_mode.go:376` never calls SetPeer, so every
Overlord promotes itself).

Met while modelling, and confirmed by an instance or by reading; their runs are not
kept:

*Fleet, engine and scheduler*

- A redirect that overlaps Connect or reconnect: the goroutine that has read the old
  address and stores its connection last leaves the Worker with the Overlord it was sent
  away from, while RedirectTo answered that it has moved (`overlord_client.go:68`,
  `:150` against `:218`-`:227`, called at `:201`, `:209`); one that finds its connection
  cleared closes nil, which ends the process (`:235`). `Rejoins` says of such a Worker
  only that the Overlord its client calls knows it.
- The poller does not compare ids (`worker_conn.go:130`), and with the default listen
  address all Workers of a host look alike: a dead one stays RUNNING as long as
  another process answers at its address, against `:148` "Workers that fail to respond
  are marked offline". `DeadIsNoticed` has that as its premise (`Unanswered`).
- An answer with filtered ghost calls, or after a fallback, is returned but never
  given to OnStream (`engine.go:343`).
- Two Stops close one channel (`scheduler.go:108`, against `:31` "Thread-safe: all state
  changes are protected by mu."). They are possible because the skill is read-only
  and the orchestrator runs read-only calls concurrently.
- "Redirects Workers from a dead Overlord to a healthy one" (`overlord_conn.go:359`) is
  tried once for an Overlord that goes offline (`:340`). A Worker stays with the dead one
  although a healthy one is known if it was not on the list yet, if there was no healthy
  Overlord at that tick, if its RedirectWorker call was lost, or if the Cerebrate restarted
  and never saw the Overlord run. `NoOrphans` excepts the first three by `missed`
  and the last by the Overlord's state; without either exception it is violated in
  `fleet_single`.
- A report that a tool captured is returned only on some ways out. It is lost when
  streaming was given up or an answer was continued, or when it came beside memory writes
  or ghost calls and the turns then run out (`engine.go:407`, against `:199`).
- When the turns are used up without a text, the last assistant text of the whole
  conversation is returned, that of an earlier question in a resumed session
  (`engine.go:519`).
- ElectionVote compares ids and nothing else (`overlord/grpc_server.go:226`): an Overlord
  that promoted because its own vote request got no answer accepts its smaller peer's
  later request, and both are promoted. A restarted Cerebrate that refuses the ping of
  an Overlord it does not know yet counts as dead (`ha.go:309`).
- After yielding, the monitor stops; nobody watches whether the winner serves
  (`ha.go:294`). The same Overlord that registers again is designated twice
  (`ha.go:94`). Pings set the count of Workers to 0 (`ha.go:309`, `overlord_conn.go:211`).
- No client sends a join token, so with a token configured nobody can register.
- A Worker that comes back with a new address keeps its old connection in the
  registry (`agent_service.go:84`).
- A stream that breaks is treated as one that ended (`engine.go:827`); an error return
  does not save the session (`engine.go:281` against `:149`); the orchestrator's key
  does not normalise arguments (`orchestrator.go:55`); a continuation is shown twice on
  the chat path; from the fourth turn of a resumed session on the question itself may be
  collapsed away.
- LoadTasks is "safe to call while running (for reload)" (`scheduler.go:54`), but tasks
  loaded while the loop runs have no NextRun and never fire; Stop "waits for
  completion" (`:99`) of the loop, not of running tasks. Two starts that overlap may leave
  the running scheduler with such unarmed tasks (`shared/scheduler.go:169`). Events that
  find the channel full are dropped (`scheduler.go:253`): `EventsArrive` has as its premise
  that this never happens.

*Sentinel*

- A burst never ends while the database does not answer: a failed probe goes back
  to the select past the check of the time (`burst.go:75`, against "突发采集: 最长%v" in
  `sentinel_skill.go:187`). Only Stop ends it.
- The baseline is ready after a literal 10 samples (`baseline.go:41`), whatever MinSamples
  is; with a window below 10 the detector never leaves Idle. `WindowAssumption` excludes
  that.
- The end of a cooldown resets the T1/T2 counts and not those of the extended
  detector. A trend's (T3's) threshold is a slope, so recovery compares a value with a
  slope. Oracle's inverted capacity metric is in breach and recovered at exactly its
  red limit. SetAlertState (T5) has no caller.

*Worker agent*

- The routing by cause described above handleAlert (`autonomy.go:231`) never happens:
  CauseName is the display name in all products (`sentinel.go:503`), not a key of the
  tables. "LLM unavailable → escalate upward" (`:235`) holds only when none is
  configured; when calls to one fail, the skill returns a result without an error
  and the alert is reported as healed.
- The Worker diagnoses `/llm 1`, the newest report (`agent_mode.go:238`), which need not be
  the alert it handles.
- A delete names the file without the `category/` prefix of its updates
  (`memory_sync.go:181` against `:162`), so an Overlord that applies events by name never
  drops the file; `Converges` promises nothing of deleted files. A file deleted while the
  Worker is down is not reported at all (`:124`); a version with the same or an older time
  is missed; the time is noted also when the full channel dropped the event (`:115`).
  `missed` and `blurred` in `Converges` are these cases.
- EventStream does not refuse a second stream (`drone/grpc_server.go:226`): two that are
  open take from one channel, and an older update may arrive after a newer one
  (`crossed`).
- A write of the log that is cut short makes the entry appended to it look tampered
  (`audit.go:107`): `DamageStaysLocal` counts them.
- Nothing opens the event stream or calls HandleWorkerEvent, HandleMemorySync only
  logs, and LLMBudget and NewLLMHooks have no caller outside tests.

*REPL*

- A panic in Dispatch leaves `diagRunning` or `skillRunning` set for ever: SafeGo
  recovers, but the last event is never sent (`repl_async.go:104`, against the comment at
  `:108`). A panic while rendering a result leaves the queue until the next command ends
  (`repl.go:464`).
- A bare picker run from the queue leaves `blockingUI` set until a key is pressed, so
  alerts are held meanwhile. Questions in plain words bypass the limit of three queued
  diagnoses (`repl_async.go:43`).
- login, logout and conn count as read-only (`login.go:43`) and are offered to the model
  (`bridge/skillbridge.go:67`, `engine.go:604`), so the orchestrator runs them beside other
  reads: a diagnosis can close the driver under its own queries, and go on with another
  database (`manager.go:196`). The background sentinel and scheduler may be using it
  likewise. `SameConnection` is about one command against the others.

## 8. Not modelled

See the components with status `not_modelled` in `PROJECT.json`, each with its
reason. They are of four kinds: rendering and wording (console, prompts, monitors,
reports); I/O without state between calls (drivers, deployment, probes, setup);
tables and pure functions with unit tests (rule engines, guard, statistics,
providers' formats); and code that the program does not call (LLM budget,
correlation, mirror). By lines they are most of the repository: rule engines and
database skills alone are half of it, which is why the share of mapped lines is
small.

Left out of modelled parts: PushCommand, BroadcastCommand and PushPolicyToAll (request and
response without stored state), RemoveOverlord (no caller), the timeline, quotas and
back-off times, the contents of history and session files, cron expressions, the
Worker's fault reports and rule matching, all rendering.

## 9. Plan

Done: Membership, WorkerLink, CerebrateHA, FleetRedirect, AgentLoop, ToolOrchestrator,
Scheduler, Sentinel, WorkerAgent, Terminal, Repl, with the theorems above. Left:

1. The safety halves of more liveness properties, as for WorkerAgent and Repl: who
   waits in ToolOrchestrator, Scheduler and CerebrateHA waits for someone who can
   move; in FleetRedirect, a Worker of a dead Overlord is still on somebody's list.
2. The composition of Sentinel with WorkerAgent and Repl over the alert channel, as
   a theorem like `LoopGetsItsResults`.
3. Parts that would become worth modelling when they are wired: correlation and mirror
   when the Overlord opens event streams, the LLM budget when a hook is installed.
   Then WorkerAgent composes with WorkerLink (streams that end with the connection).
4. The LLM queue of the Cerebrate and the retry quota, small and sequential.

## 10. Checking

In this directory: `tlc -workers 2 -config MCScheduler_run.cfg MCScheduler` and the like
for each run; `tlapm Scheduler_proofs.tla` and the like for the proofs. The longest run
takes about three minutes on two cores, the longest proof (Engine) a few minutes.
`PROJECT.json` gives for every property of a passing run a mutant: an operator next to
the mapped definition (`MayStop_Always` next to `MayStop`) which, put in its place,
makes TLC find the property violated.
