------------------------------ MODULE Scheduler ------------------------------
(***************************************************************************)
(* The background scheduler (scheduler/scheduler.go) and the operations of *)
(* the skill that wraps it (skill/builtin/shared/scheduler.go).  The skill *)
(* is read-only for the tool orchestrator, so the model's calls of it run  *)
(* concurrently, beside the REPL's own (login, logout, exit): the callers  *)
(* are any goroutines.                                                     *)
(*                                                                         *)
(* The fields stopCh and stopped are read and replaced without regard to   *)
(* who still uses the old channels; a channel is named here by the number  *)
(* of the Start that made it.  A tick fires any of the armed tasks, for    *)
(* the clock is not modelled; what a task finds does not matter, and a     *)
(* panic in it, which ends the process, is left out.                       *)
(***************************************************************************)
EXTENDS Naturals

CONSTANTS
  Callers,      \* goroutines that use the skill
  MaxStarts,    \* bound: loops started
  MaxExecs,     \* bound: executions of tasks
  EventCap      \* capacity of eventCh

ASSUME SchedulerAssumption ==
  /\ MaxStarts \in Nat
  /\ MaxExecs \in Nat
  /\ EventCap \in Nat \ {0}

VARIABLES
  valid,          \* do the configured schedules parse?
  running,        \* Scheduler.running
  cur,            \* Scheduler.stopCh and .stopped: those of the cur-th Start
  stopClosed,     \* the stopCh channels that are closed
  stoppedClosed,  \* the stopped channels that are closed
  tasks,          \* Scheduler.tasks: none, loaded, or armed with a NextRun
  loop,           \* where the loop goroutine of each Start is
  op,             \* where each caller is in its operation
  on,             \* the stopped channel it waits for
  busy,           \* executions whose skill is running
  unsent,         \* executions in the history whose event is not yet sent
  events,         \* events in eventCh
  execs,          \* executions so far
  received,       \* history: events the REPL has received
  watching,       \* has the REPL's select the event channel (or nil)?
  overlapped,     \* history: did starts or stops ever overlap?
  crashed         \* has a panic outside of any recover ended the process?

fields  == <<running, cur, tasks>>
chans   == <<stopClosed, stoppedClosed>>
callers == <<op, on, overlapped>>
work    == <<busy, unsent, events, execs, received, watching>>
vars    == <<valid, fields, chans, loop, callers, work, crashed>>

Ops == {"idle", "load", "start", "close", "wait", "waiting", "run", "panicked"}

FieldTypes ==
  /\ valid \in BOOLEAN /\ running \in BOOLEAN
  /\ overlapped \in BOOLEAN /\ crashed \in BOOLEAN
  /\ cur \in 0..MaxStarts
  /\ stopClosed \subseteq 1..MaxStarts /\ stoppedClosed \subseteq 1..MaxStarts
  /\ tasks \in {"none", "loaded", "armed"}
  /\ loop \in [1..MaxStarts -> {"none", "run", "stopping", "ending", "over"}]
OpTypes ==
  /\ op \in [Callers -> Ops]
  /\ on \in [Callers -> 0..MaxStarts]
WorkTypes ==
  /\ busy \in 0..MaxExecs /\ unsent \in 0..MaxExecs /\ execs \in 0..MaxExecs
  /\ events \in 0..EventCap /\ received \in Nat
  /\ watching \in BOOLEAN

TypeOK == FieldTypes /\ OpTypes /\ WorkTypes

-----------------------------------------------------------------------------
(* The process runs, and goes on running.                                  *)
Alive == ~crashed /\ UNCHANGED crashed

-----------------------------------------------------------------------------
(* The operations of the callers.                                          *)

Managing(c) == op[c] \notin {"idle", "run"}

(* c begins a start or stop; it overlaps with any that another is in.      *)
Manage(c, step) ==
  /\ op' = [op EXCEPT ![c] = step]
  /\ overlapped' = (overlapped \/ \E d \in Callers : Managing(d))
  /\ UNCHANGED on

Goto(c, step) ==
  /\ op' = [op EXCEPT ![c] = step]
  /\ UNCHANGED <<on, overlapped>>

(* Mutant: a running scheduler is loaded again.                            *)
MayLoad_Always == TRUE

(* start, AutoStart: nothing to do when it is running.                     *)
MayLoad == ~running

BeginStart(c) ==
  /\ op[c] = "idle" /\ MayLoad
  /\ Manage(c, "load")
  /\ UNCHANGED <<valid, fields, chans, loop, work>>
  /\ Alive

(* LoadTasks: new tasks without a NextRun replace the old ones, unless one *)
(* of the schedules is malformed.                                          *)
LoadTasks(c) ==
  /\ op[c] = "load"
  /\ \/ /\ valid /\ tasks' = "loaded"
        /\ Goto(c, "start")
     \/ /\ ~valid /\ UNCHANGED tasks
        /\ Goto(c, "idle")
  /\ UNCHANGED <<valid, running, cur, chans, loop, work>>
  /\ Alive

(* Mutant: Start does not look whether a loop is there already.            *)
MayStart_Always == TRUE

MayStart == ~running

(* Start: under the lock, unless it runs already, new channels are made    *)
(* and the tasks get their NextRun; then the loop's goroutine is started.  *)
Start(c) ==
  /\ op[c] = "start"
  /\ \/ /\ MayStart /\ cur < MaxStarts
        /\ running' = TRUE
        /\ cur' = cur + 1
        /\ tasks' = "armed"
        /\ loop' = [loop EXCEPT ![cur + 1] = "run"]
     \/ /\ ~MayStart
        /\ UNCHANGED <<running, cur, tasks, loop>>
  /\ Goto(c, "idle")
  /\ UNCHANGED <<valid, chans, work>>
  /\ Alive

(* Mutant: a scheduler that is not running is stopped, too.                *)
MayStop_Always == cur > 0

(* stop, StopScheduler and Stop itself ask whether it is running, the last *)
(* one under the lock that is released before the channel is closed.       *)
MayStop == running

BeginStop(c) ==
  /\ op[c] = "idle" /\ MayStop
  /\ Manage(c, "close")
  /\ UNCHANGED <<valid, fields, chans, loop, work>>
  /\ Alive

(* close(s.stopCh), of what is the field's channel by now: to close one    *)
(* twice panics.                                                           *)
Close(c) ==
  /\ op[c] = "close"
  /\ \/ /\ cur \notin stopClosed
        /\ stopClosed' = stopClosed \cup {cur}
        /\ Goto(c, "wait")
     \/ /\ cur \in stopClosed
        /\ UNCHANGED stopClosed
        /\ Goto(c, "panicked")
  /\ UNCHANGED <<valid, fields, stoppedClosed, loop, work>>
  /\ Alive

(* <-s.stopped: the field is read, then its channel waited for.            *)
Wait(c) ==
  /\ op[c] = "wait"
  /\ op' = [op EXCEPT ![c] = "waiting"]
  /\ on' = [on EXCEPT ![c] = cur]
  /\ UNCHANGED <<valid, fields, chans, loop, overlapped, work>>
  /\ Alive

Stopped(c) ==
  /\ op[c] = "waiting" /\ on[c] \in stoppedClosed
  /\ Goto(c, "idle")
  /\ UNCHANGED <<valid, fields, chans, loop, work>>
  /\ Alive

(* run asks whether the scheduler is running; RunTask only looks for the   *)
(* task and, if there is one of that name, executes it in a goroutine of   *)
(* its own.                                                                *)
BeginRun(c) ==
  /\ op[c] = "idle" /\ running
  /\ Goto(c, "run")
  /\ UNCHANGED <<valid, fields, chans, loop, work>>
  /\ Alive

RunTask(c) ==
  /\ op[c] = "run"
  /\ \/ /\ tasks # "none" /\ execs < MaxExecs
        /\ busy' = busy + 1 /\ execs' = execs + 1
     \/ UNCHANGED <<busy, execs>>
  /\ Goto(c, "idle")
  /\ UNCHANGED <<valid, fields, chans, loop, unsent, events, received, watching>>
  /\ Alive

-----------------------------------------------------------------------------
(* The loop's goroutine.                                                   *)

(* checkAndFire: tasks that have a NextRun are executed when it has come.  *)
Fire(g) ==
  /\ loop[g] = "run" /\ tasks = "armed" /\ execs < MaxExecs
  /\ busy' = busy + 1 /\ execs' = execs + 1
  /\ UNCHANGED <<valid, fields, chans, loop, callers, unsent, events, received,
                 watching>>
  /\ Alive

LoopStop(g) ==
  /\ loop[g] = "run" /\ cur \in stopClosed
  /\ loop' = [loop EXCEPT ![g] = "stopping"]
  /\ UNCHANGED <<valid, fields, chans, callers, work>>
  /\ Alive

(* The deferred function: running is reset under the lock ...              *)
NotRunning(g) ==
  /\ loop[g] = "stopping"
  /\ running' = FALSE
  /\ loop' = [loop EXCEPT ![g] = "ending"]
  /\ UNCHANGED <<valid, cur, tasks, chans, callers, work>>
  /\ Alive

(* Mutant: nobody is told that the loop has ended.                         *)
Ended_NotClosed == stoppedClosed

(* ... and the stopped channel the field holds by then is closed; to close *)
(* one twice panics, and nothing recovers from that.                       *)
Ended == stoppedClosed \cup {cur}

LoopEnd(g) ==
  /\ loop[g] = "ending" /\ ~crashed
  /\ stoppedClosed' = Ended
  /\ crashed' = (cur \in stoppedClosed)
  /\ loop' = [loop EXCEPT ![g] = "over"]
  /\ UNCHANGED <<valid, fields, stopClosed, callers, work>>

-----------------------------------------------------------------------------
(* Executions and their events.                                            *)

(* executeTask: the skill ends, at the latest after its 60 s, and the      *)
(* execution is recorded in the history ...                                *)
Record ==
  /\ busy > 0
  /\ busy' = busy - 1 /\ unsent' = unsent + 1
  /\ UNCHANGED <<valid, fields, chans, loop, callers, events, execs, received,
                 watching>>
  /\ Alive

(* Mutant: the last place in the channel is never used.                    *)
Room_OneShort == events + 1 < EventCap

Room == events < EventCap

(* ... and its event sent, or dropped when the channel is full.            *)
SendEvent ==
  /\ unsent > 0
  /\ unsent' = unsent - 1
  /\ events' = IF Room THEN events + 1 ELSE events
  /\ UNCHANGED <<valid, fields, chans, loop, callers, busy, execs, received,
                 watching>>
  /\ Alive

(* Mutant: once it has been stopped the scheduler never has a channel.     *)
EventCh_Once == running /\ stopClosed = {}

(* EventCh: the channel, or nil when the scheduler is not running.         *)
EventCh == running

(* The REPL's main loop asks for the channel before every select, the next *)
(* one at the latest at the next tick of its animation.                    *)
Watch ==
  /\ watching # EventCh
  /\ watching' = EventCh
  /\ UNCHANGED <<valid, fields, chans, loop, callers, busy, unsent, events, execs,
                 received>>
  /\ Alive

ReceiveEvent ==
  /\ watching /\ events > 0
  /\ events' = events - 1 /\ received' = received + 1
  /\ watching' = EventCh
  /\ UNCHANGED <<valid, fields, chans, loop, callers, busy, unsent, execs>>
  /\ Alive

-----------------------------------------------------------------------------
Init ==
  /\ valid \in BOOLEAN
  /\ running = FALSE /\ cur = 0 /\ tasks = "none"
  /\ stopClosed = {} /\ stoppedClosed = {}
  /\ loop = [g \in 1..MaxStarts |-> "none"]
  /\ op = [c \in Callers |-> "idle"]
  /\ on = [c \in Callers |-> 0]
  /\ busy = 0 /\ unsent = 0 /\ events = 0 /\ execs = 0 /\ received = 0
  /\ watching = FALSE /\ overlapped = FALSE /\ crashed = FALSE

OpStep(c) ==
  LoadTasks(c) \/ Start(c) \/ Close(c) \/ Wait(c) \/ Stopped(c) \/ RunTask(c)
LoopEnds(g) == LoopStop(g) \/ NotRunning(g) \/ LoopEnd(g)
Repl == Watch \/ ReceiveEvent

Next ==
  \/ \E c \in Callers :
       BeginStart(c) \/ BeginStop(c) \/ BeginRun(c) \/ OpStep(c)
  \/ \E g \in 1..MaxStarts : Fire(g) \/ LoopEnds(g)
  \/ Record \/ SendEvent \/ Repl

Spec == Init /\ [][Next]_vars

(* Goroutines are scheduled, a loop with a closed stopCh does not choose   *)
(* its ticker for ever, tasks have a deadline, and the REPL goes round its *)
(* loop; nothing makes a caller begin anything, or a task due.             *)
FairSpec ==
  /\ Spec
  /\ \A c \in Callers : WF_vars(OpStep(c))
  /\ \A g \in 1..MaxStarts : WF_vars(LoopEnds(g))
  /\ WF_vars(Record) /\ WF_vars(SendEvent)
  /\ WF_vars(Repl)

-----------------------------------------------------------------------------
(* Properties.                                                             *)

(* However starts and stops overlap, no two loops fire tasks at a time,    *)
(* and one that does listens to the current stopCh (scheduler.go:79-97,    *)
(* 169-189).                                                               *)
OneLoop ==
  \A g \in 1..MaxStarts : loop[g] = "run" => g = cur /\ running

(* As long as starts and stops do not overlap no channel is closed twice,  *)
(* and when none is under way no loop is on its way out: a Stop that has   *)
(* returned leaves nothing that a later Start could collide with           *)
(* (scheduler.go:99-110, 170-175).                                         *)
SafeAlone ==
  ~overlapped =>
    /\ ~crashed /\ \A c \in Callers : op[c] # "panicked"
    /\ (\A c \in Callers : ~Managing(c)) =>
         \A g \in 1..MaxStarts : loop[g] \notin {"stopping", "ending"}

(* As long as starts and stops do not overlap the tasks of a running       *)
(* scheduler have a NextRun (scheduler.go:89-93, 195).                     *)
RunningFires == ~overlapped /\ running => tasks = "armed"

(* A Stop returns, unless another start or stop came in between            *)
(* (scheduler.go:109).                                                     *)
StopReturns ==
  \A c \in Callers : op[c] = "waiting" ~> op[c] # "waiting" \/ overlapped

(* No event is lost to a stop: if the scheduler is up in the end, the REPL *)
(* has received an event of every execution, those that ended while it was *)
(* stopped included, provided that never more executions were unfinished   *)
(* or unread than the channel holds (scheduler.go:121-128, 253-257,        *)
(* repl.go:390).  Beyond that events are dropped.                          *)
FewUnread == execs - received <= EventCap
EventsArrive ==
  []FewUnread /\ <>[](running /\ ~crashed) => <>[](received = execs)

=============================================================================
