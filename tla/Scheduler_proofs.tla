--------------------------- MODULE Scheduler_proofs ---------------------------
(***************************************************************************)
(* Proofs about Scheduler, for any callers and any number of starts.  The  *)
(* loop of the current Start is the only one that may fire: LoopInv.  As   *)
(* long as starts and stops do not overlap, the one that is under way      *)
(* knows how far that loop is: AloneInv.                                   *)
(***************************************************************************)
EXTENDS Scheduler, TLAPS

Loops == 1..MaxStarts
Stopping(c) == op[c] \in {"close", "wait", "waiting"}

(* Before its Start a loop is not there; from then to the reset of running *)
(* it is the current one.  Only what was started is stopped.               *)
LoopInv ==
  /\ \A g \in Loops : g > cur => loop[g] = "none"
  /\ \A g \in Loops : loop[g] \in {"run", "stopping"} => g = cur /\ running
  /\ running => cur \in Loops /\ loop[cur] \in {"run", "stopping"}
  /\ \A c \in Callers : Stopping(c) => cur \in Loops

WorkInv == busy + unsent <= execs

Waits(c) == op[c] \in {"wait", "waiting"}

OneManages == \A c, d \in Callers : Managing(c) /\ Managing(d) => c = d
NoPanics == ~crashed /\ \A c \in Callers : op[c] # "panicked"

(* A closed stopCh has its Stop waiting until the loop is over; a closed   *)
(* stopped channel says that it is.                                        *)
ChannelInv ==
  /\ stopClosed \subseteq 1..cur
  /\ \A g \in stoppedClosed : loop[g] = "over"
  /\ \A g \in Loops : loop[g] = "ending" => g = cur
  /\ \A g \in Loops : loop[g] \in {"stopping", "ending"} => g \in stopClosed
  /\ cur \in stopClosed => loop[cur] = "over" \/ \E c \in Callers : Waits(c)

(* What a start or stop that is under way may rely on.                     *)
OpInv ==
  \A c \in Callers :
    /\ op[c] \in {"load", "start"} => ~running
    /\ op[c] = "close" => running /\ cur \notin stopClosed
    /\ Waits(c) => cur \in stopClosed
    /\ op[c] = "waiting" => on[c] = cur

TasksInv == running => tasks = "armed"

AloneInv ==
  ~overlapped => OneManages /\ NoPanics /\ ChannelInv /\ OpInv /\ TasksInv

Base == TypeOK /\ LoopInv /\ WorkInv

-----------------------------------------------------------------------------
(* Types, and the one loop.                                                *)

LEMMA Limits == MaxStarts \in Nat /\ MaxExecs \in Nat /\ EventCap \in Nat \ {0}
BY SchedulerAssumption

LEMMA InitBase == Init => Base
<1> SUFFICES ASSUME Init PROVE Base
  OBVIOUS
<1>1. TypeOK
  <2>1. 0 \in 0..MaxStarts /\ 0 \in 0..MaxExecs /\ 0 \in 0..EventCap
    BY Limits
  <2>2. FieldTypes
    BY <2>1 DEF Init, FieldTypes
  <2>3. OpTypes
    BY <2>1 DEF Init, OpTypes, Ops
  <2>4. WorkTypes
    BY <2>1 DEF Init, WorkTypes
  <2> QED BY <2>2, <2>3, <2>4 DEF TypeOK
<1>2. LoopInv
  BY Limits DEF Init, LoopInv, Loops, Stopping
<1>3. WorkInv
  BY DEF Init, WorkInv
<1> QED BY <1>1, <1>2, <1>3 DEF Base

(* What the callers do keeps the base of the invariant ...                 *)
LEMMA OpBase ==
  ASSUME Base, NEW c \in Callers,
         BeginStart(c) \/ BeginStop(c) \/ BeginRun(c) \/ OpStep(c)
  PROVE  Base'
<1> USE Limits DEF Base, LoopInv, Loops, Stopping
<1>1. CASE BeginStart(c) \/ BeginStop(c) \/ BeginRun(c)
  <2>1. TypeOK'
    BY <1>1 DEF TypeOK, FieldTypes, OpTypes, WorkTypes, WorkInv, Ops, BeginStart,
      BeginStop, BeginRun, MayStop, Manage, Goto, Alive, fields, chans, callers,
      work
  <2>2. LoopInv'
    BY <1>1 DEF TypeOK, FieldTypes, OpTypes, Ops, BeginStart, BeginStop, BeginRun,
      MayStop, Manage, Goto, Alive, fields, chans, callers, work
  <2>3. WorkInv'
    BY <1>1 DEF TypeOK, WorkTypes, WorkInv, Ops, BeginStart, BeginStop, BeginRun,
      MayStop, Manage, Goto, Alive, fields, chans, callers, work
  <2> QED BY <2>1, <2>2, <2>3
<1>2. CASE LoadTasks(c)
  <2>1. TypeOK'
    BY <1>2 DEF TypeOK, FieldTypes, OpTypes, WorkTypes, WorkInv, Ops, LoadTasks,
      Goto, Alive, chans, work
  <2>2. LoopInv'
    BY <1>2 DEF TypeOK, FieldTypes, OpTypes, Ops, LoadTasks, Goto, Alive, chans,
      work
  <2>3. WorkInv'
    BY <1>2 DEF TypeOK, WorkTypes, WorkInv, Ops, LoadTasks, Goto, Alive, chans,
      work
  <2> QED BY <2>1, <2>2, <2>3
<1>3. CASE Start(c)
  <2>1. TypeOK'
    <3>1. FieldTypes'
      <4>1. CASE running
        BY <1>3, <4>1 DEF TypeOK, FieldTypes, Start, MayStart, Goto, Alive, chans
      <4>2. CASE ~running
        <5>1. cur + 1 \in Loops /\ cur' = cur + 1 /\ loop' = [loop EXCEPT ![cur + 1] = "run"]
          BY <1>3, <4>2 DEF TypeOK, FieldTypes, Start, MayStart
        <5>2. cur' \in 0..MaxStarts
          BY <5>1
        <5>3. loop' \in [1..MaxStarts -> {"none", "run", "stopping", "ending", "over"}]
          BY <5>1 DEF TypeOK, FieldTypes
        <5> QED BY <1>3, <4>2, <5>2, <5>3 DEF TypeOK, FieldTypes, Start, MayStart,
          Goto, Alive, chans
      <4> QED BY <4>1, <4>2
    <3>2. OpTypes' /\ WorkTypes'
      BY <1>3 DEF TypeOK, OpTypes, WorkTypes, Ops, Start, Goto, work
    <3> QED BY <3>1, <3>2 DEF TypeOK
  <2>2. LoopInv'
    BY <1>3 DEF TypeOK, FieldTypes, OpTypes, Ops, Start, MayStart, Goto, Alive,
      chans, work
  <2>3. WorkInv'
    BY <1>3 DEF TypeOK, WorkTypes, WorkInv, Ops, Start, MayStart, Goto, Alive,
      chans, work
  <2> QED BY <2>1, <2>2, <2>3
<1>4. CASE Close(c)
  <2>1. TypeOK'
    BY <1>4 DEF TypeOK, FieldTypes, OpTypes, WorkTypes, WorkInv, Ops, Close, Goto,
      Alive, fields, work
  <2>2. LoopInv'
    BY <1>4 DEF TypeOK, FieldTypes, OpTypes, Ops, Close, Goto, Alive, fields, work
  <2>3. WorkInv'
    BY <1>4 DEF TypeOK, WorkTypes, WorkInv, Ops, Close, Goto, Alive, fields, work
  <2> QED BY <2>1, <2>2, <2>3
<1>5. CASE Wait(c) \/ Stopped(c)
  <2>1. TypeOK'
    BY <1>5 DEF TypeOK, FieldTypes, OpTypes, WorkTypes, WorkInv, Ops, Wait,
      Stopped, Goto, Alive, fields, chans, work
  <2>2. LoopInv'
    BY <1>5 DEF TypeOK, FieldTypes, OpTypes, Ops, Wait, Stopped, Goto, Alive,
      fields, chans, work
  <2>3. WorkInv'
    BY <1>5 DEF TypeOK, WorkTypes, WorkInv, Ops, Wait, Stopped, Goto, Alive,
      fields, chans, work
  <2> QED BY <2>1, <2>2, <2>3
<1>6. CASE RunTask(c)
  <2>1. TypeOK'
    BY <1>6 DEF TypeOK, FieldTypes, OpTypes, WorkTypes, WorkInv, Ops, RunTask,
      Goto, Alive, fields, chans
  <2>2. LoopInv'
    BY <1>6 DEF TypeOK, FieldTypes, OpTypes, Ops, RunTask, Goto, Alive, fields,
      chans
  <2>3. WorkInv'
    BY <1>6 DEF TypeOK, WorkTypes, WorkInv, Ops, RunTask, Goto, Alive, fields,
      chans
  <2> QED BY <2>1, <2>2, <2>3
<1> QED BY <1>1, <1>2, <1>3, <1>4, <1>5, <1>6 DEF OpStep

(* ... and so does what the loops do ...                                   *)
LEMMA LoopBase ==
  ASSUME Base, NEW g \in Loops, Fire(g) \/ LoopEnds(g)
  PROVE  Base'
<1> USE Limits DEF Base, LoopInv, Loops, Stopping
<1>1. CASE Fire(g)
  <2>1. TypeOK'
    BY <1>1 DEF TypeOK, FieldTypes, OpTypes, WorkTypes, WorkInv, Fire, Alive,
      fields, chans, callers
  <2>2. LoopInv'
    BY <1>1 DEF TypeOK, FieldTypes, OpTypes, Fire, Alive, fields, chans, callers
  <2>3. WorkInv'
    BY <1>1 DEF TypeOK, WorkTypes, WorkInv, Fire, Alive, fields, chans, callers
  <2> QED BY <2>1, <2>2, <2>3
<1>2. CASE LoopStop(g)
  <2>1. TypeOK'
    BY <1>2 DEF TypeOK, FieldTypes, OpTypes, WorkTypes, WorkInv, LoopStop, Alive,
      fields, chans, callers, work
  <2>2. LoopInv'
    BY <1>2 DEF TypeOK, FieldTypes, OpTypes, LoopStop, Alive, fields, chans,
      callers, work
  <2>3. WorkInv'
    BY <1>2 DEF TypeOK, WorkTypes, WorkInv, LoopStop, Alive, fields, chans,
      callers, work
  <2> QED BY <2>1, <2>2, <2>3
<1>3. CASE NotRunning(g)
  <2>1. TypeOK'
    BY <1>3 DEF TypeOK, FieldTypes, OpTypes, WorkTypes, WorkInv, NotRunning,
      Alive, chans, callers, work
  <2>2. LoopInv'
    BY <1>3 DEF TypeOK, FieldTypes, OpTypes, NotRunning, Alive, chans, callers,
      work
  <2>3. WorkInv'
    BY <1>3 DEF TypeOK, WorkTypes, WorkInv, NotRunning, Alive, chans, callers,
      work
  <2> QED BY <2>1, <2>2, <2>3
<1>4. CASE LoopEnd(g)
  <2>1. TypeOK'
    BY <1>4 DEF TypeOK, FieldTypes, OpTypes, WorkTypes, WorkInv, LoopEnd, Ended,
      fields, callers, work
  <2>2. LoopInv'
    BY <1>4 DEF TypeOK, FieldTypes, OpTypes, LoopEnd, Ended, fields, callers, work
  <2>3. WorkInv'
    BY <1>4 DEF TypeOK, WorkTypes, WorkInv, LoopEnd, Ended, fields, callers, work
  <2> QED BY <2>1, <2>2, <2>3
<1> QED BY <1>1, <1>2, <1>3, <1>4 DEF LoopEnds

(* ... and executions, events and the REPL.                                *)
LEMMA WorkBase ==
  ASSUME Base, Record \/ SendEvent \/ Repl
  PROVE  Base'
<1> USE Limits DEF Base, LoopInv, Loops, Stopping
<1>1. CASE Record
  <2>1. TypeOK'
    BY <1>1 DEF TypeOK, FieldTypes, OpTypes, WorkTypes, WorkInv, Record, Alive,
      fields, chans, callers
  <2>2. LoopInv'
    BY <1>1 DEF TypeOK, FieldTypes, OpTypes, Record, Alive, fields, chans, callers
  <2>3. WorkInv'
    BY <1>1 DEF TypeOK, WorkTypes, WorkInv, Record, Alive, fields, chans, callers
  <2> QED BY <2>1, <2>2, <2>3
<1>2. CASE SendEvent
  <2>1. TypeOK'
    BY <1>2 DEF TypeOK, FieldTypes, OpTypes, WorkTypes, WorkInv, SendEvent, Room,
      Alive, fields, chans, callers
  <2>2. LoopInv'
    BY <1>2 DEF TypeOK, FieldTypes, OpTypes, SendEvent, Room, Alive, fields,
      chans, callers
  <2>3. WorkInv'
    BY <1>2 DEF TypeOK, WorkTypes, WorkInv, SendEvent, Room, Alive, fields, chans,
      callers
  <2> QED BY <2>1, <2>2, <2>3
<1>3. CASE Repl
  <2>1. TypeOK'
    <3>1. FieldTypes' /\ OpTypes'
      BY <1>3 DEF TypeOK, FieldTypes, OpTypes, Repl, Watch, ReceiveEvent, Alive, fields,
        chans, callers
    <3>2. watching' \in BOOLEAN
      BY <1>3 DEF TypeOK, FieldTypes, Repl, Watch, ReceiveEvent, EventCh
    <3>3. WorkTypes'
      BY <1>3, <3>2 DEF TypeOK, WorkTypes, Repl, Watch, ReceiveEvent
    <3> QED BY <3>1, <3>3 DEF TypeOK
  <2>2. LoopInv'
    BY <1>3 DEF TypeOK, FieldTypes, OpTypes, Repl, Watch, ReceiveEvent, EventCh,
      Alive, fields, chans, callers
  <2>3. WorkInv'
    BY <1>3 DEF TypeOK, WorkTypes, WorkInv, Repl, Watch, ReceiveEvent, EventCh,
      Alive, fields, chans, callers
  <2> QED BY <2>1, <2>2, <2>3
<1> QED BY <1>1, <1>2, <1>3

LEMMA NextBase == Base /\ [Next]_vars => Base'
<1> SUFFICES ASSUME Base, [Next]_vars PROVE Base'
  OBVIOUS
<1>1. CASE UNCHANGED vars
  BY <1>1 DEF Base, TypeOK, FieldTypes, OpTypes, WorkTypes, LoopInv, WorkInv, Loops,
    Stopping, vars, fields, chans, callers, work
<1> QED BY <1>1, OpBase, LoopBase, WorkBase DEF Next, Loops

LEMMA BaseHolds == Spec => []Base
BY InitBase, NextBase, PTL DEF Spec

(* All variables keep their types: no more loops, executions or events     *)
(* than there are starts, executions begun and places in the channel.      *)
THEOREM TypeCorrect == Spec => []TypeOK
BY BaseHolds, PTL DEF Base

(* At most one loop fires tasks, whatever starts and stops overlap.        *)
THEOREM OnlyOneLoop == Spec => []OneLoop
<1>1. Base => OneLoop
  BY DEF Base, LoopInv, Loops, OneLoop
<1> QED BY <1>1, BaseHolds, PTL

-----------------------------------------------------------------------------
(* Starts and stops that do not overlap.                                   *)

LEMMA InitAlone == Init => AloneInv
BY Limits DEF Init, AloneInv, OneManages, NoPanics, ChannelInv, OpInv, TasksInv,
  Managing, Waits, Loops

(* Nothing that manages: no stopCh is closed but of a loop that is over.   *)
LEMMA NobodyManages ==
  ASSUME Base, AloneInv, ~overlapped, \A d \in Callers : ~Managing(d)
  PROVE  /\ cur \in stopClosed => loop[cur] = "over"
         /\ \A g \in Loops : loop[g] \notin {"stopping", "ending"}
         /\ running => cur \notin stopClosed
BY DEF AloneInv, ChannelInv, Managing, Waits, Base, LoopInv, TypeOK, FieldTypes

(* A start or stop begins.                                                 *)
LEMMA BeginAlone ==
  ASSUME Base, AloneInv, ~overlapped', NEW c \in Callers,
         BeginStart(c) \/ BeginStop(c)
  PROVE  AloneInv'
<1>1. ~overlapped /\ (\A d \in Callers : ~Managing(d))
  BY DEF BeginStart, BeginStop, Manage
<1>2. UNCHANGED <<running, cur, tasks, stopClosed, stoppedClosed, loop, on, crashed>>
  BY DEF BeginStart, BeginStop, Manage, Alive, fields, chans
<1>3. PICK step \in {"load", "close"} :
        /\ op' = [op EXCEPT ![c] = step]
        /\ step = "load" => ~running
        /\ step = "close" => running
  BY DEF BeginStart, BeginStop, MayLoad, MayStop, Manage
<1>4. \A d \in Callers : op'[d] = IF d = c THEN step ELSE op[d]
  BY <1>3 DEF Base, TypeOK, OpTypes
<1>5. OneManages'
  BY <1>1, <1>4 DEF OneManages, Managing
<1>6. NoPanics'
  BY <1>1, <1>2, <1>3, <1>4 DEF AloneInv, NoPanics
<1>7. ChannelInv'
  BY <1>1, <1>2, NobodyManages DEF AloneInv, ChannelInv
<1>8. OpInv'
  BY <1>1, <1>2, <1>3, <1>4, NobodyManages DEF AloneInv, OpInv, Managing, Waits
<1>9. TasksInv'
  BY <1>1, <1>2 DEF AloneInv, TasksInv
<1> QED BY <1>5, <1>6, <1>7, <1>8, <1>9 DEF AloneInv

(* It goes on: as long as it does nobody else starts or stops anything.    *)
LEMMA OpAlone ==
  ASSUME Base, AloneInv, ~overlapped', NEW c \in Callers,
         BeginRun(c) \/ OpStep(c)
  PROVE  AloneInv'
<1>1. ~overlapped
  BY DEF BeginRun, OpStep, LoadTasks, Start, Close, Wait, Stopped, RunTask, Goto
<1>2. OneManages /\ NoPanics /\ ChannelInv /\ OpInv /\ TasksInv
  BY <1>1 DEF AloneInv
<1>3. \A d \in Callers : d # c => op'[d] = op[d] /\ on'[d] = on[d]
  BY DEF Base, TypeOK, OpTypes, BeginRun, OpStep, LoadTasks, Start, Close, Wait, Stopped,
    RunTask, Goto
<1>4. Managing(c) => \A d \in Callers : d # c => op[d] \in {"idle", "run"}
  BY <1>2 DEF OneManages, Managing
<1>5. CASE BeginRun(c) \/ RunTask(c)
  <2>1. /\ UNCHANGED <<running, cur, tasks, stopClosed, stoppedClosed, loop, on, crashed>>
        /\ op[c] \in {"idle", "run"} /\ op'[c] \in {"idle", "run"}
    BY <1>5 DEF BeginRun, RunTask, Goto, Alive, fields, chans, Base, TypeOK, OpTypes
  <2>2. OneManages'
    BY <1>2, <1>3, <2>1 DEF OneManages, Managing
  <2>3. NoPanics'
    BY <1>2, <1>3, <2>1 DEF NoPanics
  <2>4. \A d \in Callers : Waits(d)' <=> Waits(d)
    BY <1>3, <2>1 DEF Waits
  <2>5. ChannelInv'
    BY <1>2, <2>1, <2>4 DEF ChannelInv
  <2>6. OpInv'
    BY <1>2, <1>3, <2>1 DEF OpInv, Waits
  <2>7. TasksInv'
    BY <1>2, <2>1 DEF TasksInv
  <2> QED BY <2>2, <2>3, <2>5, <2>6, <2>7 DEF AloneInv
<1>6. CASE LoadTasks(c)
  <2>1. /\ UNCHANGED <<running, cur, stopClosed, stoppedClosed, loop, on, crashed>>
        /\ op[c] = "load" /\ op'[c] \in {"idle", "start"}
    BY <1>6 DEF LoadTasks, Goto, Alive, chans, Base, TypeOK, OpTypes
  <2>2. OneManages'
    BY <1>2, <1>3, <1>4, <2>1 DEF OneManages, Managing
  <2>3. NoPanics'
    BY <1>2, <1>3, <2>1 DEF NoPanics
  <2>4. \A d \in Callers : Waits(d)' <=> Waits(d)
    BY <1>3, <2>1 DEF Waits
  <2>5. ChannelInv'
    BY <1>2, <2>1, <2>4 DEF ChannelInv
  <2>6. ~running
    BY <1>2, <2>1 DEF OpInv
  <2>7. OpInv'
    BY <1>2, <1>3, <2>1, <2>6 DEF OpInv, Waits
  <2>8. TasksInv'
    BY <2>1, <2>6 DEF TasksInv
  <2> QED BY <2>2, <2>3, <2>5, <2>7, <2>8 DEF AloneInv
<1>7. CASE Start(c)
  <2>1. /\ UNCHANGED <<stopClosed, stoppedClosed, on, crashed>>
        /\ op[c] = "start" /\ op'[c] = "idle"
    BY <1>7 DEF Start, Goto, Alive, chans, Base, TypeOK, OpTypes
  <2>2. OneManages'
    BY <1>2, <1>3, <1>4, <2>1 DEF OneManages, Managing
  <2>3. NoPanics'
    BY <1>2, <1>3, <2>1 DEF NoPanics
  <2>4. ~running /\ \A d \in Callers : op[d] \in {"idle", "run"} \/ d = c
    BY <1>2, <1>4, <2>1 DEF OpInv, Managing
  <2>5. \A d \in Callers : op'[d] \in {"idle", "run"} /\ ~Waits(d)
    BY <1>3, <2>1, <2>4 DEF Waits
  <2>6. /\ running' /\ tasks' = "armed" /\ cur' = cur + 1
        /\ loop' = [loop EXCEPT ![cur + 1] = "run"] /\ cur + 1 \in Loops
    BY <1>7, <2>4, Limits DEF Start, MayStart, Base, TypeOK, FieldTypes, Loops
  <2>7. ChannelInv'
    <3>1. stopClosed' \subseteq 1..cur' /\ cur' \notin stopClosed'
      BY <1>2, <2>1, <2>6, Limits DEF ChannelInv, Base, TypeOK, FieldTypes
    <3>2. \A h \in Loops : loop[h] \notin {"stopping", "ending"}
      BY <1>2, <2>4, <2>5 DEF ChannelInv, Base, LoopInv, TypeOK, FieldTypes
    <3>3. \A h \in Loops : loop'[h] = IF h = cur + 1 THEN "run" ELSE loop[h]
      BY <2>6 DEF Base, TypeOK, FieldTypes, Loops
    <3>4. \A h \in Loops : loop'[h] \notin {"stopping", "ending"}
      BY <3>2, <3>3
    <3>5. loop[cur + 1] = "none"
      BY <2>6, Limits DEF Base, LoopInv, TypeOK, FieldTypes
    <3>6. \A h \in stoppedClosed' : loop'[h] = "over"
      BY <1>2, <2>1, <2>6, <3>3, <3>5 DEF ChannelInv, Base, TypeOK, FieldTypes, Loops
    <3> QED BY <3>1, <3>4, <3>6 DEF ChannelInv
  <2>8. OpInv'
    BY <2>5 DEF OpInv, Waits
  <2>9. TasksInv'
    BY <2>6 DEF TasksInv
  <2> QED BY <2>2, <2>3, <2>7, <2>8, <2>9 DEF AloneInv
<1>8. CASE Close(c)
  <2>1. running /\ cur \notin stopClosed /\ cur \in Loops
    BY <1>2, <1>8 DEF Close, OpInv, Base, LoopInv
  <2>2. /\ UNCHANGED <<running, cur, tasks, stoppedClosed, loop, on, crashed>>
        /\ op[c] = "close" /\ op'[c] = "wait"
        /\ stopClosed' = stopClosed \cup {cur}
    BY <1>8, <2>1 DEF Close, Goto, Alive, fields, Base, TypeOK, OpTypes
  <2>3. OneManages'
    BY <1>2, <1>3, <1>4, <2>2 DEF OneManages, Managing
  <2>4. NoPanics'
    BY <1>2, <1>3, <2>2 DEF NoPanics
  <2>5. ChannelInv'
    <3>1. Waits(c)'
      BY <2>2 DEF Waits
    <3>2. stopClosed' \subseteq 1..cur'
      BY <1>2, <2>1, <2>2, Limits DEF ChannelInv, Loops
    <3> QED BY <1>2, <2>2, <3>1, <3>2 DEF ChannelInv
  <2>6. \A d \in Callers : op'[d] = "wait" \/ op'[d] \in {"idle", "run"}
    BY <1>3, <1>4, <2>2 DEF Managing
  <2>7. OpInv'
    BY <2>2, <2>6 DEF OpInv, Waits
  <2>8. TasksInv'
    BY <1>2, <2>2 DEF TasksInv
  <2> QED BY <2>3, <2>4, <2>5, <2>7, <2>8 DEF AloneInv
<1>9. CASE Wait(c)
  <2>1. /\ UNCHANGED <<running, cur, tasks, stopClosed, stoppedClosed, loop, crashed>>
        /\ op[c] = "wait" /\ op'[c] = "waiting" /\ on'[c] = cur
    BY <1>9 DEF Wait, Alive, fields, chans, Base, TypeOK, OpTypes
  <2>2. OneManages'
    BY <1>2, <1>3, <1>4, <2>1 DEF OneManages, Managing
  <2>3. NoPanics'
    BY <1>2, <1>3, <2>1 DEF NoPanics
  <2>4. \A d \in Callers : Waits(d)' <=> Waits(d)
    BY <1>3, <2>1 DEF Waits
  <2>5. ChannelInv'
    BY <1>2, <2>1, <2>4 DEF ChannelInv
  <2>6. \A d \in Callers : d = c \/ op'[d] \in {"idle", "run"}
    BY <1>3, <1>4, <2>1 DEF Managing
  <2>7. OpInv'
    BY <1>2, <2>1, <2>6 DEF OpInv, Waits
  <2>8. TasksInv'
    BY <1>2, <2>1 DEF TasksInv
  <2> QED BY <2>2, <2>3, <2>5, <2>7, <2>8 DEF AloneInv
<1>10. CASE Stopped(c)
  <2>1. /\ UNCHANGED <<running, cur, tasks, stopClosed, stoppedClosed, loop, on, crashed>>
        /\ op[c] = "waiting" /\ op'[c] = "idle" /\ on[c] \in stoppedClosed
    BY <1>10 DEF Stopped, Goto, Alive, fields, chans, Base, TypeOK, OpTypes
  <2>2. OneManages'
    BY <1>2, <1>3, <1>4, <2>1 DEF OneManages, Managing
  <2>3. NoPanics'
    BY <1>2, <1>3, <2>1 DEF NoPanics
  <2>4. loop[cur] = "over"
    BY <1>2, <2>1 DEF OpInv, ChannelInv
  <2>5. ChannelInv'
    BY <1>2, <2>1, <2>4 DEF ChannelInv
  <2>6. \A d \in Callers : op'[d] \in {"idle", "run"}
    BY <1>3, <1>4, <2>1 DEF Managing
  <2>7. OpInv'
    BY <2>6 DEF OpInv, Waits
  <2>8. TasksInv'
    BY <1>2, <2>1 DEF TasksInv
  <2> QED BY <2>2, <2>3, <2>5, <2>7, <2>8 DEF AloneInv
<1> QED BY <1>5, <1>6, <1>7, <1>8, <1>9, <1>10 DEF OpStep

(* The loop goes on.                                                       *)
LEMMA LoopAlone ==
  ASSUME Base, AloneInv, NEW g \in Loops, Fire(g) \/ LoopEnds(g)
  PROVE  AloneInv'
<1> SUFFICES ASSUME ~overlapped' PROVE AloneInv'
  BY DEF AloneInv
<1>1. ~overlapped /\ UNCHANGED op /\ UNCHANGED on /\ UNCHANGED <<stopClosed, tasks, cur>>
  BY DEF Fire, LoopEnds, LoopStop, NotRunning, LoopEnd, callers, fields, chans
<1>2. OneManages /\ NoPanics /\ ChannelInv /\ OpInv /\ TasksInv
  BY <1>1 DEF AloneInv
<1>3. OneManages' /\ (\A d \in Callers : Waits(d)' <=> Waits(d))
  BY <1>1, <1>2 DEF OneManages, Managing, Waits
<1>4. CASE Fire(g)
  <2>1. UNCHANGED <<running, stoppedClosed, loop, crashed>>
    BY <1>4 DEF Fire, Alive, fields, chans
  <2>2. NoPanics' /\ ChannelInv'
    BY <1>1, <1>2, <1>3, <2>1 DEF NoPanics, ChannelInv
  <2>3. OpInv' /\ TasksInv'
    BY <1>1, <1>2, <2>1 DEF OpInv, TasksInv, Waits
  <2> QED BY <1>3, <2>2, <2>3 DEF AloneInv
<1>5. CASE LoopStop(g)
  <2>1. /\ UNCHANGED <<running, stoppedClosed, crashed>>
        /\ \A h \in Loops : loop'[h] = IF h = g THEN "stopping" ELSE loop[h]
        /\ loop[g] = "run" /\ cur \in stopClosed
    BY <1>5 DEF LoopStop, Alive, fields, chans, Base, TypeOK, FieldTypes, Loops
  <2>2. g = cur
    BY <2>1 DEF Base, LoopInv
  <2>3. NoPanics'
    BY <1>1, <1>2, <2>1 DEF NoPanics
  <2>4. ChannelInv'
    <3>1. \E c \in Callers : Waits(c)
      BY <1>2, <2>1, <2>2 DEF ChannelInv
    <3>2. \A h \in stoppedClosed' : loop'[h] = "over"
      BY <1>2, <2>1 DEF ChannelInv, Base, TypeOK, FieldTypes, Loops
    <3> QED BY <1>1, <1>2, <1>3, <2>1, <2>2, <3>1, <3>2 DEF ChannelInv
  <2>5. OpInv' /\ TasksInv'
    BY <1>1, <1>2, <2>1 DEF OpInv, TasksInv, Waits
  <2> QED BY <1>3, <2>3, <2>4, <2>5 DEF AloneInv
<1>6. CASE NotRunning(g)
  <2>1. /\ UNCHANGED <<stoppedClosed, crashed>> /\ ~running'
        /\ \A h \in Loops : loop'[h] = IF h = g THEN "ending" ELSE loop[h]
        /\ loop[g] = "stopping"
    BY <1>6 DEF NotRunning, Alive, chans, Base, TypeOK, FieldTypes, Loops
  <2>2. g = cur /\ cur \in stopClosed
    BY <1>2, <2>1 DEF Base, LoopInv, ChannelInv
  <2>3. NoPanics'
    BY <1>1, <1>2, <2>1 DEF NoPanics
  <2>4. ChannelInv'
    <3>1. \E c \in Callers : Waits(c)
      BY <1>2, <2>1, <2>2 DEF ChannelInv
    <3>2. \A h \in stoppedClosed' : loop'[h] = "over"
      BY <1>2, <2>1 DEF ChannelInv, Base, TypeOK, FieldTypes, Loops
    <3> QED BY <1>1, <1>2, <1>3, <2>1, <2>2, <3>1, <3>2 DEF ChannelInv
  <2>5. \A d \in Callers : op[d] # "close"
    BY <1>2, <2>2 DEF OpInv
  <2>6. OpInv'
    BY <1>1, <1>2, <2>1, <2>5 DEF OpInv, Waits
  <2>7. TasksInv'
    BY <2>1 DEF TasksInv
  <2> QED BY <1>3, <2>3, <2>4, <2>6, <2>7 DEF AloneInv
<1>7. CASE LoopEnd(g)
  <2>1. /\ UNCHANGED running /\ stoppedClosed' = stoppedClosed \cup {cur}
        /\ \A h \in Loops : loop'[h] = IF h = g THEN "over" ELSE loop[h]
        /\ loop[g] = "ending" /\ crashed' = (cur \in stoppedClosed)
    BY <1>7 DEF LoopEnd, Ended, fields, Base, TypeOK, FieldTypes, Loops
  <2>2. g = cur /\ cur \notin stoppedClosed
    BY <1>2, <2>1 DEF ChannelInv
  <2>3. NoPanics'
    BY <1>1, <1>2, <2>1, <2>2 DEF NoPanics
  <2>4. ChannelInv'
    <3>1. \A h \in stoppedClosed' : loop'[h] = "over"
      BY <1>2, <2>1, <2>2 DEF ChannelInv, Base, TypeOK, FieldTypes, Loops
    <3> QED BY <1>1, <1>2, <2>1, <2>2, <3>1 DEF ChannelInv
  <2>5. OpInv' /\ TasksInv'
    BY <1>1, <1>2, <2>1 DEF OpInv, TasksInv, Waits
  <2> QED BY <1>3, <2>3, <2>4, <2>5 DEF AloneInv
<1> QED BY <1>4, <1>5, <1>6, <1>7 DEF LoopEnds

(* Nothing else has to do with it.                                         *)
LEMMA OthersAlone ==
  ASSUME AloneInv, UNCHANGED <<fields, chans, loop, callers, crashed>>
  PROVE  AloneInv'
BY DEF AloneInv, OneManages, NoPanics, ChannelInv, OpInv, TasksInv, Managing, Waits,
  fields, chans, callers

LEMMA NextAlone == Base /\ AloneInv /\ [Next]_vars => AloneInv'
<1> SUFFICES ASSUME Base, AloneInv, [Next]_vars PROVE AloneInv'
  OBVIOUS
<1>1. CASE UNCHANGED vars
  BY <1>1, OthersAlone DEF vars
<1>2. CASE Record \/ SendEvent \/ Repl
  BY <1>2, OthersAlone DEF Record, SendEvent, Repl, Watch, ReceiveEvent, Alive
<1>3. ASSUME NEW c \in Callers, BeginStart(c) \/ BeginStop(c) \/ BeginRun(c) \/ OpStep(c)
      PROVE  AloneInv'
  <2>1. CASE overlapped'
    BY <2>1 DEF AloneInv
  <2> QED BY <1>3, <2>1, BeginAlone, OpAlone
<1>4. ASSUME NEW g \in 1..MaxStarts, Fire(g) \/ LoopEnds(g)
      PROVE  AloneInv'
  BY <1>4, LoopAlone DEF Loops
<1> QED BY <1>1, <1>2, <1>3, <1>4 DEF Next

LEMMA AloneHolds == Spec => [](Base /\ AloneInv)
<1>1. Init => Base /\ AloneInv
  BY InitBase, InitAlone
<1>2. Base /\ AloneInv /\ [Next]_vars => (Base /\ AloneInv)'
  BY NextBase, NextAlone
<1> QED BY <1>1, <1>2, PTL DEF Spec

(* Starts and stops one at a time close no channel twice, and leave no     *)
(* loop on its way out behind.                                             *)
THEOREM SafeWhenAlone == Spec => []SafeAlone
<1>1. Base /\ AloneInv => SafeAlone
  BY NobodyManages DEF AloneInv, NoPanics, SafeAlone, Loops
<1> QED BY <1>1, AloneHolds, PTL

(* Starts and stops one at a time leave no scheduler running whose tasks   *)
(* have no NextRun.                                                        *)
THEOREM RunningSchedulerFires == Spec => []RunningFires
<1>1. AloneInv => RunningFires
  BY DEF AloneInv, TasksInv, RunningFires
<1> QED BY <1>1, AloneHolds, PTL
=============================================================================
