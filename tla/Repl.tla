-------------------------------- MODULE Repl --------------------------------
(***************************************************************************)
(* The terminal of opendb: one goroutine takes keys, alerts and results    *)
(* from channels and draws; a diagnosis or a command runs in a goroutine   *)
(* of its own, and what is typed meanwhile waits in a queue.               *)
(*                                                                         *)
(* Source: src/internal/ui/repl.go, repl_async.go, repl_input.go,          *)
(* skill_runner.go, scheduler_renderer.go, alert_renderer.go, the progress *)
(* callback of src/internal/postgres/skill/ai/diag_skill.go, and           *)
(* src/internal/connection/manager.go.                                     *)
(*                                                                         *)
(* A command is its kind and the number it was typed as; drawing, history, *)
(* paste and SQL editing are left out, and so are commands that finish     *)
(* at once and touch nothing here (/help, /history, /config, /clear).      *)
(* A model is chosen the way a connection is (/model, /m), so that the     *)
(* kinds of /login stand for both.                                         *)
(***************************************************************************)
EXTENDS Naturals, Sequences, FiniteSets

CONSTANTS MaxTyped,      \* bound: commands the user types
          MaxAlerts,     \* bound: alerts the detector raises
          MaxProgress,   \* bound: progress reports of one diagnosis
          DiagLimit,     \* queued commands past which /llm is refused (3)
          ChanCap,       \* capacity of a diagnosis channel (256)
          AlertCap,      \* capacity of the alert channel (4)
          MayPanic       \* whether commands and rendering may panic

ASSUME BoundAssumption == MaxTyped \in Nat \ {0} /\ MaxAlerts \in Nat /\ MaxProgress \in Nat
ASSUME LimitAssumption == DiagLimit \in Nat /\ ChanCap \in Nat \ {0} /\ AlertCap \in Nat
ASSUME PanicAssumption == MayPanic \in BOOLEAN

Id == 1 .. MaxTyped

\* A question in plain words; /llm, /rule and /login bare or with arguments;
\* what the terminal runs itself (/conn, /logout, /dbtop); and any other
\* command, /connect and /disconnect among them, which are no syncCommands.
Kinds == {"question", "llm", "llmarg", "rule", "rulearg", "login", "loginarg", "conn", "skill"}
PickerWhenTyped == {"llm", "llmarg", "rule", "rulearg", "login", "loginarg"}
PickerWhenQueued == {"llm", "rule", "login"}
Limited == {"llm", "llmarg"}
Sync == {"loginarg", "conn"}

Command == [id : Id, kind : Kinds]

VARIABLES main,          \* the terminal's goroutine: select, queue, picker, exited
          picking,       \* the command the picker was opened for
          fromQueue,     \* the picker was opened by processCmdQueue
          blockingUI,
          diagRunning, skillRunning,
          diagCh,        \* the run whose channel diagCh is, 0 for nil
          skillCh,
          diagCancel,    \* diagCancel is set
          cmdQueue,
          typed,         \* commands typed so far
          work,          \* the goroutine of every run
          inbox,         \* the channel of every run
          progress,      \* progress reports the run has still to make
          onProgress,    \* the run the skill's callback writes to, 0 for nil
          seen,          \* the callback that a run's emitProgress tested
          driver,        \* the current driver: 0 or 1, the other with every change
          alertCh, pendingAlerts, raised,
          conn,          \* history: the driver the last run began with or chose since
          last,          \* history: the command started last
          panicked       \* history: something has panicked

uiVars == <<main, picking, fromQueue, blockingUI>>
busyVars == <<diagRunning, skillRunning, diagCh, skillCh, diagCancel>>
runVars == <<work, inbox, progress, onProgress, seen>>
alertVars == <<alertCh, pendingAlerts, raised>>
history == <<conn, last, panicked>>
vars == <<uiVars, busyVars, cmdQueue, typed, runVars, driver, alertVars, history>>

NoCommand == [id |-> 0, kind |-> "none"]

\* The places of a run's goroutine.
DiagPlaces == {"diag",          \* Dispatch is at work
               "calling",       \* emitProgress saw a callback and will call it
               "callingDone",   \* the same with the result
               "returned",      \* Dispatch has returned
               "sending"}       \* the callback is cleared, the last send is due
Places == DiagPlaces \union {"none", "skill", "finished", "panicked"}

\* Runs that may still ask the database something.
Working == {"diag", "calling", "callingDone", "skill"}

Busy == diagRunning \/ skillRunning

-----------------------------------------------------------------------------
Init ==
    /\ main = "select" /\ picking = NoCommand /\ fromQueue = FALSE /\ blockingUI = FALSE
    /\ diagRunning = FALSE /\ skillRunning = FALSE
    /\ diagCh = 0 /\ skillCh = 0 /\ diagCancel = FALSE
    /\ cmdQueue = <<>> /\ typed = 0
    /\ work = [i \in Id |-> "none"]
    /\ inbox = [i \in Id |-> <<>>]
    /\ progress = [i \in Id |-> 0]
    /\ onProgress = 0 /\ seen = [i \in Id |-> 0]
    /\ driver = 0
    /\ alertCh = 0 /\ pendingAlerts = 0 /\ raised = 0
    /\ conn = 0 /\ last = 0 /\ panicked = FALSE

\* startDiagAsync: a channel, a callback that writes to it, a goroutine.
StartDiag(i) ==
    /\ diagRunning' = TRUE /\ diagCh' = i /\ diagCancel' = TRUE
    /\ onProgress' = i
    /\ work' = [work EXCEPT ![i] = "diag"]
    /\ \E n \in 0 .. MaxProgress : progress' = [progress EXCEPT ![i] = n]
    /\ conn' = driver
    /\ last' = i
    /\ UNCHANGED <<skillRunning, skillCh, inbox, seen, panicked>>

\* startSkillAsync: a channel of one event and a goroutine.
StartSkill(i) ==
    /\ skillRunning' = TRUE /\ skillCh' = i
    /\ work' = [work EXCEPT ![i] = "skill"]
    /\ conn' = driver
    /\ last' = i
    /\ UNCHANGED <<diagRunning, diagCh, diagCancel, inbox, progress, onProgress, seen,
                   panicked>>

Other == 1 - driver

\* A command that the terminal runs itself.  /login and /conn put a new driver
\* in the old one's place, which is closed, and /logout closes it; when the
\* connection fails, and for /dbtop and /model, the old one stays.
RunSync(i) ==
    /\ driver' \in {driver, Other}
    /\ last' = i
    /\ UNCHANGED <<busyVars, runVars, conn, panicked>>

OpenPicker(c, queued) ==
    /\ main' = "picker" /\ picking' = c
    /\ fromQueue' = queued
    /\ blockingUI' = TRUE

NothingStarts == UNCHANGED <<busyVars, runVars, driver, history>>
-----------------------------------------------------------------------------
(* Keys.  A key pressed while blockingUI is set ends the block: the alerts *)
(* that came in meanwhile are drained and shown (flushAfterBlock).         *)

KeyDone == /\ blockingUI' = FALSE
           /\ IF blockingUI THEN alertCh' = 0 /\ pendingAlerts' = 0
                            ELSE UNCHANGED <<alertCh, pendingAlerts>>
           /\ UNCHANGED raised

Typed(c) == /\ main = "select" /\ typed < MaxTyped
            /\ c.id = typed + 1
            /\ typed' = typed + 1

\* Idle: /login, /llm and their kin open a picker, which takes the keys until
\* it is answered.
TypePicker(c) ==
    /\ Typed(c)
    /\ ~Busy /\ c.kind \in PickerWhenTyped
    /\ OpenPicker(c, FALSE)
    /\ NothingStarts
    /\ UNCHANGED <<cmdQueue, alertVars>>

(* Mutant: only a diagnosis makes what is typed wait. *)
TypeStartsBesideSkill(c) ==
    /\ Typed(c)
    /\ ~diagRunning
    /\ \/ c.kind = "question" /\ StartDiag(c.id)
       \/ c.kind = "skill" /\ StartSkill(c.id)
    /\ KeyDone
    /\ UNCHANGED <<main, picking, fromQueue, cmdQueue, driver>>

\* Idle: a question starts a diagnosis, any other command a skill.
TypeStarts(c) ==
    /\ Typed(c)
    /\ ~Busy
    /\ \/ c.kind = "question" /\ StartDiag(c.id)
       \/ c.kind = "skill" /\ StartSkill(c.id)
    /\ KeyDone
    /\ UNCHANGED <<main, picking, fromQueue, cmdQueue, driver>>

\* Idle: a sync command is through before the next key is read.
TypeSync(c) ==
    /\ Typed(c)
    /\ ~Busy /\ c.kind \in Sync \ PickerWhenTyped
    /\ RunSync(c.id)
    /\ KeyDone
    /\ UNCHANGED <<main, picking, fromQueue, cmdQueue>>

(* Mutant: a login does not wait for the command at work. *)
TypeQueuesAllButLogin(c) ==
    /\ Typed(c)
    /\ Busy /\ ~(c.kind \in Limited /\ Len(cmdQueue) >= DiagLimit)
    /\ IF c.kind = "loginarg"
       THEN RunSync(c.id) /\ UNCHANGED cmdQueue
       ELSE cmdQueue' = Append(cmdQueue, c) /\ NothingStarts
    /\ KeyDone
    /\ UNCHANGED <<main, picking, fromQueue>>

(* Mutant: what is typed last is run first. *)
TypeQueuesInFront(c) ==
    /\ Typed(c)
    /\ Busy /\ ~(c.kind \in Limited /\ Len(cmdQueue) >= DiagLimit)
    /\ cmdQueue' = <<c>> \o cmdQueue
    /\ KeyDone
    /\ NothingStarts
    /\ UNCHANGED <<main, picking, fromQueue>>

\* Busy: the command waits, or is refused when it is one /llm too many.
TypeQueues(c) ==
    /\ Typed(c)
    /\ Busy /\ ~(c.kind \in Limited /\ Len(cmdQueue) >= DiagLimit)
    /\ cmdQueue' = Append(cmdQueue, c)
    /\ KeyDone
    /\ NothingStarts
    /\ UNCHANGED <<main, picking, fromQueue>>

TypeRefused(c) ==
    /\ Typed(c)
    /\ Busy /\ c.kind \in Limited /\ Len(cmdQueue) >= DiagLimit
    /\ KeyDone
    /\ NothingStarts
    /\ UNCHANGED <<main, picking, fromQueue, cmdQueue>>

\* Any other key: it shows what a block held back.
Key ==
    /\ main = "select" /\ blockingUI
    /\ KeyDone
    /\ NothingStarts
    /\ UNCHANGED <<main, picking, fromQueue, cmdQueue, typed>>

\* Ctrl+C cancels the diagnosis at work; without one, or the second time, it
\* leaves.  So does /exit at any time.
CancelDiag ==
    /\ main = "select" /\ diagRunning /\ diagCancel
    /\ diagCancel' = FALSE
    /\ KeyDone
    /\ UNCHANGED <<main, picking, fromQueue, diagRunning, skillRunning, diagCh, skillCh,
                   cmdQueue, typed, runVars, driver, history>>

Exit ==
    /\ main = "select"
    /\ main' = "exited"
    /\ UNCHANGED <<picking, fromQueue, blockingUI, cmdQueue, typed, alertVars>>
    /\ NothingStarts

-----------------------------------------------------------------------------
(* The picker and the queue.                                               *)

\* The picker is answered: nothing, or a connection or an alert that the
\* command goes on with.  Opened by a key it ends the block; opened from the
\* queue it goes back there, unless it started something.
PickerDone(starts) ==
    /\ main = "picker"
    /\ picking' = NoCommand /\ fromQueue' = FALSE
    /\ IF fromQueue
       THEN /\ main' = IF starts THEN "select" ELSE "queue"
            /\ UNCHANGED <<blockingUI, alertVars>>
       ELSE main' = "select" /\ KeyDone
    /\ UNCHANGED <<cmdQueue, typed>>

PickerCancelled == PickerDone(FALSE) /\ NothingStarts

PickerLogin ==
    /\ picking.kind \in {"login", "loginarg"}
    /\ PickerDone(FALSE)
    /\ RunSync(picking.id)

\* An alert, or the present state, for /llm or /rule.
PickerStarts ==
    /\ PickerDone(TRUE)
    /\ \/ picking.kind \in {"llm", "llmarg"} /\ StartDiag(picking.id)
       \/ picking.kind \in {"rule", "rulearg"} /\ StartSkill(picking.id)
    /\ UNCHANGED driver

\* processCmdQueue takes the next command, until one goes off on its own.
QueueEmpty ==
    /\ main = "queue" /\ cmdQueue = <<>>
    /\ main' = "select"
    /\ NothingStarts
    /\ UNCHANGED <<picking, fromQueue, blockingUI, cmdQueue, typed, alertVars>>

Pop(c) == /\ main = "queue" /\ cmdQueue # <<>>
          /\ c = Head(cmdQueue)
          /\ cmdQueue' = Tail(cmdQueue)
          /\ UNCHANGED <<typed, alertVars>>

QueuePicker(c) ==
    /\ Pop(c)
    /\ c.kind \in PickerWhenQueued
    /\ OpenPicker(c, TRUE)
    /\ NothingStarts

QueueStarts(c) ==
    /\ Pop(c)
    /\ \/ c.kind \in {"question", "llmarg"} /\ StartDiag(c.id)
       \/ c.kind \in {"rulearg", "skill"} /\ StartSkill(c.id)
    /\ main' = "select"
    /\ UNCHANGED <<picking, fromQueue, blockingUI, driver>>

QueueSync(c) ==
    /\ Pop(c)
    /\ c.kind \in Sync
    /\ RunSync(c.id)
    /\ UNCHANGED uiVars

-----------------------------------------------------------------------------
(* A diagnosis in its goroutine.  emitProgress names the callback twice,   *)
(* to test it and to call it, and nothing keeps the goroutine of the run   *)
(* before from clearing it in between.  A build may read it once or twice: *)
(* the call then goes to what was tested, or to what is there by now; of   *)
(* nil it panics, which odberr.SafeGo recovers.                            *)

\* What a goroutine's step leaves alone.
Aside == UNCHANGED <<uiVars, busyVars, cmdQueue, typed, driver, alertVars, conn, last>>

At(i, place) == work[i] = place /\ main # "exited"
GoTo(i, place) == work' = [work EXCEPT ![i] = place]

Panics(i) == GoTo(i, "panicked") /\ panicked' = TRUE

\* The send of one event, which waits for room in the channel.
Send(i, event) ==
    /\ Len(inbox[i]) < ChanCap
    /\ inbox' = [inbox EXCEPT ![i] = Append(@, event)]

EmitTest(i) ==
    /\ At(i, "diag") /\ progress[i] > 0
    /\ progress' = [progress EXCEPT ![i] = @ - 1]
    /\ seen' = [seen EXCEPT ![i] = onProgress]
    /\ GoTo(i, IF onProgress = 0 THEN "diag" ELSE "calling")
    /\ UNCHANGED <<inbox, onProgress, panicked>> /\ Aside

\* The callbacks the call may find.
Callbacks(i) == {seen[i], onProgress} \ {0}

EmitCall(i) ==
    /\ At(i, "calling")
    /\ \E callback \in Callbacks(i) : Send(callback, "progress")
    /\ seen' = [seen EXCEPT ![i] = 0]
    /\ GoTo(i, "diag")
    /\ UNCHANGED <<progress, onProgress, panicked>> /\ Aside

\* The result: reported through the callback first, then returned.
EmitDoneTest(i) ==
    /\ At(i, "diag") /\ progress[i] = 0
    /\ seen' = [seen EXCEPT ![i] = onProgress]
    /\ GoTo(i, IF onProgress = 0 THEN "returned" ELSE "callingDone")
    /\ UNCHANGED <<inbox, progress, onProgress, panicked>> /\ Aside

\* A run with nothing to report on, or refused, returns without a word.
ReturnEarly(i) ==
    /\ At(i, "diag")
    /\ GoTo(i, "returned")
    /\ UNCHANGED <<inbox, progress, onProgress, seen, panicked>> /\ Aside

EmitDoneCall(i) ==
    /\ At(i, "callingDone")
    /\ \E callback \in Callbacks(i) : Send(callback, "done")
    /\ seen' = [seen EXCEPT ![i] = 0]
    /\ GoTo(i, "returned")
    /\ UNCHANGED <<progress, onProgress, panicked>> /\ Aside

\* The callback was cleared between the test and the call.
CallNil(i) ==
    /\ MayPanic
    /\ At(i, "calling") \/ At(i, "callingDone")
    /\ onProgress = 0
    /\ Panics(i)
    /\ UNCHANGED <<inbox, progress, onProgress, seen>> /\ Aside

ClearOnProgress(i) ==
    /\ At(i, "returned")
    /\ onProgress' = 0
    /\ GoTo(i, "sending")
    /\ UNCHANGED <<inbox, progress, seen, panicked>> /\ Aside

(* Mutant: the last event is dropped when the channel is full. *)
SendDoneOrDrop(i) ==
    /\ At(i, "sending")
    /\ Send(i, "done") \/ (Len(inbox[i]) = ChanCap /\ UNCHANGED inbox)
    /\ GoTo(i, "finished")
    /\ UNCHANGED <<progress, onProgress, seen, panicked>> /\ Aside

\* The last event of the run.
SendDone(i) ==
    /\ At(i, "sending")
    /\ Send(i, "done")
    /\ GoTo(i, "finished")
    /\ UNCHANGED <<progress, onProgress, seen, panicked>> /\ Aside

\* A skill's goroutine: Dispatch returns within its ten minutes, and the
\* channel has room for its one event.
SkillDone(i) ==
    /\ At(i, "skill")
    /\ inbox' = [inbox EXCEPT ![i] = <<"done">>]
    /\ GoTo(i, "finished")
    /\ UNCHANGED <<progress, onProgress, seen, panicked>> /\ Aside

\* login, logout and conn are skills that read as harmless (LevelReadOnly): a
\* diagnosis may call them as tools, beside its other reads, and /connect and
\* /disconnect run them in a goroutine.  The driver is closed under whoever
\* asks it at that moment.
Reconnects(i) ==
    /\ work[i] \in Working /\ main # "exited"
    /\ driver' = Other
    /\ conn' = driver'
    /\ UNCHANGED <<uiVars, busyVars, cmdQueue, typed, runVars, alertVars, last, panicked>>

\* Dispatch panics: nothing is sent.
DispatchPanics(i) ==
    /\ MayPanic
    /\ At(i, "diag") \/ At(i, "skill")
    /\ Panics(i)
    /\ UNCHANGED <<inbox, progress, onProgress, seen>> /\ Aside

-----------------------------------------------------------------------------
(* What the terminal takes from its channels.                              *)

TakeProgress ==
    /\ main = "select" /\ diagCh # 0
    /\ inbox[diagCh] # <<>> /\ Head(inbox[diagCh]) = "progress"
    /\ inbox' = [inbox EXCEPT ![diagCh] = Tail(@)]
    /\ UNCHANGED <<uiVars, busyVars, cmdQueue, typed, work, progress, onProgress, seen,
                   driver, alertVars, history>>

(* Mutant: the end of a diagnosis shows no alerts. *)
TakeDiagDoneHolds ==
    /\ main = "select" /\ diagCh # 0
    /\ inbox[diagCh] # <<>> /\ Head(inbox[diagCh]) = "done"
    /\ inbox' = [inbox EXCEPT ![diagCh] = Tail(@)]
    /\ diagRunning' = FALSE /\ diagCh' = 0 /\ diagCancel' = FALSE
    /\ main' = "queue"
    /\ UNCHANGED <<picking, fromQueue, blockingUI, skillRunning, skillCh, cmdQueue, typed,
                   work, progress, onProgress, seen, driver, alertVars, history>>

\* The end of a diagnosis: held alerts are shown, the queue goes on.
TakeDiagDone ==
    /\ main = "select" /\ diagCh # 0
    /\ inbox[diagCh] # <<>> /\ Head(inbox[diagCh]) = "done"
    /\ inbox' = [inbox EXCEPT ![diagCh] = Tail(@)]
    /\ diagRunning' = FALSE /\ diagCh' = 0 /\ diagCancel' = FALSE
    /\ pendingAlerts' = 0
    /\ main' = "queue"
    /\ UNCHANGED <<picking, fromQueue, blockingUI, skillRunning, skillCh, cmdQueue, typed,
                   work, progress, onProgress, seen, driver, alertCh, raised, history>>

(* Mutant: the queue is left alone when a command has ended. *)
TakeSkillDoneNoQueue ==
    /\ main = "select" /\ skillCh # 0
    /\ inbox[skillCh] # <<>>
    /\ inbox' = [inbox EXCEPT ![skillCh] = Tail(@)]
    /\ skillRunning' = FALSE /\ skillCh' = 0
    /\ pendingAlerts' = 0
    /\ UNCHANGED <<uiVars, diagRunning, diagCh, diagCancel, cmdQueue, typed,
                   work, progress, onProgress, seen, driver, alertCh, raised, history>>

\* The end of a skill, likewise.
TakeSkillDone ==
    /\ main = "select" /\ skillCh # 0
    /\ inbox[skillCh] # <<>>
    /\ inbox' = [inbox EXCEPT ![skillCh] = Tail(@)]
    /\ skillRunning' = FALSE /\ skillCh' = 0
    /\ pendingAlerts' = 0
    /\ main' = "queue"
    /\ UNCHANGED <<picking, fromQueue, blockingUI, diagRunning, diagCh, diagCancel, cmdQueue,
                   typed, work, progress, onProgress, seen, driver, alertCh, raised, history>>

\* Rendering the result panics, Guard recovers: alerts and queue stay.
TakeSkillRenderPanics ==
    /\ MayPanic
    /\ main = "select" /\ skillCh # 0
    /\ inbox[skillCh] # <<>>
    /\ inbox' = [inbox EXCEPT ![skillCh] = Tail(@)]
    /\ skillRunning' = FALSE /\ skillCh' = 0
    /\ panicked' = TRUE
    /\ UNCHANGED <<uiVars, diagRunning, diagCh, diagCancel, cmdQueue, typed, work, progress,
                   onProgress, seen, driver, alertVars, conn, last>>

\* The detector never waits: an alert over the capacity is dropped.
RaiseAlert ==
    /\ main # "exited" /\ raised < MaxAlerts
    /\ raised' = raised + 1
    /\ alertCh' = IF alertCh < AlertCap THEN alertCh + 1 ELSE alertCh
    /\ NothingStarts
    /\ UNCHANGED <<uiVars, cmdQueue, typed, pendingAlerts>>

\* An alert is drawn at once, or held while something runs or blocks.
TakeAlert ==
    /\ main = "select" /\ alertCh > 0
    /\ alertCh' = alertCh - 1
    /\ pendingAlerts' = IF Busy \/ blockingUI THEN pendingAlerts + 1 ELSE pendingAlerts
    /\ NothingStarts
    /\ UNCHANGED <<uiVars, cmdQueue, typed, raised>>

-----------------------------------------------------------------------------
Typable == {[id |-> typed + 1, kind |-> k] : k \in Kinds}

Waiting == {cmdQueue[i] : i \in 1 .. Len(cmdQueue)}

Run(i) ==
    \/ EmitTest(i) \/ EmitCall(i) \/ EmitDoneTest(i) \/ EmitDoneCall(i) \/ CallNil(i)
    \/ ReturnEarly(i) \/ ClearOnProgress(i) \/ SendDone(i) \/ SkillDone(i)

Take == TakeProgress \/ TakeDiagDone \/ TakeSkillDone

QueueStep ==
    \/ QueueEmpty
    \/ \E c \in Waiting : QueuePicker(c) \/ QueueStarts(c) \/ QueueSync(c)

Next ==
    \/ \E c \in Typable : \/ TypePicker(c) \/ TypeStarts(c) \/ TypeSync(c)
                         \/ TypeQueues(c) \/ TypeRefused(c)
    \/ Key \/ CancelDiag \/ Exit
    \/ PickerCancelled \/ PickerLogin \/ PickerStarts
    \/ QueueEmpty
    \/ \E c \in Waiting : QueuePicker(c) \/ QueueStarts(c) \/ QueueSync(c)
    \/ \E i \in Id : \/ EmitTest(i) \/ EmitCall(i) \/ EmitDoneTest(i) \/ EmitDoneCall(i)
                     \/ CallNil(i) \/ ClearOnProgress(i) \/ SendDone(i) \/ SkillDone(i)
                     \/ ReturnEarly(i) \/ DispatchPanics(i) \/ Reconnects(i)
    \/ TakeProgress \/ TakeDiagDone \/ TakeSkillDone \/ TakeSkillRenderPanics
    \/ RaiseAlert \/ TakeAlert

\* Goroutines run and the terminal goes on taking what its channels hold;
\* nothing is assumed of the user, who may leave a picker open for ever.
Fairness ==
    /\ \A i \in Id : WF_vars(Run(i))
    /\ WF_vars(Take) /\ WF_vars(QueueStep) /\ WF_vars(TakeAlert)

Spec == Init /\ [][Next]_vars /\ Fairness

-----------------------------------------------------------------------------
TypeOK ==
    /\ main \in {"select", "queue", "picker", "exited"}
    /\ picking \in Command \union {NoCommand}
    /\ fromQueue \in BOOLEAN /\ blockingUI \in BOOLEAN
    /\ diagRunning \in BOOLEAN /\ skillRunning \in BOOLEAN /\ diagCancel \in BOOLEAN
    /\ diagCh \in Id \union {0} /\ skillCh \in Id \union {0}
    /\ cmdQueue \in Seq(Command)
    /\ typed \in 0 .. MaxTyped
    /\ work \in [Id -> Places]
    /\ inbox \in [Id -> Seq({"progress", "done"})]
    /\ progress \in [Id -> 0 .. MaxProgress]
    /\ onProgress \in Id \union {0} /\ seen \in [Id -> Id \union {0}]
    /\ driver \in {0, 1}
    /\ alertCh \in 0 .. AlertCap /\ pendingAlerts \in Nat /\ raised \in 0 .. MaxAlerts
    /\ conn \in {0, 1} /\ last \in Id \union {0} /\ panicked \in BOOLEAN

\* A diagnosis or command that may still ask the database something is the
\* one the terminal waits for: nothing else is at work, and no second one
\* starts beside it (the queue of typed commands is there for that), even
\* though a diagnosis reports its result before its goroutine is through.
OneAtATime ==
    \A i \in Id : work[i] \in Working =>
        /\ Busy
        /\ i = diagCh \/ i = skillCh
        /\ \A j \in Id \ {i} : work[j] \notin Working

\* Nobody else changes the connection under a command: what is typed as /login,
\* /conn or /logout waits until the commands typed before it are through, and
\* a command that connects on its own is the only one there (LazyDriver asks
\* the manager for the current driver at every query, and a login closes the
\* old one).  That a diagnosis closes it under its own reads is not excluded.
SameConnection == \A i \in Id : work[i] \in Working => conn = driver

\* Commands start in the order they were typed in, those that waited and
\* those that did not, as long as nothing panicked.
TypedOrder == [][last' # last => (last' > last \/ panicked)]_vars

\* What waits in the queue is run, unless the user leaves or leaves a picker
\* open, or something panicked.
QueueDrains == cmdQueue # <<>> ~> (cmdQueue = <<>> \/ main \in {"picker", "exited"} \/ panicked)

\* A held alert is shown when the work is over, unless a picker was opened
\* (which only a key ends), the user left, or something panicked.
HeldIsShown ==
    pendingAlerts > 0 ~> (pendingAlerts = 0 \/ blockingUI \/ main = "exited" \/ panicked)

\* The terminal does not stay busy with a diagnosis that is over: its last
\* event arrives, however many progress reports fill the channel before it
\* and whoever cleared the callback (repl_async.go: "Done/Error MUST be
\* delivered", or diagRunning "stays true forever").
BusyEnds == diagRunning ~> (~diagRunning \/ main = "exited" \/ panicked)

-----------------------------------------------------------------------------
(* Refinement.                                                             *)

\* The command a picker is open for has not begun: it is the first to wait.
Pending == IF main = "picker" THEN <<picking>> \o cmdQueue ELSE cmdQueue

Promise == INSTANCE Terminal
           WITH Commands <- Command,
                Brief <- [id : Id, kind : PickerWhenTyped \union Sync],
                Limited <- [id : Id, kind : Limited],
                Limit <- DiagLimit,
                queue <- Pending,
                atWork <- {i \in Id : work[i] \in Working}

\* Goroutines, pickers, logins and a queue that resumes from three places
\* together work like a single server: what is typed waits its turn, is begun
\* once and alone, and is not forgotten, until something panics
\* (repl_async.go:130, processCmdQueue; repl_input.go:226).
ServesInTurn == Promise!Spec
=============================================================================
