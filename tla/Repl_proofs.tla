---------------------------- MODULE Repl_proofs ----------------------------
(***************************************************************************)
(* What the terminal keeps for every number of commands, alerts and        *)
(* progress reports: one command at a time, on one connection, in the      *)
(* order they were typed in.                                               *)
(***************************************************************************)
EXTENDS Repl, SequenceTheorems, TLAPS

Diagnosing == {"diag", "calling", "callingDone"}

\* The parts of the inductive invariant.

\* The flags and the channels say the same, and at most one of them is set;
\* the queue and the pickers are for an idle terminal.
Flags ==
    /\ diagRunning <=> diagCh # 0
    /\ skillRunning <=> skillCh # 0
    /\ ~(diagRunning /\ skillRunning)
    /\ main \in {"queue", "picker"} => ~Busy

\* A run that is at work is the one whose channel the terminal reads.
AtWork == \A i \in Id : /\ work[i] \in Diagnosing => diagCh = i
                        /\ work[i] = "skill" => skillCh = i

\* A result in a channel means that its run is through.
Results ==
    \A i \in Id : /\ \A k \in 1 .. Len(inbox[i]) : inbox[i][k] = "done" => work[i] \notin Working
                  /\ work[i] = "skill" => inbox[i] = <<>>

\* The callback a diagnosis finds is its own, or none.
OwnCallback ==
    \A i \in Id : work[i] \in Diagnosing => onProgress \in {0, i} /\ seen[i] \in {0, i}

\* A command that did not start has no trace yet.
Fresh ==
    \A i \in Id : /\ work[i] = "none" => inbox[i] = <<>> /\ seen[i] = 0
                  /\ i > typed => work[i] = "none"

\* What waits, in the queue or in a picker, was typed and did not start.
Waits ==
    /\ \A k \in 1 .. Len(cmdQueue) : /\ work[cmdQueue[k].id] = "none"
                                     /\ cmdQueue[k].id <= typed
    /\ \A j, k \in 1 .. Len(cmdQueue) : j < k => cmdQueue[j].id < cmdQueue[k].id
    /\ main = "picker" =>
          /\ picking \in Command
          /\ work[picking.id] = "none"
          /\ picking.id <= typed
          /\ \A k \in 1 .. Len(cmdQueue) : cmdQueue[k].id # picking.id

\* Whatever waits was typed after what started last, and waits for it.
InOrder ==
    /\ last <= typed
    /\ \A k \in 1 .. Len(cmdQueue) : last < cmdQueue[k].id
    /\ main = "picker" => /\ last < picking.id
                          /\ \A k \in 1 .. Len(cmdQueue) : picking.id < cmdQueue[k].id
                          /\ ~fromQueue => cmdQueue = <<>>
    /\ main = "select" /\ ~Busy => cmdQueue = <<>>

IInv == /\ TypeOK /\ Flags /\ AtWork /\ Results /\ OwnCallback /\ Fresh /\ Waits
        /\ SameConnection
        /\ panicked \/ InOrder

-----------------------------------------------------------------------------
(* Lemmas.                                                                 *)

\* A command's number is not 0.
LEMMA IdPositive == \A i \in Id : i \in Nat /\ i # 0 /\ i <= MaxTyped
  BY BoundAssumption DEF Id

\* An idle terminal means that nothing is at work.
LEMMA IdleMeansNoWork ==
    ASSUME TypeOK, Flags, AtWork, ~Busy
    PROVE  \A i \in Id : work[i] \notin Working
  BY IdPositive DEF Flags, AtWork, Busy, Working, Diagnosing

\* What a command that starts leaves of the runs' invariants.
RunsInv == AtWork /\ Results /\ OwnCallback /\ Fresh /\ SameConnection

\* A diagnosis that starts in an idle terminal.
LEMMA StartDiagRuns ==
    ASSUME TypeOK, Flags, RunsInv, ~Busy,
           NEW i \in Id, work[i] = "none", i <= typed', typed' \in Nat, typed <= typed',
           StartDiag(i), driver' = driver
    PROVE  RunsInv'
<1>1. \A j \in Id : work[j] \notin Working  BY IdleMeansNoWork DEF RunsInv
<1>2. \A j \in Id : work'[j] = IF j = i THEN "diag" ELSE work[j]
  BY DEF StartDiag, TypeOK
<1>3. inbox[i] = <<>> /\ seen[i] = 0  BY DEF RunsInv, Fresh
<1>4. AtWork'  BY <1>1, <1>2 DEF AtWork, StartDiag, Diagnosing, Working
<1>5. Results'
  BY <1>1, <1>2, <1>3 DEF RunsInv, Results, StartDiag, Working
<1>6. OwnCallback'
  BY <1>1, <1>2, <1>3 DEF OwnCallback, StartDiag, Diagnosing, Working
<1>7. Fresh'
  <2>1. typed \in Nat /\ i \in Nat  BY BoundAssumption, IdPositive DEF TypeOK
  <2>2. inbox' = inbox /\ seen' = seen  BY DEF StartDiag
  <2>3. ASSUME NEW j \in Id, work'[j] = "none"  PROVE inbox'[j] = <<>> /\ seen'[j] = 0
    <3>1. j # i /\ work[j] = "none"  BY <1>2, <2>3
    <3> QED  BY <3>1, <2>2 DEF RunsInv, Fresh
  <2>4. ASSUME NEW j \in Id, j > typed'  PROVE work'[j] = "none"
    <3>1. j # i /\ j > typed  BY <2>1, <2>4, IdPositive
    <3> QED  BY <3>1, <1>2 DEF RunsInv, Fresh
  <2> QED  BY <2>3, <2>4 DEF Fresh
<1>8. SameConnection'
  BY <1>1, <1>2 DEF SameConnection, StartDiag, TypeOK
<1> QED  BY <1>4, <1>5, <1>6, <1>7, <1>8 DEF RunsInv

\* A skill that starts in an idle terminal.
LEMMA StartSkillRuns ==
    ASSUME TypeOK, Flags, RunsInv, ~Busy,
           NEW i \in Id, work[i] = "none", i <= typed', typed' \in Nat, typed <= typed',
           StartSkill(i), driver' = driver
    PROVE  RunsInv'
<1>1. \A j \in Id : work[j] \notin Working  BY IdleMeansNoWork DEF RunsInv
<1>2. \A j \in Id : work'[j] = IF j = i THEN "skill" ELSE work[j]
  BY DEF StartSkill, TypeOK
<1>3. inbox[i] = <<>> /\ seen[i] = 0  BY DEF RunsInv, Fresh
<1>4. AtWork'  BY <1>1, <1>2 DEF AtWork, StartSkill, Diagnosing, Working
<1>5. Results'
  BY <1>1, <1>2, <1>3 DEF RunsInv, Results, StartSkill, Working
<1>6. OwnCallback'
  BY <1>1, <1>2, <1>3 DEF OwnCallback, StartSkill, Diagnosing, Working
<1>7. Fresh'
  <2>1. typed \in Nat /\ i \in Nat  BY BoundAssumption, IdPositive DEF TypeOK
  <2>2. inbox' = inbox /\ seen' = seen  BY DEF StartSkill
  <2>3. ASSUME NEW j \in Id, work'[j] = "none"  PROVE inbox'[j] = <<>> /\ seen'[j] = 0
    <3>1. j # i /\ work[j] = "none"  BY <1>2, <2>3
    <3> QED  BY <3>1, <2>2 DEF RunsInv, Fresh
  <2>4. ASSUME NEW j \in Id, j > typed'  PROVE work'[j] = "none"
    <3>1. j # i /\ j > typed  BY <2>1, <2>4, IdPositive
    <3> QED  BY <3>1, <1>2 DEF RunsInv, Fresh
  <2> QED  BY <2>3, <2>4 DEF Fresh
<1>8. SameConnection'
  BY <1>1, <1>2 DEF SameConnection, StartSkill, TypeOK
<1> QED  BY <1>4, <1>5, <1>6, <1>7, <1>8 DEF RunsInv

\* A login in an idle terminal.
LEMMA SyncRuns ==
    ASSUME TypeOK, Flags, RunsInv, ~Busy, NEW i, RunSync(i), UNCHANGED typed
    PROVE  RunsInv'
<1>1. \A j \in Id : work[j] \notin Working  BY IdleMeansNoWork DEF RunsInv
<1>2. UNCHANGED <<work, inbox, onProgress, seen, diagCh, skillCh>>
  BY DEF RunSync, runVars, busyVars
<1> QED
  BY <1>1, <1>2 DEF RunsInv, AtWork, Results, OwnCallback, Fresh, SameConnection

\* Steps that start nothing.
LEMMA NothingStartsRuns ==
    ASSUME TypeOK, RunsInv, NothingStarts, typed' \in Nat, typed <= typed'
    PROVE  RunsInv'
<1>1. UNCHANGED <<work, inbox, onProgress, seen, diagCh, skillCh, driver, conn>>
  BY DEF NothingStarts, runVars, busyVars, history
<1>2. AtWork'  BY <1>1 DEF RunsInv, AtWork
<1>3. Results'  BY <1>1 DEF RunsInv, Results
<1>4. OwnCallback'  BY <1>1 DEF RunsInv, OwnCallback
<1>5. Fresh'
  <2>1. typed \in Nat  BY BoundAssumption DEF TypeOK
  <2>2. \A j \in Id : j > typed' => j > typed  BY <2>1, IdPositive
  <2> QED  BY <1>1, <2>2 DEF RunsInv, Fresh
<1>6. SameConnection'  BY <1>1 DEF RunsInv, SameConnection
<1> QED  BY <1>2, <1>3, <1>4, <1>5, <1>6 DEF RunsInv

\* Starting keeps the types of what it changes.
RunTypes == /\ diagRunning' \in BOOLEAN /\ skillRunning' \in BOOLEAN /\ diagCancel' \in BOOLEAN
            /\ diagCh' \in Id \union {0} /\ skillCh' \in Id \union {0}
            /\ work' \in [Id -> Places]
            /\ inbox' \in [Id -> Seq({"progress", "done"})]
            /\ progress' \in [Id -> 0 .. MaxProgress]
            /\ onProgress' \in Id \union {0} /\ seen' \in [Id -> Id \union {0}]
            /\ driver' \in {0, 1}
            /\ conn' \in {0, 1} /\ last' \in Id \union {0} /\ panicked' \in BOOLEAN

LEMMA StartDiagTypes ==
    ASSUME TypeOK, NEW i \in Id, StartDiag(i), driver' = driver
    PROVE  RunTypes
  BY DEF TypeOK, StartDiag, RunTypes, Places, DiagPlaces

LEMMA StartSkillTypes ==
    ASSUME TypeOK, NEW i \in Id, StartSkill(i), driver' = driver
    PROVE  RunTypes
  BY DEF TypeOK, StartSkill, RunTypes, Places, DiagPlaces

LEMMA SyncTypes ==
    ASSUME TypeOK, NEW i \in Id, RunSync(i)
    PROVE  RunTypes
<1>1. driver' \in {0, 1}  BY DEF TypeOK, RunSync, Other
<1>2. last' \in Id \union {0}  BY DEF RunSync
<1>3. UNCHANGED <<diagRunning, skillRunning, diagCancel, diagCh, skillCh, work, inbox, progress,
                  onProgress, seen, conn, panicked>>
  BY DEF RunSync, busyVars, runVars
<1> QED  BY <1>1, <1>2, <1>3 DEF TypeOK, RunTypes

LEMMA NothingTypes ==
    ASSUME TypeOK, NothingStarts
    PROVE  RunTypes
  BY DEF TypeOK, NothingStarts, RunTypes, busyVars, runVars, history

LEMMA KeyTypes ==
    ASSUME TypeOK, KeyDone
    PROVE  /\ blockingUI' \in BOOLEAN /\ alertCh' \in 0 .. AlertCap
           /\ pendingAlerts' \in Nat /\ raised' \in 0 .. MaxAlerts
<1>1. blockingUI' = FALSE /\ raised' = raised  BY DEF KeyDone
<1>2. 0 \in 0 .. AlertCap /\ 0 \in Nat  BY LimitAssumption
<1>3. /\ alertCh' = alertCh \/ alertCh' = 0
      /\ pendingAlerts' = pendingAlerts \/ pendingAlerts' = 0
  BY DEF KeyDone
<1>4. alertCh' \in 0 .. AlertCap /\ pendingAlerts' \in Nat  BY <1>2, <1>3 DEF TypeOK
<1> QED  BY <1>1, <1>4 DEF TypeOK

\* The types of the rest.
UiTypes == /\ main' \in {"select", "queue", "picker", "exited"}
           /\ picking' \in Command \union {NoCommand}
           /\ fromQueue' \in BOOLEAN /\ blockingUI' \in BOOLEAN
           /\ cmdQueue' \in Seq(Command)
           /\ typed' \in 0 .. MaxTyped
           /\ alertCh' \in 0 .. AlertCap /\ pendingAlerts' \in Nat /\ raised' \in 0 .. MaxAlerts

LEMMA Together == ASSUME RunTypes, UiTypes  PROVE TypeOK'
  BY DEF RunTypes, UiTypes, TypeOK

-----------------------------------------------------------------------------
(* The queue.                                                              *)

\* A command that was just typed has the next number.
LEMMA TypedFacts ==
    ASSUME TypeOK, NEW c \in Typable, Typed(c)
    PROVE  /\ c \in Command /\ c.id \in Id /\ c.id = typed + 1
           /\ typed' = typed + 1 /\ typed' \in 0 .. MaxTyped
           /\ typed \in Nat /\ typed' \in Nat /\ typed <= typed' /\ typed < c.id
           /\ main = "select"
<1>1. typed \in Nat /\ typed < MaxTyped /\ MaxTyped \in Nat
  BY BoundAssumption DEF TypeOK, Typed
<1>2. PICK k \in Kinds : c = [id |-> typed + 1, kind |-> k]  BY DEF Typable
<1>3. typed + 1 \in Id  BY <1>1 DEF Id
<1> QED  BY <1>1, <1>2, <1>3 DEF Typed, Command, TypeOK

\* What waits is a command with a number.
LEMMA Entries ==
    ASSUME TypeOK
    PROVE  /\ Len(cmdQueue) \in Nat
           /\ \A k \in 1 .. Len(cmdQueue) : /\ cmdQueue[k] \in Command
                                            /\ cmdQueue[k].id \in Id
                                            /\ cmdQueue[k].id \in Nat
<1>1. cmdQueue \in Seq(Command)  BY DEF TypeOK
<1>2. \A k \in 1 .. Len(cmdQueue) : cmdQueue[k] \in Command  BY <1>1
<1>3. \A c \in Command : c.id \in Id  BY DEF Command
<1> QED  BY <1>1, <1>2, <1>3, IdPositive

\* The first command leaves the queue: the others were typed after it.
LEMMA PopFacts ==
    ASSUME TypeOK, Waits, NEW c, Pop(c)
    PROVE  /\ c \in Command /\ c.id \in Id /\ c.id \in Nat
           /\ 1 \in 1 .. Len(cmdQueue) /\ c = cmdQueue[1]
           /\ work[c.id] = "none" /\ c.id <= typed
           /\ cmdQueue' \in Seq(Command)
           /\ Len(cmdQueue') = Len(cmdQueue) - 1
           /\ \A k \in 1 .. Len(cmdQueue') : /\ k + 1 \in 1 .. Len(cmdQueue)
                                             /\ cmdQueue'[k] = cmdQueue[k + 1]
                                             /\ c.id < cmdQueue'[k].id
<1>1. cmdQueue \in Seq(Command) /\ cmdQueue # <<>> /\ c = Head(cmdQueue)
      /\ cmdQueue' = Tail(cmdQueue)
  BY DEF TypeOK, Pop
<1>2. 1 \in 1 .. Len(cmdQueue) /\ c = cmdQueue[1]  BY <1>1
<1>3. /\ cmdQueue' \in Seq(Command) /\ Len(cmdQueue') = Len(cmdQueue) - 1
      /\ \A k \in 1 .. Len(cmdQueue') : /\ k + 1 \in 1 .. Len(cmdQueue)
                                        /\ cmdQueue'[k] = cmdQueue[k + 1]
  BY <1>1
<1>4. c \in Command /\ c.id \in Id /\ c.id \in Nat  BY <1>2, Entries
<1>5. work[c.id] = "none" /\ c.id <= typed  BY <1>2 DEF Waits
<1>6. ASSUME NEW k \in 1 .. Len(cmdQueue')  PROVE c.id < cmdQueue'[k].id
  <2>1. 1 < k + 1 /\ k + 1 \in 1 .. Len(cmdQueue) /\ cmdQueue'[k] = cmdQueue[k + 1]
    BY <1>1, <1>3
  <2> QED  BY <1>2, <2>1 DEF Waits
<1> QED  BY <1>2, <1>3, <1>4, <1>5, <1>6

\* The rest of the queue stays in order.
LEMMA PopWaits ==
    ASSUME TypeOK, Waits, NEW c, Pop(c),
           \A i \in Id : i # c.id /\ work[i] = "none" => work'[i] = "none",
           main' = "picker" => picking' = c /\ work'[c.id] = "none"
    PROVE  Waits'
<1>1. typed' = typed  BY DEF Pop
<1>2. ASSUME NEW k \in 1 .. Len(cmdQueue')
      PROVE  work'[cmdQueue'[k].id] = "none" /\ cmdQueue'[k].id <= typed'
             /\ cmdQueue'[k].id # c.id
  <2>1. /\ k + 1 \in 1 .. Len(cmdQueue) /\ cmdQueue'[k] = cmdQueue[k + 1]
        /\ c.id < cmdQueue'[k].id /\ c.id \in Nat
    BY PopFacts
  <2>2. cmdQueue'[k].id \in Id /\ cmdQueue'[k].id \in Nat  BY <2>1, Entries
  <2>3. cmdQueue'[k].id # c.id  BY <2>1, <2>2
  <2>4. work[cmdQueue'[k].id] = "none" /\ cmdQueue'[k].id <= typed  BY <2>1 DEF Waits
  <2> QED  BY <1>1, <2>2, <2>3, <2>4
<1>3. ASSUME NEW j \in 1 .. Len(cmdQueue'), NEW k \in 1 .. Len(cmdQueue'), j < k
      PROVE  cmdQueue'[j].id < cmdQueue'[k].id
  <2>1. /\ j + 1 \in 1 .. Len(cmdQueue) /\ cmdQueue'[j] = cmdQueue[j + 1]
        /\ k + 1 \in 1 .. Len(cmdQueue) /\ cmdQueue'[k] = cmdQueue[k + 1]
    BY PopFacts
  <2>2. j + 1 < k + 1  BY <1>3, PopFacts
  <2> QED  BY <2>1, <2>2 DEF Waits
<1>4. main' = "picker" => picking' \in Command /\ picking'.id <= typed'
  BY <1>1, PopFacts
<1> QED  BY <1>2, <1>3, <1>4 DEF Waits

\* A step that leaves the queue alone and starts at most a command that does
\* not wait.
LEMMA KeptWaits ==
    ASSUME TypeOK, Waits, NEW i,
           cmdQueue' = cmdQueue, typed' \in Nat, typed <= typed',
           \A k \in 1 .. Len(cmdQueue) : cmdQueue[k].id # i,
           \A j \in Id : j # i /\ work[j] = "none" => work'[j] = "none",
           main' = "picker" => main = "picker" /\ picking' = picking /\ picking.id # i
    PROVE  Waits'
<1>1. typed \in Nat  BY BoundAssumption DEF TypeOK
<1>2. ASSUME NEW k \in 1 .. Len(cmdQueue')
      PROVE  work'[cmdQueue'[k].id] = "none" /\ cmdQueue'[k].id <= typed'
  <2>1. k \in 1 .. Len(cmdQueue) /\ cmdQueue[k].id \in Id /\ cmdQueue[k].id \in Nat
    BY Entries
  <2>2. work[cmdQueue[k].id] = "none" /\ cmdQueue[k].id <= typed  BY <2>1 DEF Waits
  <2>3. cmdQueue[k].id <= typed'  BY <1>1, <2>1, <2>2
  <2> QED  BY <2>1, <2>2, <2>3
<1>3. \A j, k \in 1 .. Len(cmdQueue') : j < k => cmdQueue'[j].id < cmdQueue'[k].id
  BY DEF Waits
<1>4. ASSUME main' = "picker"
      PROVE  /\ picking' \in Command
             /\ work'[picking'.id] = "none"
             /\ picking'.id <= typed'
             /\ \A k \in 1 .. Len(cmdQueue') : cmdQueue'[k].id # picking'.id
  <2>1. picking' = picking /\ picking \in Command /\ picking.id \in Id /\ picking.id \in Nat
    BY <1>4, IdPositive DEF Waits, Command
  <2>2. work[picking.id] = "none" /\ picking.id <= typed  BY <1>4 DEF Waits
  <2>3. picking.id <= typed'  BY <1>1, <2>1, <2>2
  <2>4. \A k \in 1 .. Len(cmdQueue') : cmdQueue'[k].id # picking'.id
    BY <1>4, <2>1 DEF Waits
  <2> QED  BY <1>4, <2>1, <2>2, <2>3, <2>4
<1> QED  BY <1>2, <1>3, <1>4 DEF Waits

-----------------------------------------------------------------------------
(* Steps of a goroutine.                                                   *)

\* Every step of a goroutine but its inbox, callback and reports.
LEMMA StepKeeps ==
    ASSUME IInv, NEW i \in Id, NEW p \in Places, Aside, GoTo(i, p),
           work[i] # "none", p \notin {"none", "skill"},
           p \in Diagnosing => work[i] \in Diagnosing,
           panicked' \in BOOLEAN, panicked => panicked'
    PROVE  /\ Flags' /\ AtWork' /\ SameConnection' /\ Waits' /\ (panicked' \/ InOrder')
           /\ UiTypes
           /\ work' \in [Id -> Places]
           /\ \A j \in Id : work'[j] = IF j = i THEN p ELSE work[j]
<1>1. /\ work' \in [Id -> Places]
      /\ \A j \in Id : work'[j] = IF j = i THEN p ELSE work[j]
  BY DEF IInv, TypeOK, GoTo
<1>2. UNCHANGED <<main, picking, fromQueue, blockingUI, diagRunning, skillRunning, diagCh, skillCh,
                  diagCancel, cmdQueue, typed, driver, alertCh, pendingAlerts, raised, conn, last>>
  BY DEF Aside, uiVars, busyVars, alertVars
<1>3. Flags'  BY <1>2 DEF IInv, Flags, Busy
<1>4. AtWork'  BY <1>1, <1>2 DEF IInv, AtWork
<1>5. SameConnection'
  BY <1>1, <1>2 DEF IInv, SameConnection, Working, Diagnosing
<1>6. Waits'
  <2>1. TypeOK /\ Waits /\ typed \in Nat
    <3>1. TypeOK /\ Waits  BY DEF IInv
    <3>2. typed \in 0 .. MaxTyped  BY <3>1 DEF TypeOK
    <3> QED  BY <3>1, <3>2
  <2>2. typed' \in Nat /\ typed <= typed'  BY <1>2, <2>1
  <2>3. \A k \in 1 .. Len(cmdQueue) : cmdQueue[k].id # 0  BY <2>1, Entries, IdPositive
  <2>4. \A j \in Id : work[j] = "none" => work'[j] = "none"  BY <1>1
  <2>5. main = "picker" => picking.id # 0
    BY <2>1, IdPositive DEF Waits, Command
  <2> QED  BY <1>2, <2>1, <2>2, <2>3, <2>4, <2>5, KeptWaits
<1>7. panicked' \/ InOrder'  BY <1>2 DEF IInv, InOrder, Busy
<1>8. UiTypes  BY <1>2 DEF IInv, TypeOK, UiTypes
<1> QED  BY <1>1, <1>3, <1>4, <1>5, <1>6, <1>7, <1>8

\* One event more in one channel.
LEMMA SendFacts ==
    ASSUME TypeOK, NEW i \in Id, NEW e \in {"progress", "done"}, Send(i, e)
    PROVE  /\ inbox' \in [Id -> Seq({"progress", "done"})]
           /\ \A j \in Id : j # i => inbox'[j] = inbox[j]
           /\ \A k \in 1 .. Len(inbox'[i]) : inbox'[i][k] = "done" =>
                  e = "done" \/ (k \in 1 .. Len(inbox[i]) /\ inbox[i][k] = "done")
<1>1. inbox[i] \in Seq({"progress", "done"})  BY DEF TypeOK
<1>2. Append(inbox[i], e) \in Seq({"progress", "done"})  BY <1>1
<1>3. inbox' = [inbox EXCEPT ![i] = Append(inbox[i], e)]  BY DEF Send
<1>4. inbox' \in [Id -> Seq({"progress", "done"})]  BY <1>2, <1>3 DEF TypeOK
<1>5. inbox'[i] = Append(inbox[i], e) /\ \A j \in Id : j # i => inbox'[j] = inbox[j]
  BY <1>3 DEF TypeOK
<1>6. ASSUME NEW k \in 1 .. Len(inbox'[i]), inbox'[i][k] = "done"
      PROVE  e = "done" \/ (k \in 1 .. Len(inbox[i]) /\ inbox[i][k] = "done")
  <2>1. Len(inbox'[i]) = Len(inbox[i]) + 1 /\ Len(inbox[i]) \in Nat  BY <1>1, <1>5
  <2>2. CASE k = Len(inbox[i]) + 1
    <3>1. inbox'[i][k] = e  BY <1>1, <1>5, <2>2
    <3> QED  BY <1>6, <3>1
  <2>3. CASE k # Len(inbox[i]) + 1
    <3>1. k \in 1 .. Len(inbox[i])  BY <2>1, <2>3
    <3>2. inbox'[i][k] = inbox[i][k]  BY <1>1, <1>5, <3>1
    <3> QED  BY <1>6, <3>1, <3>2
  <2> QED  BY <2>2, <2>3
<1> QED  BY <1>4, <1>5, <1>6

\* What the rest of a sequence holds.
LEMMA TailFacts ==
    ASSUME NEW S, NEW q \in Seq(S), q # <<>>
    PROVE  /\ Len(Tail(q)) = Len(q) - 1
           /\ Tail(q) \in Seq(S)
           /\ 1 \in 1 .. Len(q) /\ Head(q) = q[1]
           /\ \A k \in 1 .. Len(Tail(q)) : /\ k + 1 \in 1 .. Len(q)
                                            /\ Tail(q)[k] = q[k + 1]
  OBVIOUS

\* One event less.
LEMMA ReceiveFacts ==
    ASSUME TypeOK, NEW i \in Id, inbox[i] # <<>>,
           inbox' = [inbox EXCEPT ![i] = Tail(@)]
    PROVE  /\ inbox' \in [Id -> Seq({"progress", "done"})]
           /\ \A j \in Id : j # i => inbox'[j] = inbox[j]
           /\ \A k \in 1 .. Len(inbox'[i]) : /\ k + 1 \in 1 .. Len(inbox[i])
                                             /\ inbox'[i][k] = inbox[i][k + 1]
           /\ 1 \in 1 .. Len(inbox[i]) /\ Head(inbox[i]) = inbox[i][1]
<1>1. inbox[i] \in Seq({"progress", "done"})  BY DEF TypeOK
<1>2. Tail(inbox[i]) \in Seq({"progress", "done"})  BY <1>1, TailFacts
<1>3. inbox' \in [Id -> Seq({"progress", "done"})]  BY <1>2 DEF TypeOK
<1>4. inbox'[i] = Tail(inbox[i]) /\ \A j \in Id : j # i => inbox'[j] = inbox[j]
  BY DEF TypeOK
<1>5. /\ 1 \in 1 .. Len(inbox[i]) /\ Head(inbox[i]) = inbox[i][1]
      /\ \A k \in 1 .. Len(Tail(inbox[i])) : /\ k + 1 \in 1 .. Len(inbox[i])
                                              /\ Tail(inbox[i])[k] = inbox[i][k + 1]
  BY <1>1, TailFacts
<1> QED  BY <1>3, <1>4, <1>5

\* The types a goroutine's step has still to keep.
OwnTypes == /\ inbox' \in [Id -> Seq({"progress", "done"})]
            /\ progress' \in [Id -> 0 .. MaxProgress]
            /\ onProgress' \in Id \union {0} /\ seen' \in [Id -> Id \union {0}]

\* The invariant after such a step.
LEMMA StepInv ==
    ASSUME IInv, NEW i \in Id, NEW p \in Places, Aside, GoTo(i, p),
           work[i] # "none", p \notin {"none", "skill"},
           p \in Diagnosing => work[i] \in Diagnosing,
           panicked' \in BOOLEAN, panicked => panicked',
           OwnTypes, Results', OwnCallback',
           \A j \in Id : j # i => inbox'[j] = inbox[j] /\ seen'[j] = seen[j]
    PROVE  IInv'
<1>1. /\ Flags' /\ AtWork' /\ SameConnection' /\ Waits' /\ (panicked' \/ InOrder')
      /\ UiTypes /\ work' \in [Id -> Places]
      /\ \A j \in Id : work'[j] = IF j = i THEN p ELSE work[j]
  BY StepKeeps
<1>2. UNCHANGED <<diagRunning, skillRunning, diagCh, skillCh, diagCancel, driver, conn, last, typed>>
  BY DEF Aside, busyVars
<1>3. RunTypes  BY <1>1, <1>2 DEF OwnTypes, RunTypes, IInv, TypeOK
<1>4. TypeOK'  BY <1>1, <1>3, Together
<1>5. Fresh'
  <2>1. ASSUME NEW j \in Id, work'[j] = "none"  PROVE inbox'[j] = <<>> /\ seen'[j] = 0
    <3>1. j # i /\ work[j] = "none"  BY <1>1, <2>1
    <3> QED  BY <3>1 DEF IInv, Fresh
  <2>2. ASSUME NEW j \in Id, j > typed'  PROVE work'[j] = "none"
    <3>1. j > typed  BY <1>2, <2>2
    <3>2. work[j] = "none"  BY <3>1 DEF IInv, Fresh
    <3> QED  BY <1>1, <3>2
  <2> QED  BY <2>1, <2>2 DEF Fresh
<1> QED  BY <1>1, <1>4, <1>5 DEF IInv
\* emitProgress finds a callback, or none.
LEMMA EmitTestInv == ASSUME IInv, NEW i \in Id, EmitTest(i)  PROVE IInv'
<1> DEFINE p == IF onProgress = 0 THEN "diag" ELSE "calling"
<1>1. work[i] = "diag" /\ Aside /\ GoTo(i, p) /\ UNCHANGED <<inbox, onProgress, panicked>>
  BY DEF EmitTest, At
<1>2. p \in Places /\ p \in Diagnosing  BY DEF Places, DiagPlaces, Diagnosing
<1>3. /\ seen' = [seen EXCEPT ![i] = onProgress]
      /\ progress' = [progress EXCEPT ![i] = @ - 1] /\ progress[i] > 0
  BY DEF EmitTest
<1>4. progress' \in [Id -> 0 .. MaxProgress]
  <2>1. progress[i] \in 0 .. MaxProgress /\ progress \in [Id -> 0 .. MaxProgress]
    BY DEF IInv, TypeOK
  <2>2. progress[i] - 1 \in 0 .. MaxProgress  BY <1>3, <2>1, BoundAssumption
  <2> QED  BY <1>3, <2>1, <2>2
<1>5. OwnTypes  BY <1>1, <1>3, <1>4 DEF IInv, TypeOK, OwnTypes
<1>6. \A j \in Id : work'[j] = IF j = i THEN p ELSE work[j]
  BY <1>1 DEF IInv, TypeOK, GoTo
<1>7. Results'
  BY <1>1, <1>2, <1>6 DEF IInv, Results, Diagnosing, Working
<1>8. OwnCallback'
  BY <1>1, <1>2, <1>3, <1>6 DEF IInv, OwnCallback, TypeOK, Diagnosing
<1>9. \A j \in Id : j # i => inbox'[j] = inbox[j] /\ seen'[j] = seen[j]
  BY <1>1, <1>3 DEF IInv, TypeOK
<1> HIDE DEF p
<1>10. work[i] # "none" /\ p \notin {"none", "skill"} /\ work[i] \in Diagnosing
  BY <1>1, <1>2 DEF Diagnosing
<1> QED  BY <1>1, <1>2, <1>5, <1>7, <1>8, <1>9, <1>10, StepInv DEF IInv, TypeOK

\* The same for the result.
LEMMA EmitDoneTestInv == ASSUME IInv, NEW i \in Id, EmitDoneTest(i)  PROVE IInv'
<1> DEFINE p == IF onProgress = 0 THEN "returned" ELSE "callingDone"
<1>1. work[i] = "diag" /\ Aside /\ GoTo(i, p) /\ UNCHANGED <<inbox, progress, onProgress, panicked>>
  BY DEF EmitDoneTest, At
<1>2. p \in Places /\ p \notin {"none", "skill"}  BY DEF Places, DiagPlaces
<1>3. seen' = [seen EXCEPT ![i] = onProgress]  BY DEF EmitDoneTest
<1>5. OwnTypes  BY <1>1, <1>3 DEF IInv, TypeOK, OwnTypes
<1>6. \A j \in Id : work'[j] = IF j = i THEN p ELSE work[j]
  BY <1>1 DEF IInv, TypeOK, GoTo
<1>7. Results'
  BY <1>1, <1>2, <1>6 DEF IInv, Results, Working
<1>8. OwnCallback'
  BY <1>1, <1>2, <1>3, <1>6 DEF IInv, OwnCallback, TypeOK, Diagnosing
<1>9. \A j \in Id : j # i => inbox'[j] = inbox[j] /\ seen'[j] = seen[j]
  BY <1>1, <1>3 DEF IInv, TypeOK
<1> HIDE DEF p
<1>10. work[i] # "none" /\ work[i] \in Diagnosing  BY <1>1 DEF Diagnosing
<1> QED  BY <1>1, <1>2, <1>5, <1>7, <1>8, <1>9, <1>10, StepInv DEF IInv, TypeOK

\* A run that returns without a word.
LEMMA ReturnEarlyInv == ASSUME IInv, NEW i \in Id, ReturnEarly(i)  PROVE IInv'
<1>1. work[i] = "diag" /\ Aside /\ GoTo(i, "returned")
      /\ UNCHANGED <<inbox, progress, onProgress, seen, panicked>>
  BY DEF ReturnEarly, At
<1>2. "returned" \in Places /\ "returned" \notin {"none", "skill"}  BY DEF Places, DiagPlaces
<1>3. OwnTypes  BY <1>1 DEF IInv, TypeOK, OwnTypes
<1>4. \A j \in Id : work'[j] = IF j = i THEN "returned" ELSE work[j]
  BY <1>1 DEF IInv, TypeOK, GoTo
<1>5. Results'  BY <1>1, <1>4 DEF IInv, Results, Working
<1>6. OwnCallback'  BY <1>1, <1>4 DEF IInv, OwnCallback, TypeOK, Diagnosing
<1>7. \A j \in Id : j # i => inbox'[j] = inbox[j] /\ seen'[j] = seen[j]  BY <1>1
<1>8. work[i] # "none" /\ work[i] \in Diagnosing  BY <1>1 DEF Diagnosing
<1> QED  BY <1>1, <1>2, <1>3, <1>5, <1>6, <1>7, <1>8, StepInv DEF IInv, TypeOK

\* The call writes to the channel of its own run: no other callback is there.
LEMMA EmitCallInv == ASSUME IInv, NEW i \in Id, EmitCall(i)  PROVE IInv'
<1>1. work[i] = "calling" /\ Aside /\ GoTo(i, "diag") /\ UNCHANGED <<progress, onProgress, panicked>>
      /\ seen' = [seen EXCEPT ![i] = 0]
  BY DEF EmitCall, At
<1>2. Callbacks(i) \subseteq {i}  BY <1>1 DEF IInv, OwnCallback, Callbacks, Diagnosing
<1>3. Send(i, "progress")  BY <1>2 DEF EmitCall
<1>4. /\ inbox' \in [Id -> Seq({"progress", "done"})]
      /\ \A j \in Id : j # i => inbox'[j] = inbox[j]
      /\ \A k \in 1 .. Len(inbox'[i]) : inbox'[i][k] = "done" =>
             "progress" = "done" \/ (k \in 1 .. Len(inbox[i]) /\ inbox[i][k] = "done")
  BY <1>3, SendFacts DEF IInv
<1>5. OwnTypes  BY <1>1, <1>4 DEF IInv, TypeOK, OwnTypes
<1>6. \A j \in Id : work'[j] = IF j = i THEN "diag" ELSE work[j]
  BY <1>1 DEF IInv, TypeOK, GoTo
<1>7. Results'
  BY <1>1, <1>4, <1>6 DEF IInv, Results, Working
<1>8. OwnCallback'
  BY <1>1, <1>6 DEF IInv, OwnCallback, TypeOK, Diagnosing
<1>9. \A j \in Id : j # i => inbox'[j] = inbox[j] /\ seen'[j] = seen[j]
  BY <1>1, <1>4 DEF IInv, TypeOK
<1>10. work[i] # "none" /\ work[i] \in Diagnosing /\ "diag" \in Places /\ "diag" \notin {"none", "skill"}
  BY <1>1 DEF Diagnosing, Places, DiagPlaces
<1> QED  BY <1>1, <1>5, <1>7, <1>8, <1>9, <1>10, StepInv DEF IInv, TypeOK

\* So does the result, and the run asks nothing any more.
LEMMA EmitDoneCallInv == ASSUME IInv, NEW i \in Id, EmitDoneCall(i)  PROVE IInv'
<1>1. work[i] = "callingDone" /\ Aside /\ GoTo(i, "returned") /\ UNCHANGED <<progress, onProgress, panicked>>
      /\ seen' = [seen EXCEPT ![i] = 0]
  BY DEF EmitDoneCall, At
<1>2. Callbacks(i) \subseteq {i}  BY <1>1 DEF IInv, OwnCallback, Callbacks, Diagnosing
<1>3. Send(i, "done")  BY <1>2 DEF EmitDoneCall
<1>4. /\ inbox' \in [Id -> Seq({"progress", "done"})]
      /\ \A j \in Id : j # i => inbox'[j] = inbox[j]
      /\ \A k \in 1 .. Len(inbox'[i]) : inbox'[i][k] = "done" =>
             "done" = "done" \/ (k \in 1 .. Len(inbox[i]) /\ inbox[i][k] = "done")
  BY <1>3, SendFacts DEF IInv
<1>5. OwnTypes  BY <1>1, <1>4 DEF IInv, TypeOK, OwnTypes
<1>6. \A j \in Id : work'[j] = IF j = i THEN "returned" ELSE work[j]
  BY <1>1 DEF IInv, TypeOK, GoTo
<1>7. Results'
  BY <1>1, <1>4, <1>6 DEF IInv, Results, Working
<1>8. OwnCallback'
  BY <1>1, <1>6 DEF IInv, OwnCallback, TypeOK, Diagnosing
<1>9. \A j \in Id : j # i => inbox'[j] = inbox[j] /\ seen'[j] = seen[j]
  BY <1>1, <1>4 DEF IInv, TypeOK
<1>10. work[i] # "none" /\ work[i] \in Diagnosing /\ "returned" \in Places /\ "returned" \notin {"none", "skill"}
  BY <1>1 DEF Diagnosing, Places, DiagPlaces
<1> QED  BY <1>1, <1>5, <1>7, <1>8, <1>9, <1>10, StepInv DEF IInv, TypeOK

\* The call of a callback that is gone.
LEMMA CallNilInv == ASSUME IInv, NEW i \in Id, CallNil(i)  PROVE IInv'
<1>1. work[i] \in {"calling", "callingDone"} /\ Aside /\ GoTo(i, "panicked") /\ UNCHANGED <<inbox, progress, seen>>
      /\ onProgress' \in {0, onProgress}
  BY DEF CallNil, At, Panics
<1>0. panicked' \in BOOLEAN /\ (panicked => panicked')
  BY DEF CallNil, Panics, IInv, TypeOK
<1>2. work[i] # "none" /\ "panicked" \in Places /\ "panicked" \notin {"none", "skill"}
      /\ "panicked" \notin Diagnosing
  BY <1>1 DEF Diagnosing, Places, DiagPlaces
<1>3. OwnTypes  BY <1>1 DEF IInv, TypeOK, OwnTypes
<1>4. \A j \in Id : work'[j] = IF j = i THEN "panicked" ELSE work[j]
  BY <1>1 DEF IInv, TypeOK, GoTo
<1>5. Results'  BY <1>1, <1>4 DEF IInv, Results, Working
<1>6. OwnCallback'  BY <1>1, <1>2, <1>4 DEF IInv, OwnCallback
<1>7. \A j \in Id : j # i => inbox'[j] = inbox[j] /\ seen'[j] = seen[j]  BY <1>1
<1> QED  BY <1>0, <1>1, <1>2, <1>3, <1>5, <1>6, <1>7, StepInv

\* The callback is cleared.
LEMMA ClearOnProgressInv == ASSUME IInv, NEW i \in Id, ClearOnProgress(i)  PROVE IInv'
<1>1. work[i] = "returned" /\ Aside /\ GoTo(i, "sending") /\ UNCHANGED <<inbox, progress, seen>>
      /\ onProgress' \in {0, onProgress}
  BY DEF ClearOnProgress, At, Panics
<1>0. panicked' \in BOOLEAN /\ (panicked => panicked')
  BY DEF ClearOnProgress, Panics, IInv, TypeOK
<1>2. work[i] # "none" /\ "sending" \in Places /\ "sending" \notin {"none", "skill"}
      /\ "sending" \notin Diagnosing
  BY <1>1 DEF Diagnosing, Places, DiagPlaces
<1>3. OwnTypes  BY <1>1 DEF IInv, TypeOK, OwnTypes
<1>4. \A j \in Id : work'[j] = IF j = i THEN "sending" ELSE work[j]
  BY <1>1 DEF IInv, TypeOK, GoTo
<1>5. Results'  BY <1>1, <1>4 DEF IInv, Results, Working
<1>6. OwnCallback'  BY <1>1, <1>2, <1>4 DEF IInv, OwnCallback
<1>7. \A j \in Id : j # i => inbox'[j] = inbox[j] /\ seen'[j] = seen[j]  BY <1>1
<1> QED  BY <1>0, <1>1, <1>2, <1>3, <1>5, <1>6, <1>7, StepInv

\* Dispatch panics.
LEMMA DispatchPanicsInv == ASSUME IInv, NEW i \in Id, DispatchPanics(i)  PROVE IInv'
<1>1. work[i] \in {"diag", "skill"} /\ Aside /\ GoTo(i, "panicked") /\ UNCHANGED <<inbox, progress, seen>>
      /\ onProgress' \in {0, onProgress}
  BY DEF DispatchPanics, At, Panics
<1>0. panicked' \in BOOLEAN /\ (panicked => panicked')
  BY DEF DispatchPanics, Panics, IInv, TypeOK
<1>2. work[i] # "none" /\ "panicked" \in Places /\ "panicked" \notin {"none", "skill"}
      /\ "panicked" \notin Diagnosing
  BY <1>1 DEF Diagnosing, Places, DiagPlaces
<1>3. OwnTypes  BY <1>1 DEF IInv, TypeOK, OwnTypes
<1>4. \A j \in Id : work'[j] = IF j = i THEN "panicked" ELSE work[j]
  BY <1>1 DEF IInv, TypeOK, GoTo
<1>5. Results'  BY <1>1, <1>4 DEF IInv, Results, Working
<1>6. OwnCallback'  BY <1>1, <1>2, <1>4 DEF IInv, OwnCallback
<1>7. \A j \in Id : j # i => inbox'[j] = inbox[j] /\ seen'[j] = seen[j]  BY <1>1
<1> QED  BY <1>0, <1>1, <1>2, <1>3, <1>5, <1>6, <1>7, StepInv

\* The last event of a diagnosis that is over.
LEMMA SendDoneInv == ASSUME IInv, NEW i \in Id, SendDone(i)  PROVE IInv'
<1>1. work[i] = "sending" /\ Aside /\ GoTo(i, "finished") /\ Send(i, "done")
      /\ UNCHANGED <<progress, onProgress, seen, panicked>>
  BY DEF SendDone, At
<1>2. inbox' \in [Id -> Seq({"progress", "done"})] /\ \A j \in Id : j # i => inbox'[j] = inbox[j]
  BY <1>1, SendFacts DEF IInv
<1>3. OwnTypes  BY <1>1, <1>2 DEF IInv, TypeOK, OwnTypes
<1>4. \A j \in Id : work'[j] = IF j = i THEN "finished" ELSE work[j]
  BY <1>1 DEF IInv, TypeOK, GoTo
<1>5. Results'  BY <1>2, <1>4 DEF IInv, Results, Working
<1>6. OwnCallback'  BY <1>1, <1>4 DEF IInv, OwnCallback, Diagnosing
<1>7. \A j \in Id : j # i => inbox'[j] = inbox[j] /\ seen'[j] = seen[j]  BY <1>1, <1>2
<1>8. work[i] # "none" /\ "finished" \in Places /\ "finished" \notin {"none", "skill"}
      /\ "finished" \notin Diagnosing
  BY <1>1 DEF Diagnosing, Places, DiagPlaces
<1> QED  BY <1>1, <1>3, <1>5, <1>6, <1>7, <1>8, StepInv DEF IInv, TypeOK

\* The one event of a skill.
LEMMA SkillDoneInv == ASSUME IInv, NEW i \in Id, SkillDone(i)  PROVE IInv'
<1>1. work[i] = "skill" /\ Aside /\ GoTo(i, "finished") /\ inbox' = [inbox EXCEPT ![i] = <<"done">>]
      /\ UNCHANGED <<progress, onProgress, seen, panicked>>
  BY DEF SkillDone, At
<1>2. inbox' \in [Id -> Seq({"progress", "done"})] /\ \A j \in Id : j # i => inbox'[j] = inbox[j]
  BY <1>1 DEF IInv, TypeOK
<1>3. OwnTypes  BY <1>1, <1>2 DEF IInv, TypeOK, OwnTypes
<1>4. \A j \in Id : work'[j] = IF j = i THEN "finished" ELSE work[j]
  BY <1>1 DEF IInv, TypeOK, GoTo
<1>5. Results'  BY <1>2, <1>4 DEF IInv, Results, Working
<1>6. OwnCallback'  BY <1>1, <1>4 DEF IInv, OwnCallback, Diagnosing
<1>7. \A j \in Id : j # i => inbox'[j] = inbox[j] /\ seen'[j] = seen[j]  BY <1>1, <1>2
<1>8. work[i] # "none" /\ "finished" \in Places /\ "finished" \notin {"none", "skill"}
      /\ "finished" \notin Diagnosing
  BY <1>1 DEF Diagnosing, Places, DiagPlaces
<1> QED  BY <1>1, <1>3, <1>5, <1>6, <1>7, <1>8, StepInv DEF IInv, TypeOK
-----------------------------------------------------------------------------
(* What the terminal takes.                                                *)

\* Nothing that waits starts.
LEMMA WaitsUnmoved ==
    ASSUME TypeOK, Waits, UNCHANGED <<cmdQueue, typed, work>>,
           main' = "picker" => main = "picker" /\ picking' = picking
    PROVE  Waits'
<1>1. typed \in Nat  BY BoundAssumption DEF TypeOK
<1>2. typed' \in Nat /\ typed <= typed'  BY <1>1
<1>3. \A k \in 1 .. Len(cmdQueue) : cmdQueue[k].id # 0  BY Entries, IdPositive
<1>4. main = "picker" => picking.id # 0  BY IdPositive DEF Waits, Command
<1> QED  BY <1>2, <1>3, <1>4, KeptWaits

\* Taking an event keeps what the channels say of the runs.
LEMMA TakeRuns ==
    ASSUME IInv, NEW i \in Id, inbox[i] # <<>>, inbox' = [inbox EXCEPT ![i] = Tail(@)],
           UNCHANGED <<work, onProgress, seen, typed, driver, conn>>
    PROVE  /\ Results' /\ OwnCallback' /\ Fresh' /\ SameConnection'
           /\ inbox' \in [Id -> Seq({"progress", "done"})]
<1>1. /\ inbox' \in [Id -> Seq({"progress", "done"})]
      /\ \A j \in Id : j # i => inbox'[j] = inbox[j]
      /\ \A k \in 1 .. Len(inbox'[i]) : /\ k + 1 \in 1 .. Len(inbox[i])
                                        /\ inbox'[i][k] = inbox[i][k + 1]
  BY ReceiveFacts DEF IInv
<1>2. work[i] \notin {"none", "skill"}  BY DEF IInv, Fresh, Results
<1>3. Results'
  <2>1. ASSUME NEW j \in Id, NEW k \in 1 .. Len(inbox'[j]), inbox'[j][k] = "done"
        PROVE  work'[j] \notin Working
    <3>1. CASE j = i
      <4>1. k + 1 \in 1 .. Len(inbox[i]) /\ inbox[i][k + 1] = "done"  BY <1>1, <2>1, <3>1
      <4> QED  BY <3>1, <4>1 DEF IInv, Results
    <3>2. CASE j # i  BY <1>1, <2>1, <3>2 DEF IInv, Results
    <3> QED  BY <3>1, <3>2
  <2>2. ASSUME NEW j \in Id, work'[j] = "skill"  PROVE inbox'[j] = <<>>
    BY <1>1, <1>2, <2>2 DEF IInv, Results
  <2> QED  BY <2>1, <2>2 DEF Results
<1>4. OwnCallback'  BY DEF IInv, OwnCallback
<1>5. Fresh'  BY <1>1, <1>2 DEF IInv, Fresh
<1>6. SameConnection'  BY DEF IInv, SameConnection
<1> QED  BY <1>1, <1>3, <1>4, <1>5, <1>6

\* A progress report.
LEMMA TakeProgressInv == ASSUME IInv, TakeProgress  PROVE IInv'
<1>1. /\ diagCh \in Id /\ inbox[diagCh] # <<>>
      /\ inbox' = [inbox EXCEPT ![diagCh] = Tail(@)]
  BY DEF TakeProgress, IInv, TypeOK
<1>2. UNCHANGED <<main, picking, fromQueue, blockingUI, diagRunning, skillRunning, diagCh, skillCh,
                  diagCancel, cmdQueue, typed, work, progress, onProgress, seen, driver, alertCh,
                  pendingAlerts, raised, conn, last, panicked>>
  BY DEF TakeProgress, uiVars, busyVars, alertVars, history
<1>3. /\ Results' /\ OwnCallback' /\ Fresh' /\ SameConnection'
      /\ inbox' \in [Id -> Seq({"progress", "done"})]
  BY <1>1, <1>2, TakeRuns
<1>4. TypeOK'
  <2>1. UiTypes  BY <1>2 DEF IInv, TypeOK, UiTypes
  <2>2. RunTypes  BY <1>2, <1>3 DEF IInv, TypeOK, RunTypes
  <2> QED  BY <2>1, <2>2, Together
<1>5. Flags' /\ AtWork'  BY <1>2 DEF IInv, Flags, AtWork, Busy
<1>6. Waits'  BY <1>2, WaitsUnmoved DEF IInv
<1>7. panicked' \/ InOrder'  BY <1>2 DEF IInv, InOrder, Busy
<1> QED  BY <1>3, <1>4, <1>5, <1>6, <1>7 DEF IInv

\* The end of a diagnosis: its run is through.
LEMMA TakeDiagDoneInv == ASSUME IInv, TakeDiagDone  PROVE IInv'
<1>1. /\ diagCh \in Id /\ inbox[diagCh] # <<>> /\ Head(inbox[diagCh]) = "done"
      /\ inbox' = [inbox EXCEPT ![diagCh] = Tail(@)]
  BY DEF TakeDiagDone, IInv, TypeOK
<1>2. /\ UNCHANGED <<picking, fromQueue, blockingUI, skillRunning, skillCh, cmdQueue, typed,
                     work, progress, onProgress, seen, driver, alertCh, raised, conn, last, panicked>>
      /\ diagRunning' = FALSE /\ diagCh' = 0 /\ diagCancel' = FALSE
      /\ pendingAlerts' = 0 /\ main' = "queue"
  BY DEF TakeDiagDone, history
<1>3. /\ Results' /\ OwnCallback' /\ Fresh' /\ SameConnection'
      /\ inbox' \in [Id -> Seq({"progress", "done"})]
  BY <1>1, <1>2, TakeRuns
<1>4. TypeOK'  BY <1>2, <1>3 DEF IInv, TypeOK
<1>5. work[diagCh] \notin Working
  <2>1. 1 \in 1 .. Len(inbox[diagCh]) /\ inbox[diagCh][1] = "done"
    BY <1>1, ReceiveFacts DEF IInv
  <2> QED  BY <1>1, <2>1 DEF IInv, Results
<1>6. AtWork'
  BY <1>1, <1>2, <1>5, IdPositive DEF IInv, AtWork, Working, Diagnosing
<1>7. Flags'
  <2>1. diagRunning /\ ~skillRunning /\ skillCh = 0
    BY <1>1, IdPositive DEF IInv, Flags
  <2> QED  BY <1>2, <2>1 DEF Flags, Busy
<1>8. Waits'  BY <1>2, WaitsUnmoved DEF IInv
<1>9. panicked' \/ InOrder'  BY <1>2 DEF IInv, InOrder, Busy
<1> QED  BY <1>3, <1>4, <1>6, <1>7, <1>8, <1>9 DEF IInv

\* The end of a skill.
LEMMA TakeSkillInv ==
    ASSUME IInv, TakeSkillDone \/ TakeSkillRenderPanics  PROVE IInv'
<1>1. /\ skillCh \in Id /\ inbox[skillCh] # <<>>
      /\ inbox' = [inbox EXCEPT ![skillCh] = Tail(@)]
  BY DEF TakeSkillDone, TakeSkillRenderPanics, IInv, TypeOK
<1>2. /\ UNCHANGED <<picking, fromQueue, blockingUI, diagRunning, diagCh, diagCancel, cmdQueue, typed,
                     work, progress, onProgress, seen, driver, alertCh, raised, conn, last>>
      /\ skillRunning' = FALSE /\ skillCh' = 0
      /\ main' \in {"queue", "select"}
  BY DEF TakeSkillDone, TakeSkillRenderPanics, uiVars, alertVars, history
<1>3. panicked' \in BOOLEAN /\ (panicked => panicked') /\ pendingAlerts' \in Nat
      /\ (main' = "select" => panicked')
  <2>1. CASE TakeSkillDone
    <3>1. panicked' = panicked /\ pendingAlerts' = 0 /\ main' = "queue"
      BY <2>1 DEF TakeSkillDone, history
    <3>2. panicked \in BOOLEAN  BY DEF IInv, TypeOK
    <3> QED  BY <3>1, <3>2
  <2>2. CASE TakeSkillRenderPanics
    <3>1. panicked' = TRUE /\ pendingAlerts' = pendingAlerts
      BY <2>2 DEF TakeSkillRenderPanics, alertVars
    <3>2. pendingAlerts \in Nat  BY DEF IInv, TypeOK
    <3> QED  BY <3>1, <3>2
  <2> QED  BY <2>1, <2>2
<1>4. /\ Results' /\ OwnCallback' /\ Fresh' /\ SameConnection'
      /\ inbox' \in [Id -> Seq({"progress", "done"})]
  BY <1>1, <1>2, TakeRuns
<1>5. TypeOK'  BY <1>2, <1>3, <1>4 DEF IInv, TypeOK
<1>6. AtWork'
  BY <1>1, <1>2 DEF IInv, AtWork, Results
<1>7. Flags'
  <2>1. skillRunning /\ ~diagRunning /\ diagCh = 0
    BY <1>1, IdPositive DEF IInv, Flags
  <2> QED  BY <1>2, <2>1 DEF Flags, Busy
<1>8. Waits'  BY <1>2, WaitsUnmoved DEF IInv
<1>9. panicked' \/ InOrder'  BY <1>2, <1>3 DEF IInv, InOrder, Busy
<1> QED  BY <1>4, <1>5, <1>6, <1>7, <1>8, <1>9 DEF IInv
-----------------------------------------------------------------------------
(* Steps that start nothing.                                               *)

LEMMA QuietInv ==
    ASSUME IInv, NothingStarts, UiTypes, typed' \in Nat, typed <= typed',
           main' \in {"queue", "picker"} => ~Busy,
           Waits', panicked \/ InOrder'
    PROVE  IInv'
<1>1. RunTypes  BY NothingTypes DEF IInv
<1>2. TypeOK'  BY <1>1, Together
<1>3. RunsInv'  BY NothingStartsRuns DEF IInv, RunsInv
<1>4. Flags'  BY DEF IInv, Flags, Busy, NothingStarts, busyVars
<1>5. panicked' = panicked  BY DEF NothingStarts, history
<1> QED  BY <1>2, <1>3, <1>4, <1>5 DEF IInv, RunsInv

\* What NothingStarts leaves alone.
LEMMA NothingKeeps ==
    ASSUME NothingStarts
    PROVE  /\ UNCHANGED <<diagRunning, skillRunning, diagCh, skillCh, work, last, panicked>>
           /\ Busy' = Busy
  BY DEF NothingStarts, busyVars, runVars, history, Busy

\* A picker opens in an idle terminal, whose queue is empty.
LEMMA TypePickerInv == ASSUME IInv, NEW c \in Typable, TypePicker(c)  PROVE IInv'
<1>1. /\ NothingStarts /\ ~Busy /\ Typed(c) /\ cmdQueue' = cmdQueue
      /\ UNCHANGED <<alertCh, pendingAlerts, raised>>
      /\ main' = "picker" /\ picking' = c /\ fromQueue' = FALSE /\ blockingUI' = TRUE
  BY DEF TypePicker, OpenPicker, alertVars
<1>2. /\ c \in Command /\ c.id \in Id /\ c.id = typed + 1
      /\ typed' = typed + 1 /\ typed' \in 0 .. MaxTyped
      /\ typed \in Nat /\ typed' \in Nat /\ typed <= typed' /\ typed < c.id
      /\ main = "select"
  BY <1>1, TypedFacts DEF IInv
<1>3. UiTypes  BY <1>1, <1>2 DEF IInv, TypeOK, UiTypes
<1>4. UNCHANGED <<work, last, panicked>> /\ Busy' = Busy  BY <1>1, NothingKeeps
<1>5. \A k \in 1 .. Len(cmdQueue) : /\ cmdQueue[k].id \in Id /\ cmdQueue[k].id \in Nat
                                    /\ work[cmdQueue[k].id] = "none"
                                    /\ cmdQueue[k].id <= typed
  BY Entries DEF IInv, Waits
<1>6. work[c.id] = "none"  BY <1>2, IdPositive DEF IInv, Fresh
<1>7. Waits'
  <2>1. \A k \in 1 .. Len(cmdQueue') : /\ work'[cmdQueue'[k].id] = "none"
                                       /\ cmdQueue'[k].id <= typed'
                                       /\ cmdQueue'[k].id # picking'.id
    BY <1>1, <1>2, <1>4, <1>5
  <2>2. \A j, k \in 1 .. Len(cmdQueue') : j < k => cmdQueue'[j].id < cmdQueue'[k].id
    BY <1>1 DEF IInv, Waits
  <2> QED  BY <1>1, <1>2, <1>4, <1>6, <2>1, <2>2 DEF Waits
<1>8. ASSUME ~panicked  PROVE InOrder'
  <2>1. last <= typed /\ cmdQueue = <<>> /\ last \in Nat
    BY <1>1, <1>2, <1>8, IdPositive DEF IInv, InOrder, TypeOK
  <2> QED  BY <1>1, <1>2, <1>4, <2>1 DEF InOrder
<1> QED  BY <1>1, <1>2, <1>3, <1>7, <1>8, QuietInv

\* A command joins the queue.
LEMMA TypeQueuesInv == ASSUME IInv, NEW c \in Typable, TypeQueues(c)  PROVE IInv'
<1>1. /\ NothingStarts /\ Busy /\ Typed(c) /\ cmdQueue' = Append(cmdQueue, c)
      /\ UNCHANGED <<main, picking, fromQueue>> /\ KeyDone
  BY DEF TypeQueues
<1>2. /\ c \in Command /\ c.id \in Id /\ c.id = typed + 1
      /\ typed' = typed + 1 /\ typed' \in 0 .. MaxTyped
      /\ typed \in Nat /\ typed' \in Nat /\ typed <= typed' /\ typed < c.id
      /\ main = "select"
  BY <1>1, TypedFacts DEF IInv
<1>3. /\ cmdQueue \in Seq(Command) /\ Len(cmdQueue) \in Nat
      /\ cmdQueue' \in Seq(Command) /\ Len(cmdQueue') = Len(cmdQueue) + 1
      /\ \A k \in 1 .. Len(cmdQueue) : cmdQueue'[k] = cmdQueue[k]
      /\ cmdQueue'[Len(cmdQueue) + 1] = c
  <2>1. cmdQueue \in Seq(Command)  BY DEF IInv, TypeOK
  <2>2. c \in Command /\ cmdQueue' = Append(cmdQueue, c)  BY <1>1, <1>2
  <2> QED  BY <2>1, <2>2
<1>4. UNCHANGED <<work, last, panicked>> /\ Busy' = Busy  BY <1>1, NothingKeeps
<1>5. UiTypes
  <2>1. blockingUI' \in BOOLEAN /\ alertCh' \in 0 .. AlertCap
        /\ pendingAlerts' \in Nat /\ raised' \in 0 .. MaxAlerts
    BY <1>1, KeyTypes DEF IInv
  <2> QED  BY <1>1, <1>2, <1>3, <2>1 DEF IInv, TypeOK, UiTypes
<1>6. \A k \in 1 .. Len(cmdQueue) : /\ cmdQueue[k].id \in Id /\ cmdQueue[k].id \in Nat
                                    /\ work[cmdQueue[k].id] = "none"
                                    /\ cmdQueue[k].id <= typed
  BY Entries DEF IInv, Waits
<1>7. work[c.id] = "none"  BY <1>2, IdPositive DEF IInv, Fresh
<1>8. ASSUME NEW k \in 1 .. Len(cmdQueue')  PROVE k \in 1 .. Len(cmdQueue) \/ k = Len(cmdQueue) + 1
  BY <1>3
<1>9. Waits'
  <2>1. ASSUME NEW k \in 1 .. Len(cmdQueue')
        PROVE  work'[cmdQueue'[k].id] = "none" /\ cmdQueue'[k].id <= typed'
    BY <1>2, <1>3, <1>4, <1>6, <1>7, <1>8
  <2>2. ASSUME NEW j \in 1 .. Len(cmdQueue'), NEW k \in 1 .. Len(cmdQueue'), j < k
        PROVE  cmdQueue'[j].id < cmdQueue'[k].id
    <3>1. j \in 1 .. Len(cmdQueue)  BY <1>3, <2>2
    <3>2. CASE k = Len(cmdQueue) + 1  BY <1>2, <1>3, <1>6, <3>1, <3>2
    <3>3. CASE k \in 1 .. Len(cmdQueue)
      BY <1>3, <2>2, <3>1, <3>3 DEF IInv, Waits
    <3> QED  BY <1>8, <3>2, <3>3
  <2> QED  BY <1>1, <1>2, <2>1, <2>2 DEF Waits
<1>10. ASSUME ~panicked  PROVE InOrder'
  <2>1. last <= typed /\ last \in Nat /\ \A k \in 1 .. Len(cmdQueue) : last < cmdQueue[k].id
    BY <1>10, IdPositive DEF IInv, InOrder, TypeOK
  <2>2. \A k \in 1 .. Len(cmdQueue') : last' < cmdQueue'[k].id
    BY <1>2, <1>3, <1>4, <1>8, <2>1
  <2> QED  BY <1>1, <1>2, <1>4, <2>1, <2>2 DEF InOrder
<1> QED  BY <1>1, <1>2, <1>5, <1>9, <1>10, QuietInv

\* A command is refused.
LEMMA TypeRefusedInv == ASSUME IInv, NEW c \in Typable, TypeRefused(c)  PROVE IInv'
<1>1. /\ NothingStarts /\ Busy /\ Typed(c)
      /\ UNCHANGED <<main, picking, fromQueue, cmdQueue>> /\ KeyDone
  BY DEF TypeRefused
<1>2. /\ c.id \in Id /\ typed' = typed + 1 /\ typed' \in 0 .. MaxTyped
      /\ typed \in Nat /\ typed' \in Nat /\ typed <= typed' /\ main = "select"
  BY <1>1, TypedFacts DEF IInv
<1>3. UNCHANGED <<work, last, panicked>> /\ Busy' = Busy  BY <1>1, NothingKeeps
<1>4. UiTypes
  <2>1. blockingUI' \in BOOLEAN /\ alertCh' \in 0 .. AlertCap
        /\ pendingAlerts' \in Nat /\ raised' \in 0 .. MaxAlerts
    BY <1>1, KeyTypes DEF IInv
  <2> QED  BY <1>1, <1>2, <2>1 DEF IInv, TypeOK, UiTypes
<1>5. Waits'
  <2>1. \A k \in 1 .. Len(cmdQueue) : cmdQueue[k].id # 0  BY Entries, IdPositive DEF IInv
  <2> QED  BY <1>1, <1>2, <1>3, <2>1, KeptWaits DEF IInv
<1>6. ASSUME ~panicked  PROVE InOrder'
  <2>1. last <= typed /\ last \in Nat /\ \A k \in 1 .. Len(cmdQueue) : last < cmdQueue[k].id
    BY <1>6, IdPositive DEF IInv, InOrder, TypeOK
  <2> QED  BY <1>1, <1>2, <1>3, <2>1 DEF InOrder
<1> QED  BY <1>1, <1>2, <1>4, <1>5, <1>6, QuietInv

\* Any other key.
LEMMA KeyInv == ASSUME IInv, Key  PROVE IInv'
<1>1. /\ NothingStarts /\ typed' = typed /\ cmdQueue' = cmdQueue
      /\ UNCHANGED <<main, picking, fromQueue>> /\ KeyDone
  BY DEF Key
<1>2. UNCHANGED <<work, last, panicked>> /\ Busy' = Busy  BY <1>1, NothingKeeps
<1>3. typed \in Nat  BY BoundAssumption DEF IInv, TypeOK
<1>4. UiTypes
  <2>1. blockingUI' \in BOOLEAN /\ alertCh' \in 0 .. AlertCap
        /\ pendingAlerts' \in Nat /\ raised' \in 0 .. MaxAlerts
    BY <1>1, KeyTypes DEF IInv
  <2> QED  BY <1>1, <2>1 DEF IInv, TypeOK, UiTypes
<1>5. Waits'  BY <1>1, <1>2, WaitsUnmoved DEF IInv
<1>6. ASSUME ~panicked  PROVE InOrder'  BY <1>1, <1>2, <1>6 DEF IInv, InOrder
<1>7. main' \in {"queue", "picker"} => ~Busy  BY <1>1 DEF IInv, Flags
<1> QED  BY <1>1, <1>3, <1>4, <1>5, <1>6, <1>7, QuietInv

\* The user leaves.
LEMMA ExitInv == ASSUME IInv, Exit  PROVE IInv'
<1>1. /\ NothingStarts /\ typed' = typed /\ cmdQueue' = cmdQueue
      /\ UNCHANGED <<picking, fromQueue, blockingUI, alertCh, pendingAlerts, raised>>
      /\ main' = "exited"
  BY DEF Exit, alertVars
<1>2. UNCHANGED <<work, last, panicked>> /\ Busy' = Busy  BY <1>1, NothingKeeps
<1>3. typed \in Nat  BY BoundAssumption DEF IInv, TypeOK
<1>4. UiTypes
  BY <1>1 DEF IInv, TypeOK, UiTypes
<1>5. Waits'  BY <1>1, <1>2, WaitsUnmoved DEF IInv
<1>6. ASSUME ~panicked  PROVE InOrder'  BY <1>1, <1>2, <1>6 DEF IInv, InOrder
<1>7. main' \in {"queue", "picker"} => ~Busy  BY <1>1 DEF IInv, Flags
<1> QED  BY <1>1, <1>3, <1>4, <1>5, <1>6, <1>7, QuietInv

\* The queue is through.
LEMMA QueueEmptyInv == ASSUME IInv, QueueEmpty  PROVE IInv'
<1>1. /\ NothingStarts /\ typed' = typed /\ cmdQueue' = cmdQueue
      /\ UNCHANGED <<picking, fromQueue, blockingUI, alertCh, pendingAlerts, raised>>
      /\ main' = "select" /\ cmdQueue = <<>>
  BY DEF QueueEmpty, alertVars
<1>2. UNCHANGED <<work, last, panicked>> /\ Busy' = Busy  BY <1>1, NothingKeeps
<1>3. typed \in Nat  BY BoundAssumption DEF IInv, TypeOK
<1>4. UiTypes
  BY <1>1 DEF IInv, TypeOK, UiTypes
<1>5. Waits'  BY <1>1, <1>2, WaitsUnmoved DEF IInv
<1>6. ASSUME ~panicked  PROVE InOrder'  BY <1>1, <1>2, <1>6 DEF IInv, InOrder
<1>7. main' \in {"queue", "picker"} => ~Busy  BY <1>1 DEF IInv, Flags
<1> QED  BY <1>1, <1>3, <1>4, <1>5, <1>6, <1>7, QuietInv

\* The detector raises an alert.
LEMMA RaiseAlertInv == ASSUME IInv, RaiseAlert  PROVE IInv'
<1>1. /\ NothingStarts /\ typed' = typed /\ cmdQueue' = cmdQueue
      /\ UNCHANGED <<main, picking, fromQueue, blockingUI, pendingAlerts>>
      /\ raised < MaxAlerts /\ raised' = raised + 1
      /\ alertCh' = IF alertCh < AlertCap THEN alertCh + 1 ELSE alertCh
  BY DEF RaiseAlert, uiVars
<1>2. UNCHANGED <<work, last, panicked>> /\ Busy' = Busy  BY <1>1, NothingKeeps
<1>3. typed \in Nat  BY BoundAssumption DEF IInv, TypeOK
<1>4. UiTypes
  <2>1. raised' \in 0 .. MaxAlerts  BY <1>1, BoundAssumption DEF IInv, TypeOK
  <2>2. alertCh' \in 0 .. AlertCap  BY <1>1, LimitAssumption DEF IInv, TypeOK
  <2> QED  BY <1>1, <2>1, <2>2 DEF IInv, TypeOK, UiTypes
<1>5. Waits'  BY <1>1, <1>2, WaitsUnmoved DEF IInv
<1>6. ASSUME ~panicked  PROVE InOrder'  BY <1>1, <1>2, <1>6 DEF IInv, InOrder
<1>7. main' \in {"queue", "picker"} => ~Busy  BY <1>1 DEF IInv, Flags
<1> QED  BY <1>1, <1>3, <1>4, <1>5, <1>6, <1>7, QuietInv

\* The terminal takes an alert.
LEMMA TakeAlertInv == ASSUME IInv, TakeAlert  PROVE IInv'
<1>1. /\ NothingStarts /\ typed' = typed /\ cmdQueue' = cmdQueue
      /\ UNCHANGED <<main, picking, fromQueue, blockingUI, raised>>
      /\ alertCh > 0 /\ alertCh' = alertCh - 1
      /\ pendingAlerts' \in {pendingAlerts, pendingAlerts + 1}
  BY DEF TakeAlert, uiVars
<1>2. UNCHANGED <<work, last, panicked>> /\ Busy' = Busy  BY <1>1, NothingKeeps
<1>3. typed \in Nat  BY BoundAssumption DEF IInv, TypeOK
<1>4. UiTypes
  <2>1. pendingAlerts' \in Nat  BY <1>1 DEF IInv, TypeOK
  <2>2. alertCh' \in 0 .. AlertCap  BY <1>1, LimitAssumption DEF IInv, TypeOK
  <2> QED  BY <1>1, <2>1, <2>2 DEF IInv, TypeOK, UiTypes
<1>5. Waits'  BY <1>1, <1>2, WaitsUnmoved DEF IInv
<1>6. ASSUME ~panicked  PROVE InOrder'  BY <1>1, <1>2, <1>6 DEF IInv, InOrder
<1>7. main' \in {"queue", "picker"} => ~Busy  BY <1>1 DEF IInv, Flags
<1> QED  BY <1>1, <1>3, <1>4, <1>5, <1>6, <1>7, QuietInv
\* The diagnosis is cancelled.
LEMMA CancelDiagInv == ASSUME IInv, CancelDiag  PROVE IInv'
<1>1. /\ KeyDone /\ diagCancel' = FALSE
      /\ UNCHANGED <<main, picking, fromQueue, diagRunning, skillRunning, diagCh, skillCh, cmdQueue,
                     typed, work, inbox, progress, onProgress, seen, driver, conn, last, panicked>>
  BY DEF CancelDiag, runVars, history
<1>2. RunTypes  BY <1>1 DEF IInv, TypeOK, RunTypes
<1>3. UiTypes
  <2>1. blockingUI' \in BOOLEAN /\ alertCh' \in 0 .. AlertCap
        /\ pendingAlerts' \in Nat /\ raised' \in 0 .. MaxAlerts
    BY <1>1, KeyTypes DEF IInv
  <2> QED  BY <1>1, <2>1 DEF IInv, TypeOK, UiTypes
<1>4. TypeOK'  BY <1>2, <1>3, Together
<1>5. Flags' /\ AtWork'  BY <1>1 DEF IInv, Flags, AtWork, Busy
<1>6. Results' /\ OwnCallback' /\ Fresh' /\ SameConnection'
  BY <1>1 DEF IInv, Results, OwnCallback, Fresh, SameConnection
<1>7. Waits'  BY <1>1, WaitsUnmoved DEF IInv
<1>8. panicked' \/ InOrder'  BY <1>1 DEF IInv, InOrder, Busy
<1> QED  BY <1>4, <1>5, <1>6, <1>7, <1>8 DEF IInv

-----------------------------------------------------------------------------
(* The picker.                                                             *)

LEMMA PickerFacts ==
    ASSUME IInv, NEW starts \in BOOLEAN, PickerDone(starts)
    PROVE  /\ UiTypes /\ ~Busy /\ main = "picker" /\ main' \in {"select", "queue"}
           /\ cmdQueue' = cmdQueue /\ typed' = typed /\ typed \in Nat
           /\ ~fromQueue => main' = "select"
           /\ ~starts /\ fromQueue => main' = "queue"
           /\ starts => main' = "select"
           /\ picking.id \in Id /\ picking.id \in Nat /\ picking.id <= typed
           /\ work[picking.id] = "none"
           /\ \A k \in 1 .. Len(cmdQueue) : cmdQueue[k].id # picking.id
<1>1. /\ main = "picker" /\ picking' = NoCommand /\ fromQueue' = FALSE
      /\ cmdQueue' = cmdQueue /\ typed' = typed
  BY DEF PickerDone
<1>2. /\ main' \in {"select", "queue"}
      /\ ~fromQueue => main' = "select"
      /\ ~starts /\ fromQueue => main' = "queue"
      /\ starts => main' = "select"
  BY DEF PickerDone
<1>3. blockingUI' \in BOOLEAN /\ alertCh' \in 0 .. AlertCap
      /\ pendingAlerts' \in Nat /\ raised' \in 0 .. MaxAlerts
  <2>1. CASE fromQueue
    <3>1. UNCHANGED <<blockingUI, alertCh, pendingAlerts, raised>>
      BY <2>1 DEF PickerDone, alertVars
    <3> QED  BY <3>1 DEF IInv, TypeOK
  <2>2. CASE ~fromQueue
    <3>1. KeyDone  BY <2>2 DEF PickerDone
    <3> QED  BY <3>1, KeyTypes DEF IInv
  <2> QED  BY <2>1, <2>2
<1>4. UiTypes  BY <1>1, <1>2, <1>3 DEF IInv, TypeOK, UiTypes
<1>5. ~Busy  BY <1>1 DEF IInv, Flags
<1>6. /\ picking \in Command /\ work[picking.id] = "none" /\ picking.id <= typed
      /\ \A k \in 1 .. Len(cmdQueue) : cmdQueue[k].id # picking.id
  BY <1>1 DEF IInv, Waits
<1>7. picking.id \in Id /\ picking.id \in Nat  BY <1>6, IdPositive DEF Command
<1>8. typed \in Nat  BY BoundAssumption DEF IInv, TypeOK
<1> QED  BY <1>1, <1>2, <1>4, <1>5, <1>6, <1>7, <1>8

\* After a picker the command it was opened for has its turn, or none.
LEMMA PickerOrder ==
    ASSUME IInv, NEW starts \in BOOLEAN, PickerDone(starts), ~panicked,
           last' \in {last, picking.id}, starts => Busy'
    PROVE  InOrder'
<1>1. /\ main = "picker" /\ main' \in {"select", "queue"}
      /\ cmdQueue' = cmdQueue /\ typed' = typed
      /\ ~fromQueue => main' = "select"
      /\ ~starts /\ fromQueue => main' = "queue"
      /\ picking.id <= typed
  BY PickerFacts
<1>2. /\ last <= typed /\ \A k \in 1 .. Len(cmdQueue) : last < cmdQueue[k].id
      /\ \A k \in 1 .. Len(cmdQueue) : picking.id < cmdQueue[k].id
      /\ ~fromQueue => cmdQueue = <<>>
  BY <1>1 DEF IInv, InOrder
<1>3. last' <= typed' /\ \A k \in 1 .. Len(cmdQueue') : last' < cmdQueue'[k].id
  BY <1>1, <1>2
<1>4. main' = "select" /\ ~Busy' => cmdQueue' = <<>>  BY <1>1, <1>2
<1> QED  BY <1>1, <1>3, <1>4 DEF InOrder

\* Nothing is chosen.
LEMMA PickerCancelledInv == ASSUME IInv, PickerCancelled  PROVE IInv'
<1>1. PickerDone(FALSE) /\ NothingStarts  BY DEF PickerCancelled
<1>2. /\ UiTypes /\ ~Busy /\ main' \in {"select", "queue"}
      /\ cmdQueue' = cmdQueue /\ typed' = typed /\ typed \in Nat
  BY <1>1, PickerFacts
<1>3. UNCHANGED <<work, last, panicked>> /\ Busy' = Busy  BY <1>1, NothingKeeps
<1>4. Waits'  BY <1>2, <1>3, WaitsUnmoved DEF IInv
<1>5. ~panicked => InOrder'  BY <1>1, <1>2, <1>3, PickerOrder
<1> QED  BY <1>1, <1>2, <1>4, <1>5, QuietInv

\* A connection is chosen.
LEMMA PickerLoginInv == ASSUME IInv, PickerLogin  PROVE IInv'
<1>1. PickerDone(FALSE) /\ RunSync(picking.id)  BY DEF PickerLogin
<1>2. /\ UiTypes /\ ~Busy /\ main' \in {"select", "queue"}
      /\ cmdQueue' = cmdQueue /\ typed' = typed /\ typed \in Nat
      /\ picking.id \in Id
  BY <1>1, PickerFacts
<1>3. UNCHANGED <<diagRunning, skillRunning, diagCh, skillCh, work, panicked>>
      /\ last' = picking.id
  BY <1>1 DEF RunSync, busyVars, runVars
<1>4. TypeOK'  BY <1>1, <1>2, SyncTypes, Together DEF IInv
<1>5. RunsInv'  BY <1>1, <1>2, SyncRuns DEF IInv, RunsInv
<1>6. Flags'  BY <1>2, <1>3 DEF IInv, Flags, Busy
<1>7. Waits'  BY <1>2, <1>3, WaitsUnmoved DEF IInv
<1>8. ~panicked => InOrder'  BY <1>1, <1>3, PickerOrder
<1> QED  BY <1>3, <1>4, <1>5, <1>6, <1>7, <1>8 DEF IInv, RunsInv

-----------------------------------------------------------------------------
(* Steps that start something.                                             *)

\* A command starts in an idle terminal with nothing waiting.
LEMMA StartInv ==
    ASSUME IInv, ~Busy, UiTypes, NEW i \in Id, work[i] = "none",
           i <= typed', typed' \in Nat, typed <= typed',
           StartDiag(i) \/ StartSkill(i), driver' = driver,
           main' = "select", Waits', panicked \/ \A k \in 1 .. Len(cmdQueue') : i < cmdQueue'[k].id
    PROVE  IInv'
<1>1. TypeOK'  BY StartDiagTypes, StartSkillTypes, Together DEF IInv
<1>2. RunsInv'  BY StartDiagRuns, StartSkillRuns DEF IInv, RunsInv
<1>3. Busy' /\ last' = i /\ panicked' = panicked  BY DEF StartDiag, StartSkill, Busy
<1>4. Flags'
  <2>1. diagCh = 0 /\ skillCh = 0 /\ ~diagRunning /\ ~skillRunning
    BY DEF IInv, Flags, Busy
  <2>2. CASE StartDiag(i)  BY <2>1, <2>2, IdPositive DEF StartDiag, Flags
  <2>3. CASE StartSkill(i)  BY <2>1, <2>3, IdPositive DEF StartSkill, Flags
  <2> QED  BY <2>2, <2>3
<1>5. panicked' \/ InOrder'  BY <1>3 DEF InOrder
<1> QED  BY <1>1, <1>2, <1>4, <1>5 DEF IInv, RunsInv

\* An alert or a source is chosen, for a diagnosis or a command.
LEMMA PickerStartsInv == ASSUME IInv, PickerStarts  PROVE IInv'
<1>1. /\ PickerDone(TRUE) /\ driver' = driver
      /\ StartDiag(picking.id) \/ StartSkill(picking.id)
  BY DEF PickerStarts
<1>2. /\ UiTypes /\ ~Busy /\ main = "picker" /\ main' = "select"
      /\ cmdQueue' = cmdQueue /\ typed' = typed /\ typed \in Nat
      /\ picking.id \in Id /\ picking.id <= typed /\ work[picking.id] = "none"
      /\ \A k \in 1 .. Len(cmdQueue) : cmdQueue[k].id # picking.id
  BY <1>1, PickerFacts
<1>3. Waits'
  <2>1. \A j \in Id : j # picking.id /\ work[j] = "none" => work'[j] = "none"
    BY <1>1 DEF StartDiag, StartSkill, IInv, TypeOK
  <2> QED  BY <1>2, <2>1, KeptWaits DEF IInv
<1>4. panicked \/ \A k \in 1 .. Len(cmdQueue') : picking.id < cmdQueue'[k].id
  BY <1>2 DEF IInv, InOrder
<1>5. picking.id <= typed' /\ typed' \in Nat /\ typed <= typed'  BY <1>2
<1> QED  BY <1>1, <1>2, <1>3, <1>4, <1>5, StartInv

\* A typed command starts at once.
LEMMA TypeStartsInv == ASSUME IInv, NEW c \in Typable, TypeStarts(c)  PROVE IInv'
<1>1. /\ ~Busy /\ Typed(c) /\ KeyDone
      /\ UNCHANGED <<main, picking, fromQueue, cmdQueue, driver>>
      /\ StartDiag(c.id) \/ StartSkill(c.id)
  BY DEF TypeStarts
<1>2. /\ c \in Command /\ c.id \in Id /\ c.id = typed + 1
      /\ typed' = typed + 1 /\ typed' \in 0 .. MaxTyped
      /\ typed \in Nat /\ typed' \in Nat /\ typed <= typed' /\ typed < c.id
      /\ main = "select"
  BY <1>1, TypedFacts DEF IInv
<1>3. UiTypes
  <2>1. blockingUI' \in BOOLEAN /\ alertCh' \in 0 .. AlertCap
        /\ pendingAlerts' \in Nat /\ raised' \in 0 .. MaxAlerts
    BY <1>1, KeyTypes DEF IInv
  <2> QED  BY <1>1, <1>2, <2>1 DEF IInv, TypeOK, UiTypes
<1>4. work[c.id] = "none"  BY <1>2, IdPositive DEF IInv, Fresh
<1>5. c.id <= typed'  BY <1>2
<1>6. Waits'
  <2>1. \A k \in 1 .. Len(cmdQueue) : cmdQueue[k].id # c.id
    <3>1. TAKE k \in 1 .. Len(cmdQueue)
    <3>2. cmdQueue[k].id \in Nat /\ cmdQueue[k].id <= typed  BY Entries DEF IInv, Waits
    <3> QED  BY <1>2, <3>2
  <2>2. \A j \in Id : j # c.id /\ work[j] = "none" => work'[j] = "none"
    BY <1>1 DEF StartDiag, StartSkill, IInv, TypeOK
  <2>3. main' # "picker"  BY <1>1, <1>2
  <2> QED  BY <1>1, <1>2, <2>1, <2>2, <2>3, KeptWaits DEF IInv
<1>7. panicked \/ \A k \in 1 .. Len(cmdQueue') : c.id < cmdQueue'[k].id
  <2>1. panicked \/ cmdQueue = <<>>  BY <1>1, <1>2 DEF IInv, InOrder
  <2> QED  BY <1>1, <2>1
<1>8. main' = "select" /\ driver' = driver  BY <1>1, <1>2
<1> QED  BY <1>1, <1>2, <1>3, <1>4, <1>5, <1>6, <1>7, <1>8, StartInv

\* A typed command that the terminal runs itself.
LEMMA TypeSyncInv == ASSUME IInv, NEW c \in Typable, TypeSync(c)  PROVE IInv'
<1>1. /\ ~Busy /\ Typed(c) /\ KeyDone /\ RunSync(c.id)
      /\ UNCHANGED <<main, picking, fromQueue, cmdQueue>>
  BY DEF TypeSync
<1>2. /\ c.id \in Id /\ c.id = typed + 1
      /\ typed' = typed + 1 /\ typed' \in 0 .. MaxTyped
      /\ typed \in Nat /\ typed' \in Nat /\ typed <= typed'
      /\ main = "select"
  BY <1>1, TypedFacts DEF IInv
<1>3. UiTypes
  <2>1. blockingUI' \in BOOLEAN /\ alertCh' \in 0 .. AlertCap
        /\ pendingAlerts' \in Nat /\ raised' \in 0 .. MaxAlerts
    BY <1>1, KeyTypes DEF IInv
  <2> QED  BY <1>1, <1>2, <2>1 DEF IInv, TypeOK, UiTypes
<1>4. /\ UNCHANGED <<diagRunning, skillRunning, diagCh, skillCh, work, inbox, onProgress, seen,
                     conn, panicked>>
      /\ last' = c.id
  BY <1>1 DEF RunSync, busyVars, runVars
<1>5. TypeOK'  BY <1>1, <1>2, <1>3, SyncTypes, Together DEF IInv
<1>6. Flags' /\ AtWork' /\ Results' /\ OwnCallback'
  BY <1>1, <1>4 DEF IInv, Flags, AtWork, Results, OwnCallback, Busy
<1>7. Fresh'
  <2>1. \A j \in Id : j > typed' => j > typed  BY <1>2, IdPositive
  <2> QED  BY <1>4, <2>1 DEF IInv, Fresh
<1>8. SameConnection'
  BY <1>1, <1>4, IdleMeansNoWork DEF IInv, SameConnection
<1>9. Waits'
  <2>1. \A k \in 1 .. Len(cmdQueue) : cmdQueue[k].id # 0  BY Entries, IdPositive DEF IInv
  <2>2. main' # "picker"  BY <1>1, <1>2
  <2> QED  BY <1>1, <1>2, <1>4, <2>1, <2>2, KeptWaits DEF IInv
<1>10. panicked' \/ InOrder'
  <2>1. panicked \/ cmdQueue = <<>>  BY <1>1, <1>2 DEF IInv, InOrder
  <2> QED  BY <1>1, <1>2, <1>4, <2>1 DEF InOrder
<1> QED  BY <1>5, <1>6, <1>7, <1>8, <1>9, <1>10 DEF IInv

-----------------------------------------------------------------------------
(* The queue goes on.                                                      *)

\* After a command has left the queue what waits comes after it.
LEMMA PopOrder ==
    ASSUME IInv, NEW c, Pop(c), ~panicked
    PROVE  /\ last < c.id /\ last <= typed /\ c.id <= typed /\ typed' = typed
           /\ \A k \in 1 .. Len(cmdQueue') : last < cmdQueue'[k].id /\ c.id < cmdQueue'[k].id
<1>1. /\ c.id \in Nat /\ 1 \in 1 .. Len(cmdQueue) /\ c = cmdQueue[1] /\ c.id <= typed
      /\ \A k \in 1 .. Len(cmdQueue') : /\ k + 1 \in 1 .. Len(cmdQueue)
                                        /\ cmdQueue'[k] = cmdQueue[k + 1]
                                        /\ c.id < cmdQueue'[k].id
  BY PopFacts DEF IInv
<1>2. last <= typed /\ \A k \in 1 .. Len(cmdQueue) : last < cmdQueue[k].id
  BY DEF IInv, InOrder
<1> QED  BY <1>1, <1>2 DEF Pop

\* The types of the terminal after a Pop.
LEMMA PopTypes ==
    ASSUME IInv, NEW c, Pop(c),
           main' \in {"select", "queue", "picker"},
           picking' \in Command \union {NoCommand}, fromQueue' \in BOOLEAN, blockingUI' \in BOOLEAN
    PROVE  UiTypes /\ ~Busy /\ main = "queue" /\ typed' = typed /\ typed \in Nat
<1>1. cmdQueue' \in Seq(Command)  BY PopFacts DEF IInv
<1>2. main = "queue" /\ UNCHANGED <<typed, alertCh, pendingAlerts, raised>>
  BY DEF Pop, alertVars
<1>3. ~Busy  BY <1>2 DEF IInv, Flags
<1>4. typed \in Nat  BY BoundAssumption DEF IInv, TypeOK
<1> QED  BY <1>1, <1>2, <1>3, <1>4 DEF IInv, TypeOK, UiTypes

LEMMA QueuePickerInv == ASSUME IInv, NEW c, QueuePicker(c)  PROVE IInv'
<1>1. /\ Pop(c) /\ NothingStarts
      /\ main' = "picker" /\ picking' = c /\ fromQueue' = TRUE /\ blockingUI' = TRUE
  BY DEF QueuePicker, OpenPicker
<1>2. c \in Command /\ c.id \in Id /\ c.id \in Nat /\ work[c.id] = "none"
  BY <1>1, PopFacts DEF IInv
<1>3. UiTypes /\ ~Busy /\ typed' = typed /\ typed \in Nat  BY <1>1, <1>2, PopTypes
<1>4. UNCHANGED <<work, last, panicked>> /\ Busy' = Busy  BY <1>1, NothingKeeps
<1>5. Waits'  BY <1>1, <1>2, <1>4, PopWaits DEF IInv
<1>6. ~panicked => InOrder'
  <2>1. HAVE ~panicked
  <2>2. /\ last < c.id /\ last <= typed
        /\ \A k \in 1 .. Len(cmdQueue') : last < cmdQueue'[k].id /\ c.id < cmdQueue'[k].id
    BY <1>1, <2>1, PopOrder
  <2> QED  BY <1>1, <1>3, <1>4, <2>2 DEF InOrder
<1> QED  BY <1>1, <1>3, <1>5, <1>6, QuietInv

LEMMA QueueStartsInv == ASSUME IInv, NEW c, QueueStarts(c)  PROVE IInv'
<1>1. /\ Pop(c)
      /\ StartDiag(c.id) \/ StartSkill(c.id)
      /\ main' = "select" /\ UNCHANGED <<picking, fromQueue, blockingUI, driver>>
  BY DEF QueueStarts
<1>2. c.id \in Id /\ work[c.id] = "none" /\ c.id <= typed  BY <1>1, PopFacts DEF IInv
<1>3. UiTypes /\ ~Busy /\ typed' = typed /\ typed \in Nat
  BY <1>1, PopTypes DEF IInv, TypeOK
<1>4. \A j \in Id : j # c.id /\ work[j] = "none" => work'[j] = "none"
  BY <1>1 DEF StartDiag, StartSkill, IInv, TypeOK
<1>5. Waits'  BY <1>1, <1>4, PopWaits DEF IInv
<1>6. \A k \in 1 .. Len(cmdQueue') : c.id < cmdQueue'[k].id  BY <1>1, PopFacts DEF IInv
<1>7. c.id <= typed' /\ typed' \in Nat /\ typed <= typed'  BY <1>2, <1>3
<1> QED  BY <1>1, <1>2, <1>3, <1>5, <1>6, <1>7, StartInv

LEMMA QueueSyncInv == ASSUME IInv, NEW c, QueueSync(c)  PROVE IInv'
<1>1. /\ Pop(c) /\ RunSync(c.id) /\ UNCHANGED <<main, picking, fromQueue, blockingUI>>
  BY DEF QueueSync, uiVars
<1>2. c.id \in Id /\ work[c.id] = "none" /\ c.id <= typed  BY <1>1, PopFacts DEF IInv
<1>3. UiTypes /\ ~Busy /\ main = "queue" /\ typed' = typed /\ typed \in Nat
  <2>1. main' = "queue"  BY <1>1 DEF Pop
  <2> QED  BY <1>1, <2>1, PopTypes DEF IInv, TypeOK
<1>4. UNCHANGED <<diagRunning, skillRunning, diagCh, skillCh, work, panicked>> /\ last' = c.id
  BY <1>1 DEF RunSync, busyVars, runVars
<1>5. TypeOK'  BY <1>1, <1>2, <1>3, SyncTypes, Together DEF IInv
<1>6. RunsInv'  BY <1>1, <1>3, SyncRuns DEF IInv, RunsInv
<1>7. Flags'  BY <1>3, <1>4 DEF IInv, Flags, Busy
<1>8. Waits'
  <2>1. main' # "picker"  BY <1>1, <1>3
  <2> QED  BY <1>1, <1>4, <2>1, PopWaits DEF IInv
<1>9. ~panicked => InOrder'
  <2>1. HAVE ~panicked
  <2>2. /\ c.id <= typed /\ \A k \in 1 .. Len(cmdQueue') : c.id < cmdQueue'[k].id
    BY <1>1, <2>1, PopOrder
  <2> QED  BY <1>1, <1>3, <1>4, <2>2 DEF InOrder
<1> QED  BY <1>4, <1>5, <1>6, <1>7, <1>8, <1>9 DEF IInv, RunsInv
\* The command at work changes the connection: it is its own.
LEMMA ReconnectsInv == ASSUME IInv, NEW i \in Id, Reconnects(i)  PROVE IInv'
<1>1. /\ driver' = Other /\ conn' = driver'
      /\ UNCHANGED <<main, picking, fromQueue, blockingUI, diagRunning, skillRunning, diagCh, skillCh,
                     diagCancel, cmdQueue, typed, work, inbox, progress, onProgress, seen,
                     alertCh, pendingAlerts, raised, last, panicked>>
  BY DEF Reconnects, uiVars, busyVars, runVars, alertVars
<1>2. driver' \in {0, 1} /\ conn' \in {0, 1}  BY <1>1 DEF IInv, TypeOK, Other
<1>3. TypeOK'
  <2>1. UiTypes  BY <1>1 DEF IInv, TypeOK, UiTypes
  <2>2. RunTypes  BY <1>1, <1>2 DEF IInv, TypeOK, RunTypes
  <2> QED  BY <2>1, <2>2, Together
<1>4. Flags' /\ AtWork'  BY <1>1 DEF IInv, Flags, AtWork, Busy
<1>5. Results' /\ OwnCallback' /\ Fresh'
  BY <1>1 DEF IInv, Results, OwnCallback, Fresh
<1>6. SameConnection'  BY <1>1 DEF SameConnection
<1>7. Waits'  BY <1>1, WaitsUnmoved DEF IInv
<1>8. panicked' \/ InOrder'  BY <1>1 DEF IInv, InOrder, Busy
<1> QED  BY <1>3, <1>4, <1>5, <1>6, <1>7, <1>8 DEF IInv
-----------------------------------------------------------------------------
(* The invariant.                                                          *)

LEMMA InitInv == Init => IInv
<1> SUFFICES ASSUME Init  PROVE IInv
  OBVIOUS
<1>1. TypeOK
  <2>1. 0 \in 0 .. MaxTyped /\ 0 \in 0 .. MaxProgress /\ 0 \in 0 .. AlertCap /\ 0 \in 0 .. MaxAlerts
    BY BoundAssumption, LimitAssumption
  <2>2. <<>> \in Seq(Command) /\ <<>> \in Seq({"progress", "done"})  OBVIOUS
  <2> QED  BY <2>1, <2>2 DEF Init, TypeOK, Places, DiagPlaces
<1>2. Flags /\ AtWork  BY DEF Init, Flags, AtWork, Busy, Diagnosing
<1>3. Results /\ OwnCallback /\ Fresh /\ SameConnection
  BY DEF Init, Results, OwnCallback, Fresh, SameConnection, Diagnosing, Working
<1>4. cmdQueue = <<>> /\ Len(cmdQueue) = 0 /\ main = "select"  BY DEF Init
<1>5. Waits  BY <1>4 DEF Waits
<1>6. InOrder  BY <1>4 DEF InOrder, Init
<1> QED  BY <1>1, <1>2, <1>3, <1>5, <1>6 DEF IInv

LEMMA NextInv == IInv /\ [Next]_vars => IInv'
<1> SUFFICES ASSUME IInv, [Next]_vars  PROVE IInv'
  OBVIOUS
<1>1. CASE \E c \in Typable : \/ TypePicker(c) \/ TypeStarts(c) \/ TypeSync(c)
                             \/ TypeQueues(c) \/ TypeRefused(c)
  BY <1>1, TypePickerInv, TypeStartsInv, TypeSyncInv, TypeQueuesInv, TypeRefusedInv
<1>2. CASE Key \/ CancelDiag \/ Exit
  BY <1>2, KeyInv, CancelDiagInv, ExitInv
<1>3. CASE PickerCancelled \/ PickerLogin \/ PickerStarts
  BY <1>3, PickerCancelledInv, PickerLoginInv, PickerStartsInv
<1>4. CASE QueueEmpty  BY <1>4, QueueEmptyInv
<1>5. CASE \E c \in Waiting : QueuePicker(c) \/ QueueStarts(c) \/ QueueSync(c)
  BY <1>5, QueuePickerInv, QueueStartsInv, QueueSyncInv
<1>6. CASE \E i \in Id : \/ EmitTest(i) \/ EmitCall(i) \/ EmitDoneTest(i) \/ EmitDoneCall(i)
                        \/ CallNil(i) \/ ClearOnProgress(i) \/ SendDone(i) \/ SkillDone(i)
                        \/ ReturnEarly(i) \/ DispatchPanics(i) \/ Reconnects(i)
  BY <1>6, ReconnectsInv, EmitTestInv, EmitCallInv, EmitDoneTestInv, EmitDoneCallInv, CallNilInv,
     ReturnEarlyInv, ClearOnProgressInv, SendDoneInv, SkillDoneInv, DispatchPanicsInv
<1>7. CASE TakeProgress \/ TakeDiagDone \/ TakeSkillDone \/ TakeSkillRenderPanics
  BY <1>7, TakeProgressInv, TakeDiagDoneInv, TakeSkillInv
<1>8. CASE RaiseAlert \/ TakeAlert  BY <1>8, RaiseAlertInv, TakeAlertInv
<1>9. CASE UNCHANGED vars
  <2>1. UNCHANGED <<main, picking, fromQueue, blockingUI, diagRunning, skillRunning, diagCh, skillCh,
                    diagCancel, cmdQueue, typed, work, inbox, progress, onProgress, seen, driver,
                    alertCh, pendingAlerts, raised, conn, last, panicked>>
    BY <1>9 DEF vars, uiVars, busyVars, runVars, alertVars, history
  <2>2. TypeOK'
    <3>1. UiTypes  BY <2>1 DEF IInv, TypeOK, UiTypes
    <3>2. RunTypes  BY <2>1 DEF IInv, TypeOK, RunTypes
    <3> QED  BY <3>1, <3>2, Together
  <2>3. Flags' /\ AtWork'  BY <2>1 DEF IInv, Flags, AtWork, Busy
  <2>4. Results' /\ OwnCallback' /\ Fresh' /\ SameConnection'
    BY <2>1 DEF IInv, Results, OwnCallback, Fresh, SameConnection
  <2>5. Waits'  BY <2>1, WaitsUnmoved DEF IInv
  <2>6. panicked' \/ InOrder'  BY <2>1 DEF IInv, InOrder, Busy
  <2> QED  BY <2>2, <2>3, <2>4, <2>5, <2>6 DEF IInv
<1> QED  BY <1>1, <1>2, <1>3, <1>4, <1>5, <1>6, <1>7, <1>8, <1>9 DEF Next

LEMMA Invariance == Spec => []IInv
<1>1. Init => IInv  BY InitInv
<1>2. IInv /\ [Next]_vars => IInv'  BY NextInv
<1> QED  BY <1>1, <1>2, PTL DEF Spec

\* The variables keep their types: in particular the queue holds commands
\* that were typed, and the counters stay within their bounds.
THEOREM TypeCorrect == Spec => []TypeOK
<1>1. IInv => TypeOK  BY DEF IInv
<1> QED  BY <1>1, Invariance, PTL

\* At any moment at most one diagnosis or command is at work, and it is the
\* one the terminal waits for, although a diagnosis reports its result before
\* its goroutine is through.
THEOREM WorksOneAtATime == Spec => []OneAtATime
<1>1. IInv => OneAtATime
  <2> SUFFICES ASSUME IInv, NEW i \in Id, work[i] \in Working
               PROVE  /\ Busy
                      /\ i = diagCh \/ i = skillCh
                      /\ \A j \in Id \ {i} : work[j] \notin Working
    BY DEF OneAtATime
  <2>1. \A j \in Id : work[j] \in Working => j = diagCh \/ j = skillCh
    BY DEF IInv, AtWork, Working, Diagnosing
  <2>2. Busy  BY <2>1, IdPositive DEF IInv, Flags, Busy
  <2>3. \A j, k \in Id : ~(j = diagCh /\ k = skillCh)  BY IdPositive DEF IInv, Flags
  <2> QED  BY <2>1, <2>2, <2>3
<1> QED  BY <1>1, Invariance, PTL

\* A diagnosis or command runs on the connection it began with or chose itself:
\* neither what is typed nor another run closes the driver under it.
THEOREM KeepsConnection == Spec => []SameConnection
<1>1. IInv => SameConnection  BY DEF IInv
<1> QED  BY <1>1, Invariance, PTL
\* Only a start and a login are starts; the rest leaves `last' alone.
LEMMA OnlyStartsAreLast ==
    ASSUME Next, last' # last
    PROVE  \/ \E c \in Typable : TypeStarts(c) \/ TypeSync(c)
           \/ PickerLogin \/ PickerStarts
           \/ \E c \in Waiting : QueueStarts(c) \/ QueueSync(c)
<1>1. ~NothingStarts  BY DEF NothingStarts, history
<1>2. ASSUME NEW c \in Typable  PROVE ~TypePicker(c) /\ ~TypeQueues(c) /\ ~TypeRefused(c)
  BY <1>1 DEF TypePicker, TypeQueues, TypeRefused
<1>3. ~Key /\ ~CancelDiag /\ ~Exit /\ ~PickerCancelled /\ ~QueueEmpty /\ ~RaiseAlert /\ ~TakeAlert
  BY <1>1 DEF Key, CancelDiag, Exit, PickerCancelled, QueueEmpty, RaiseAlert, TakeAlert, history
<1>4. \A c \in Waiting : ~QueuePicker(c)  BY <1>1 DEF QueuePicker
<1>5. ~Aside  BY DEF Aside
<1>6. \A i \in Id : /\ ~EmitTest(i) /\ ~EmitCall(i) /\ ~EmitDoneTest(i) /\ ~EmitDoneCall(i)
                    /\ ~CallNil(i) /\ ~ClearOnProgress(i) /\ ~SendDone(i) /\ ~SkillDone(i)
                    /\ ~ReturnEarly(i) /\ ~DispatchPanics(i) /\ ~Reconnects(i)
  BY <1>5 DEF Reconnects, EmitTest, EmitCall, EmitDoneTest, EmitDoneCall, CallNil, ReturnEarly,
              ClearOnProgress, SendDone, SkillDone, DispatchPanics
<1>7. ~TakeProgress /\ ~TakeDiagDone /\ ~TakeSkillDone /\ ~TakeSkillRenderPanics
  BY DEF TakeProgress, TakeDiagDone, TakeSkillDone, TakeSkillRenderPanics, history
<1> QED  BY <1>2, <1>3, <1>4, <1>6, <1>7 DEF Next

\* Commands start in the order they were typed in, whether they started at
\* once, waited in the queue or went through a picker, as long as nothing
\* panicked.
THEOREM InTypedOrder == Spec => TypedOrder
<1> DEFINE Ordered == last' # last => (last' > last \/ panicked)
<1>1. ASSUME IInv, [Next]_vars  PROVE Ordered
  <2> SUFFICES ASSUME last' # last, ~panicked  PROVE last' > last
    OBVIOUS
  <2>1. Next  BY <1>1 DEF vars, history
  <2>2. /\ last \in Nat /\ typed \in Nat /\ last <= typed
        /\ main = "picker" => last < picking.id
    BY <1>1, IdPositive, BoundAssumption DEF IInv, InOrder, TypeOK
  <2>3. CASE \E c \in Typable : TypeStarts(c) \/ TypeSync(c)
    <3>1. PICK c \in Typable : TypeStarts(c) \/ TypeSync(c)  BY <2>3
    <3>2. c.id = typed + 1  BY <3>1 DEF TypeStarts, TypeSync, Typed
    <3>3. last' = c.id  BY <3>1 DEF TypeStarts, TypeSync, RunSync, StartDiag, StartSkill
    <3> QED  BY <2>2, <3>2, <3>3
  <2>4. CASE PickerLogin \/ PickerStarts
    <3>1. last' = picking.id /\ main = "picker"
      BY <2>4 DEF PickerLogin, PickerStarts, PickerDone, RunSync, StartDiag, StartSkill
    <3> QED  BY <2>2, <3>1
  <2>5. CASE \E c \in Waiting : QueueStarts(c) \/ QueueSync(c)
    <3>1. PICK c \in Waiting : QueueStarts(c) \/ QueueSync(c)  BY <2>5
    <3>2. Pop(c) /\ last' = c.id
      BY <3>1 DEF QueueStarts, QueueSync, StartDiag, StartSkill, RunSync
    <3>3. last < c.id  BY <1>1, <3>2, PopOrder
    <3> QED  BY <3>2, <3>3
  <2> QED  BY <2>1, <2>3, <2>4, <2>5, OnlyStartsAreLast
<1>2. IInv /\ [Next]_vars => [Ordered]_vars  BY <1>1
<1> QED  BY <1>2, Invariance, PTL DEF Spec, TypedOrder
-----------------------------------------------------------------------------
(* The terminal implements Terminal.                                       *)

Atwork == {i \in Id : work[i] \in Working}

\* An idle terminal has nothing at work.
LEMMA IdleSet ==
    ASSUME IInv, ~Busy
    PROVE  Atwork = {}
  BY IdleMeansNoWork DEF IInv, Atwork

\* Whoever is at work is alone.
LEMMA WorksAlone ==
    ASSUME IInv, NEW i \in Id, work[i] \in Working
    PROVE  Atwork = {i}
<1>1. \A j \in Id : work[j] \in Working => j = diagCh \/ j = skillCh
  BY DEF IInv, AtWork, Working, Diagnosing
<1>2. \A j, k \in Id : ~(j = diagCh /\ k = skillCh)  BY IdPositive DEF IInv, Flags
<1>3. \A j \in Id : work[j] \in Working => j = i  BY <1>1, <1>2
<1> QED  BY <1>3 DEF Atwork

\* In an idle terminal, a command that starts is then the one at work.
LEMMA StartsAlone ==
    ASSUME IInv, ~Busy, NEW i \in Id, StartDiag(i) \/ StartSkill(i)
    PROVE  Atwork = {} /\ Atwork' = {i} /\ panicked' = panicked
<1>1. \A j \in Id : work[j] \notin Working  BY IdleSet DEF Atwork
<1>2. work \in [Id -> Places]  BY DEF IInv, TypeOK
<1>3. PICK place \in {"diag", "skill"} : work' = [work EXCEPT ![i] = place]
  BY DEF StartDiag, StartSkill
<1>4. \A j \in Id : work'[j] = IF j = i THEN place ELSE work[j]  BY <1>2, <1>3
<1>5. {"diag", "skill"} \subseteq Working  BY DEF Working
<1>6. Atwork' = {i}  BY <1>1, <1>3, <1>4, <1>5 DEF Atwork
<1> QED  BY <1>6, IdleSet DEF StartDiag, StartSkill

\* A picker is open only for a command that asks something.
Asked == main = "picker" => picking.kind \in PickerWhenTyped

LEMMA AskedNext == Asked /\ [Next]_vars => Asked'
<1> SUFFICES ASSUME Asked, [Next]_vars  PROVE Asked'
  OBVIOUS
<1>1. CASE UNCHANGED <<main, picking>>
  BY <1>1 DEF Asked
<1>2. ASSUME main' # "picker"  PROVE Asked'
  BY <1>2 DEF Asked
<1>3. CASE UNCHANGED vars
  BY <1>1, <1>3 DEF vars, uiVars
<1>4. ASSUME NEW c \in Typable, TypePicker(c)  PROVE Asked'
  BY <1>4 DEF TypePicker, OpenPicker, Asked
<1>5. ASSUME NEW c \in Typable, TypeStarts(c) \/ TypeSync(c) \/ TypeQueues(c) \/ TypeRefused(c)
      PROVE  Asked'
  BY <1>5, <1>1 DEF TypeStarts, TypeSync, TypeQueues, TypeRefused
<1>6. CASE Key \/ CancelDiag \/ RaiseAlert \/ TakeAlert \/ TakeProgress \/ TakeSkillRenderPanics
  BY <1>6, <1>1 DEF Key, CancelDiag, RaiseAlert, TakeAlert, TakeProgress,
     TakeSkillRenderPanics, uiVars
<1>7. CASE Exit \/ QueueEmpty \/ TakeDiagDone \/ TakeSkillDone
  BY <1>7, <1>2 DEF Exit, QueueEmpty, TakeDiagDone, TakeSkillDone
<1>8. CASE PickerCancelled \/ PickerLogin \/ PickerStarts
  BY <1>8, <1>2 DEF PickerCancelled, PickerLogin, PickerStarts, PickerDone
<1>9. ASSUME NEW c \in Waiting, QueuePicker(c)  PROVE Asked'
  BY <1>9 DEF QueuePicker, OpenPicker, Asked, PickerWhenQueued, PickerWhenTyped
<1>10. ASSUME NEW c \in Waiting, QueueStarts(c) \/ QueueSync(c)  PROVE Asked'
  <2>1. main' # "picker"  BY <1>10 DEF QueueStarts, QueueSync, Pop, uiVars
  <2> QED  BY <2>1, <1>2
<1>11. ASSUME NEW i \in Id, Run(i) \/ DispatchPanics(i)  PROVE Asked'
  <2>1. Aside
    BY <1>11 DEF Run, EmitTest, EmitCall, EmitDoneTest, EmitDoneCall, CallNil, ReturnEarly,
       ClearOnProgress, SendDone, SkillDone, DispatchPanics
  <2> QED  BY <2>1, <1>1 DEF Aside, uiVars
<1>12. ASSUME NEW i \in Id, Reconnects(i)  PROVE Asked'
  BY <1>12, <1>1 DEF Reconnects, uiVars
<1> QED  BY <1>3, <1>4, <1>5, <1>6, <1>7, <1>8, <1>9, <1>10, <1>11, <1>12 DEF Next, Run

\* What waits may be seen as a sequence of commands.
LEMMA PendingSeq ==
    ASSUME IInv
    PROVE  /\ cmdQueue \in Seq(Command)
           /\ main = "picker" => /\ picking \in Command
                                 /\ Pending # <<>>
                                 /\ Head(Pending) = picking /\ Tail(Pending) = cmdQueue
           /\ main # "picker" => Pending = cmdQueue
<1>1. cmdQueue \in Seq(Command)  BY DEF IInv, TypeOK
<1>2. CASE main = "picker"
  <2>1. picking \in Command  BY <1>2 DEF IInv, Waits
  <2>2. Pending = <<picking>> \o cmdQueue  BY <1>2 DEF Pending
  <2> QED  BY <1>1, <1>2, <2>1, <2>2
<1> QED  BY <1>1, <1>2 DEF Pending

\* A step that neither starts nor ends a command nor touches what waits.
LEMMA Unseen ==
    ASSUME UNCHANGED <<typed, driver, panicked, Pending>>,
           \A i \in Id : work'[i] \in Working <=> work[i] \in Working
    PROVE  UNCHANGED Promise!vars
  BY DEF Promise!vars

\* Steps of the terminal that start nothing.
LEMMA NothingSeen ==
    ASSUME NothingStarts, UNCHANGED <<typed, Pending>>
    PROVE  UNCHANGED Promise!vars
<1>1. UNCHANGED <<work, driver, panicked>>  BY DEF NothingStarts, runVars, history
<1> QED  BY <1>1, Unseen

\* Keys that a command ends with.
LEMMA TypingServes ==
    ASSUME IInv, NEW c \in Typable,
           TypePicker(c) \/ TypeStarts(c) \/ TypeSync(c) \/ TypeQueues(c) \/ TypeRefused(c)
    PROVE  Promise!Next
<1>1. /\ Typed(c) /\ c \in Command /\ c.id \in Id /\ main = "select"
      /\ cmdQueue \in Seq(Command) /\ Pending = cmdQueue
  BY TypedFacts, PendingSeq DEF IInv, TypePicker, TypeStarts, TypeSync, TypeQueues, TypeRefused
<1>2. Promise!Type(c)  BY <1>1 DEF Typed, Promise!Type
<1>3. ASSUME TypePicker(c)
      PROVE  Promise!Wait(c) \/ Promise!Overtake(c)
  <2>1. Atwork = {}  BY <1>3, IdleSet DEF TypePicker
  <2>2. UNCHANGED <<work, driver, panicked>>
    BY <1>3 DEF TypePicker, NothingStarts, runVars, history
  <2>3. Atwork' = Atwork  BY <2>2 DEF Atwork
  <2>4. Pending' = <<c>> \o cmdQueue
    BY <1>3 DEF TypePicker, OpenPicker, Pending
  <2>5. CASE panicked
    BY <1>1, <1>2, <2>1, <2>2, <2>3, <2>4, <2>5 DEF Promise!Overtake, Atwork
  <2>6. CASE ~panicked
    <3>1. cmdQueue = <<>>  BY <1>1, <1>3, <2>6 DEF IInv, InOrder, TypePicker
    <3>2. Pending' = Append(Pending, c)  BY <1>1, <2>4, <3>1
    <3> QED  BY <1>2, <2>2, <2>3, <3>2 DEF Promise!Wait, Atwork
  <2> QED  BY <2>5, <2>6
<1>4. ASSUME TypeStarts(c)
      PROVE  Promise!BeginAtOnce(c)
  <2>1. ~Busy /\ main' = main /\ cmdQueue' = cmdQueue /\ driver' = driver
        /\ (StartDiag(c.id) \/ StartSkill(c.id))
    BY <1>4 DEF TypeStarts
  <2>2. Atwork = {} /\ Atwork' = {c.id} /\ panicked' = panicked
    BY <1>1, <2>1, StartsAlone
  <2>3. panicked \/ cmdQueue = <<>>  BY <1>1, <2>1 DEF IInv, InOrder
  <2>4. Pending' = Pending  BY <1>1, <2>1 DEF Pending
  <2> QED  BY <1>1, <1>2, <2>1, <2>2, <2>3, <2>4 DEF Promise!BeginAtOnce, Atwork
<1>5. ASSUME TypeQueues(c) \/ TypeRefused(c)
      PROVE  UNCHANGED <<work, driver, panicked, main>>
  BY <1>5 DEF TypeQueues, TypeRefused, NothingStarts, runVars, history
<1>6. ASSUME TypeQueues(c)
      PROVE  Promise!Wait(c)
  <2>1. Pending' = Append(Pending, c)  BY <1>1, <1>5, <1>6 DEF TypeQueues, Pending
  <2> QED  BY <1>2, <1>5, <1>6, <2>1 DEF Promise!Wait
<1>7. ASSUME TypeRefused(c)
      PROVE  Promise!Refuse(c)
  <2>1. Pending' = Pending  BY <1>1, <1>5, <1>7 DEF TypeRefused, Pending
  <2>2. c \in [id : Id, kind : Limited] /\ Len(cmdQueue) >= DiagLimit
    BY <1>1, <1>7 DEF TypeRefused, Command
  <2> QED  BY <1>1, <1>2, <1>5, <1>7, <2>1, <2>2 DEF Promise!Refuse
<1>8. ASSUME TypeSync(c)
      PROVE  Promise!DoAtOnce(c)
  <2>1. /\ ~Busy /\ main' = main /\ cmdQueue' = cmdQueue
        /\ UNCHANGED <<work, panicked>> /\ driver' \in {driver, 1 - driver}
    BY <1>8 DEF TypeSync, RunSync, runVars, Other
  <2>2. Atwork = {} /\ Atwork' = Atwork  BY <2>1, IdleSet DEF Atwork
  <2>3. panicked \/ cmdQueue = <<>>  BY <1>1, <2>1 DEF IInv, InOrder
  <2>4. Pending' = Pending  BY <1>1, <2>1 DEF Pending
  <2>5. c \in [id : Id, kind : PickerWhenTyped \union Sync]
    BY <1>1, <1>8 DEF TypeSync, Command
  <2> QED  BY <1>1, <1>2, <2>1, <2>2, <2>3, <2>4, <2>5
           DEF Promise!DoAtOnce, Promise!Other, Atwork
<1> QED  BY <1>1, <1>3, <1>4, <1>6, <1>7, <1>8 DEF Promise!Next

\* The picker's command begins or leaves.
LEMMA PickerServes ==
    ASSUME IInv, Asked, PickerCancelled \/ PickerLogin \/ PickerStarts
    PROVE  Promise!Next
<1>1. /\ main = "picker" /\ main' # "picker" /\ UNCHANGED <<cmdQueue, typed>>
  BY DEF PickerCancelled, PickerLogin, PickerStarts, PickerDone
<1>2. /\ picking \in Command /\ Pending # <<>> /\ Head(Pending) = picking
      /\ Tail(Pending) = cmdQueue
  BY <1>1, PendingSeq
<1>3. Pending' = Tail(Pending)  BY <1>1, <1>2 DEF Pending
<1>4. ~Busy /\ Atwork = {}  BY <1>1, IdleSet DEF IInv, Flags
<1>5. Promise!FirstGoes  BY <1>2, <1>3, <1>4 DEF Promise!FirstGoes, Atwork
<1>6. ASSUME PickerCancelled \/ PickerLogin
      PROVE  Promise!Leave
  <2>1. UNCHANGED <<work, panicked>> /\ driver' \in {driver, Other}
    BY <1>6 DEF PickerCancelled, PickerLogin, NothingStarts, RunSync, runVars, history
  <2>2. picking.kind \in PickerWhenTyped
    BY <1>1 DEF Asked
  <2> QED  BY <1>1, <1>2, <1>5, <2>1, <2>2 DEF Promise!Leave, Promise!Other, Other, Command
<1>7. ASSUME PickerStarts
      PROVE  Promise!Begin
  <2>1. (StartDiag(picking.id) \/ StartSkill(picking.id)) /\ driver' = driver
    BY <1>7 DEF PickerStarts
  <2>2. picking.id \in Id  BY <1>2 DEF Command
  <2>3. Atwork' = {picking.id} /\ panicked' = panicked  BY <1>4, <2>1, <2>2, StartsAlone
  <2> QED  BY <1>1, <1>2, <1>5, <2>1, <2>3 DEF Promise!Begin, Atwork
<1> QED  BY <1>6, <1>7 DEF Promise!Next

\* The queue goes on: the first command begins, logs in, or opens a picker
\* and is still the first that waits.
LEMMA QueueServes ==
    ASSUME IInv, NEW c, QueuePicker(c) \/ QueueStarts(c) \/ QueueSync(c)
    PROVE  Promise!Next \/ UNCHANGED Promise!vars
<1>1. /\ Pop(c) /\ main = "queue" /\ cmdQueue # <<>> /\ c = Head(cmdQueue)
      /\ cmdQueue' = Tail(cmdQueue) /\ typed' = typed
  BY DEF QueuePicker, QueueStarts, QueueSync, Pop
<1>2. /\ cmdQueue \in Seq(Command) /\ Pending = cmdQueue /\ c \in Command /\ c.id \in Id
  BY <1>1, PendingSeq, PopFacts DEF IInv
<1>3. ~Busy /\ Atwork = {}  BY <1>1, IdleSet DEF IInv, Flags
<1>4. CASE QueuePicker(c)
  <2>1. Pending' = <<c>> \o Tail(cmdQueue)
    BY <1>1, <1>4 DEF QueuePicker, OpenPicker, Pending
  <2>2. Pending' = cmdQueue
    <3>1. Tail(cmdQueue) \in Seq(Command) /\ Len(Tail(cmdQueue)) = Len(cmdQueue) - 1
          /\ \A k \in 1 .. Len(Tail(cmdQueue)) : Tail(cmdQueue)[k] = cmdQueue[k + 1]
      BY <1>1, <1>2, HeadTailProperties
    <3>2. <<c>> \in Seq(Command) /\ Len(<<c>>) = 1 /\ <<c>>[1] = c  BY <1>2
    <3>3. /\ Pending' \in Seq(Command) /\ Len(Pending') = Len(cmdQueue)
          /\ \A k \in 1 .. Len(Pending') :
               Pending'[k] = IF k <= 1 THEN c ELSE Tail(cmdQueue)[k - 1]
      BY <2>1, <3>1, <3>2, <1>2, ConcatProperties
    <3>4. \A k \in 1 .. Len(Pending') : Pending'[k] = cmdQueue[k]
      BY <1>1, <1>2, <3>1, <3>3
    <3> QED  BY <1>2, <3>3, <3>4, SeqEqual
  <2> QED  BY <1>1, <1>2, <1>4, <2>2, NothingSeen DEF QueuePicker
<1>5. ASSUME QueueStarts(c) \/ QueueSync(c)
      PROVE  Promise!FirstGoes
  <2>1. main' # "picker"  BY <1>1, <1>5 DEF QueueStarts, QueueSync, uiVars
  <2>2. Pending' = Tail(Pending)  BY <1>1, <1>2, <2>1 DEF Pending
  <2> QED  BY <1>1, <1>2, <1>3, <2>2 DEF Promise!FirstGoes, Atwork
<1>6. ASSUME QueueStarts(c)
      PROVE  Promise!Begin
  <2>1. (StartDiag(c.id) \/ StartSkill(c.id)) /\ driver' = driver
    BY <1>6 DEF QueueStarts
  <2>2. Atwork' = {c.id} /\ panicked' = panicked  BY <1>2, <1>3, <2>1, StartsAlone
  <2> QED  BY <1>1, <1>2, <1>5, <1>6, <2>1, <2>2 DEF Promise!Begin, Atwork
<1>7. ASSUME QueueSync(c)
      PROVE  Promise!Leave
  <2>1. UNCHANGED <<work, panicked>> /\ driver' \in {driver, Other}
    BY <1>7 DEF QueueSync, RunSync, runVars
  <2>2. c \in [id : Id, kind : PickerWhenTyped \union Sync]
    BY <1>2, <1>7 DEF QueueSync, Command
  <2> QED  BY <1>1, <1>2, <1>5, <1>7, <2>1, <2>2 DEF Promise!Leave, Promise!Other, Other
<1> QED  BY <1>4, <1>6, <1>7 DEF Promise!Next

\* A goroutine's step ends its run, panics, or is not seen.
LEMMA RunServes ==
    ASSUME IInv, NEW i \in Id, Run(i) \/ DispatchPanics(i)
    PROVE  Promise!Next \/ UNCHANGED Promise!vars
<1>1. Aside
  BY DEF Run, EmitTest, EmitCall, EmitDoneTest, EmitDoneCall, CallNil, ReturnEarly,
     ClearOnProgress, SendDone, SkillDone, DispatchPanics
<1>2. UNCHANGED <<typed, driver, Pending>>  BY <1>1 DEF Aside, uiVars, Pending
<1>3. PICK place \in Places : GoTo(i, place) /\ (place = "panicked" => panicked')
                             /\ (place # "panicked" => panicked' = panicked)
  BY DEF Run, EmitTest, EmitCall, EmitDoneTest, EmitDoneCall, CallNil, ReturnEarly,
     ClearOnProgress, SendDone, SkillDone, DispatchPanics, Panics, Places, DiagPlaces
<1>4. work \in [Id -> Places]  BY DEF IInv, TypeOK
<1>5. \A j \in Id : work'[j] = IF j = i THEN place ELSE work[j]  BY <1>3, <1>4 DEF GoTo
<1>6. place \in Working => work[i] \in Working
  BY <1>3, <1>4 DEF Run, EmitTest, EmitCall, EmitDoneTest, EmitDoneCall, CallNil, ReturnEarly,
     ClearOnProgress, SendDone, SkillDone, DispatchPanics, Panics, GoTo, At, Working
<1>7. CASE place \notin Working /\ work[i] \in Working
  <2>1. Atwork = {i}  BY <1>7, WorksAlone
  <2>2. Atwork' = {}  BY <1>5, <1>7, <2>1 DEF Atwork
  <2>3. CASE place = "panicked"
    BY <1>2, <1>3, <2>2, <2>3 DEF Promise!Next, Promise!Panic, Atwork
  <2>4. CASE place # "panicked"
    BY <1>2, <1>3, <2>1, <2>2, <2>4 DEF Promise!Next, Promise!End, Atwork
  <2> QED  BY <2>3, <2>4
<1>8. CASE place \in Working \/ work[i] \notin Working
  <2>1. \A j \in Id : work'[j] \in Working <=> work[j] \in Working  BY <1>5, <1>6, <1>8
  <2>2. Atwork' = Atwork  BY <2>1 DEF Atwork
  <2>3. CASE place = "panicked"
    BY <1>2, <1>3, <2>2, <2>3 DEF Promise!Next, Promise!Panic, Atwork
  <2>4. CASE place # "panicked"
    BY <1>2, <1>3, <2>1, <2>4, Unseen
  <2> QED  BY <2>3, <2>4
<1> QED  BY <1>7, <1>8

\* A command at work connects elsewhere.
LEMMA ReconnectsServes ==
    ASSUME IInv, NEW i \in Id, Reconnects(i)
    PROVE  Promise!Reconnect
<1>1. UNCHANGED <<typed, work, panicked, main, picking, cmdQueue>> /\ driver' = 1 - driver
  BY DEF Reconnects, uiVars, runVars, Other
<1>2. Pending' = Pending /\ Atwork' = Atwork  BY <1>1 DEF Pending, Atwork
<1>3. Atwork # {}  BY DEF Reconnects, Atwork
<1> QED  BY <1>1, <1>2, <1>3 DEF Promise!Reconnect, Promise!Other, Atwork

\* What the terminal takes from its channels ends nothing: the runs ended
\* before.
LEMMA TakeServes ==
    ASSUME IInv, TakeProgress \/ TakeDiagDone \/ TakeSkillDone \/ TakeSkillRenderPanics
    PROVE  Promise!Next \/ UNCHANGED Promise!vars
<1>1. UNCHANGED <<work, typed, driver, cmdQueue>> /\ main = "select" /\ main' # "picker"
  BY DEF TakeProgress, TakeDiagDone, TakeSkillDone, TakeSkillRenderPanics, uiVars
<1>2. Pending' = Pending  BY <1>1 DEF Pending
<1>3. CASE TakeSkillRenderPanics
  <2>1. panicked' = TRUE  BY <1>3 DEF TakeSkillRenderPanics
  <2>2. Atwork' = Atwork  BY <1>1 DEF Atwork
  <2> QED  BY <1>1, <1>2, <2>1, <2>2 DEF Promise!Next, Promise!Panic, Atwork
<1>4. CASE TakeProgress \/ TakeDiagDone \/ TakeSkillDone
  <2>1. panicked' = panicked
    BY <1>4 DEF TakeProgress, TakeDiagDone, TakeSkillDone, history
  <2> QED  BY <1>1, <1>2, <2>1, Unseen
<1> QED  BY <1>3, <1>4

\* Everything else is not seen by who waits for commands.
LEMMA OthersServe ==
    ASSUME IInv, Key \/ CancelDiag \/ Exit \/ QueueEmpty \/ RaiseAlert \/ TakeAlert
    PROVE  UNCHANGED Promise!vars
<1>1. UNCHANGED <<work, typed, driver, cmdQueue, panicked>>
  BY DEF Key, CancelDiag, Exit, QueueEmpty, RaiseAlert, TakeAlert, NothingStarts, runVars,
     history
<1>2. Pending' = Pending
  BY <1>1 DEF Key, CancelDiag, Exit, QueueEmpty, RaiseAlert, TakeAlert, uiVars, Pending
<1> QED  BY <1>1, <1>2, Unseen

LEMMA NextServes ==
    ASSUME IInv, Asked, [Next]_vars
    PROVE  [Promise!Next]_Promise!vars
<1>1. CASE UNCHANGED vars
  BY <1>1, Unseen DEF vars, uiVars, runVars, history, Pending
<1>2. CASE Next
  <2>1. (\E i \in Id : Reconnects(i)) => Promise!Next
    BY ReconnectsServes DEF Promise!Next
  <2> QED
    BY <1>2, <2>1, TypingServes, PickerServes, QueueServes, RunServes, TakeServes, OthersServe
    DEF Next, Run
<1> QED  BY <1>1, <1>2

\* Repl implements Terminal: in every interleaving of typing, goroutines,
\* results, pickers and panics, commands are begun one at a time, in turn,
\* each at most once, and none is forgotten.
THEOREM ImplementsTerminal == Spec => ServesInTurn
<1>1. Init => Promise!Init /\ Asked
  <2> SUFFICES ASSUME Init  PROVE Promise!Init /\ Asked
    OBVIOUS
  <2>1. \A i \in Id : work[i] \notin Working  BY DEF Init, Working
  <2> QED  BY <2>1 DEF Init, Promise!Init, Pending, Asked
<1>2. IInv /\ Asked /\ [Next]_vars => [Promise!Next]_Promise!vars
  BY NextServes
<1> QED  BY <1>1, <1>2, AskedNext, Invariance, PTL DEF Spec, ServesInTurn, Promise!Spec
-----------------------------------------------------------------------------
(* What BusyEnds, QueueDrains and HeldIsShown rest on: whatever waits,     *)
(* waits for something that is still to come.                              *)

\* A busy terminal reads its channels, and its command is not through or its
\* result is in the channel: it waits for nobody who has gone.
ResultDue ==
    ~panicked =>
      /\ Busy => main \in {"select", "exited"}
      /\ diagRunning => \/ work[diagCh] \in DiagPlaces
                        \/ \E k \in 1 .. Len(inbox[diagCh]) : inbox[diagCh][k] = "done"
      /\ skillRunning => \/ work[skillCh] = "skill"
                         \/ inbox[skillCh] # <<>>

\* Alerts are held only while something runs or blocks.
HeldForReason == pendingAlerts > 0 /\ ~panicked => Busy \/ blockingUI

\* The steps that neither take from a channel nor move a goroutine.
LEMMA DueKept ==
    ASSUME IInv, ResultDue, panicked' = panicked, UNCHANGED <<busyVars, work, inbox>>
    PROVE  (Busy' => main' \in {"select", "exited"}) => ResultDue'
  BY DEF ResultDue, busyVars

LEMMA DueStart ==
    ASSUME IInv, NEW i \in Id, ~Busy, StartDiag(i) \/ StartSkill(i), main' = "select"
    PROVE  ResultDue'
<1>1. work \in [Id -> Places]  BY DEF IInv, TypeOK
<1>2. CASE StartDiag(i)
  <2>1. diagCh' = i /\ ~skillRunning' /\ work'[i] = "diag"
    BY <1>1, <1>2 DEF StartDiag, Busy
  <2> QED  BY <2>1 DEF ResultDue, DiagPlaces
<1>3. CASE StartSkill(i)
  <2>1. skillCh' = i /\ ~diagRunning' /\ work'[i] = "skill"
    BY <1>1, <1>3 DEF StartSkill, Busy
  <2> QED  BY <2>1 DEF ResultDue
<1> QED  BY <1>2, <1>3

\* An event that is added to a channel leaves those before it there.
LEMMA SendKeeps ==
    ASSUME IInv, NEW i \in Id, NEW e \in {"progress", "done"}, Send(i, e)
    PROVE  /\ \A j \in Id : inbox[j] # <<>> => inbox'[j] # <<>>
           /\ \A j \in Id : (\E k \in 1 .. Len(inbox[j]) : inbox[j][k] = "done") =>
                             \E k \in 1 .. Len(inbox'[j]) : inbox'[j][k] = "done"
           /\ e = "done" => \E k \in 1 .. Len(inbox'[i]) : inbox'[i][k] = "done"
<1>1. inbox \in [Id -> Seq({"progress", "done"})]  BY DEF IInv, TypeOK
<1>2. /\ \A j \in Id \ {i} : inbox'[j] = inbox[j]
      /\ inbox'[i] = Append(inbox[i], e)
  BY <1>1 DEF Send
<1>3. inbox[i] \in Seq({"progress", "done"})  BY <1>1
<1>4. /\ Len(inbox'[i]) = Len(inbox[i]) + 1 /\ Len(inbox[i]) \in Nat
      /\ inbox'[i][Len(inbox[i]) + 1] = e
      /\ \A k \in 1 .. Len(inbox[i]) : inbox'[i][k] = inbox[i][k]
      /\ inbox'[i] # <<>>
  BY <1>2, <1>3
<1>5. \A k \in 1 .. Len(inbox[i]) : k \in 1 .. Len(inbox'[i])  BY <1>4
<1>6. Len(inbox[i]) + 1 \in 1 .. Len(inbox'[i])  BY <1>4
<1> QED  BY <1>2, <1>4, <1>5, <1>6

\* A goroutine's step: only its last send, or a panic, takes it away.
LEMMA DueRun ==
    ASSUME IInv, ResultDue, NEW i \in Id, Run(i) \/ DispatchPanics(i)
    PROVE  ResultDue'
<1>1. Aside
  BY DEF Run, EmitTest, EmitCall, EmitDoneTest, EmitDoneCall, CallNil, ReturnEarly,
     ClearOnProgress, SendDone, SkillDone, DispatchPanics
<1>2. UNCHANGED <<main, diagRunning, skillRunning, diagCh, skillCh>>
  BY <1>1 DEF Aside, uiVars, busyVars
<1>3. /\ work \in [Id -> Places] /\ diagCh \in Id \union {0} /\ skillCh \in Id \union {0}
      /\ inbox \in [Id -> Seq({"progress", "done"})]
      /\ diagRunning => diagCh \in Id
      /\ skillRunning => skillCh \in Id
  BY IdPositive DEF IInv, TypeOK, Flags
<1>4. SUFFICES ASSUME ~panicked'  PROVE ResultDue'
  BY DEF ResultDue
<1>5. ~CallNil(i) /\ ~DispatchPanics(i)
  BY <1>4 DEF CallNil, DispatchPanics, Panics
<1>6. ~panicked /\ panicked' = panicked
  BY <1>4, <1>5 DEF Run, EmitTest, EmitCall, EmitDoneTest, EmitDoneCall, ReturnEarly,
     ClearOnProgress, SendDone, SkillDone
<1>7. CASE SkillDone(i)
  <2>1. work[i] = "skill" /\ \A j \in Id \ {i} : work'[j] = work[j] /\ inbox'[j] = inbox[j]
    BY <1>3, <1>7 DEF SkillDone, At, GoTo
  <2>2. inbox'[i] # <<>>  BY <1>3, <1>7 DEF SkillDone
  <2>3. skillCh = i  BY <2>1 DEF IInv, AtWork
  <2>4. ~diagRunning  BY <2>3, <1>3, IdPositive DEF IInv, Flags
  <2> QED  BY <1>2, <1>6, <2>2, <2>3, <2>4 DEF ResultDue, Busy
<1>8. CASE SendDone(i)
  <2>1. /\ Send(i, "done") /\ work[i] = "sending"
        /\ \A j \in Id \ {i} : work'[j] = work[j]
    BY <1>3, <1>8 DEF SendDone, At, GoTo
  <2>2. diagRunning => \/ work'[diagCh] \in DiagPlaces
                       \/ \E k \in 1 .. Len(inbox'[diagCh]) : inbox'[diagCh][k] = "done"
    BY <1>3, <1>6, <2>1, SendKeeps DEF ResultDue
  <2>3. skillRunning => work'[skillCh] = "skill" \/ inbox'[skillCh] # <<>>
    BY <1>3, <1>6, <2>1, SendKeeps DEF ResultDue
  <2> QED  BY <1>2, <1>6, <2>2, <2>3 DEF ResultDue, Busy
<1>9. CASE EmitTest(i) \/ EmitCall(i) \/ EmitDoneTest(i) \/ EmitDoneCall(i)
           \/ ReturnEarly(i) \/ ClearOnProgress(i)
  <2>1. /\ work[i] \in DiagPlaces /\ work'[i] \in DiagPlaces
        /\ \A j \in Id \ {i} : work'[j] = work[j]
    <3>1. work[i] \in DiagPlaces
      BY <1>9 DEF EmitTest, EmitCall, EmitDoneTest, EmitDoneCall, ReturnEarly,
         ClearOnProgress, At, DiagPlaces
    <3>2. CASE EmitTest(i) \/ EmitDoneTest(i)
      <4>1. GoTo(i, "diag") \/ GoTo(i, "calling") \/ GoTo(i, "returned") \/ GoTo(i, "callingDone")
        BY <3>2 DEF EmitTest, EmitDoneTest
      <4> QED  BY <1>3, <3>1, <4>1 DEF GoTo, DiagPlaces
    <3>3. CASE EmitCall(i) \/ EmitDoneCall(i) \/ ReturnEarly(i) \/ ClearOnProgress(i)
      <4>1. GoTo(i, "diag") \/ GoTo(i, "returned") \/ GoTo(i, "sending")
        BY <3>3 DEF EmitCall, EmitDoneCall, ReturnEarly, ClearOnProgress
      <4> QED  BY <1>3, <3>1, <4>1 DEF GoTo, DiagPlaces
    <3> QED  BY <1>9, <3>2, <3>3
  <2>2. \/ UNCHANGED inbox
        \/ \E j \in Callbacks(i) : Send(j, "progress") \/ Send(j, "done")
    <3>1. CASE EmitTest(i) \/ EmitDoneTest(i) \/ ReturnEarly(i) \/ ClearOnProgress(i)
      BY <3>1 DEF EmitTest, EmitDoneTest, ReturnEarly, ClearOnProgress
    <3>2. CASE EmitCall(i)
      BY <3>2 DEF EmitCall
    <3>3. CASE EmitDoneCall(i)
      BY <3>3 DEF EmitDoneCall
    <3> QED  BY <1>9, <3>1, <3>2, <3>3
  <2>3. Callbacks(i) \subseteq Id
    <3>1. onProgress \in Id \union {0} /\ seen[i] \in Id \union {0}
      BY DEF IInv, TypeOK
    <3> QED  BY <3>1 DEF Callbacks
  <2>4. /\ \A j \in Id : inbox[j] # <<>> => inbox'[j] # <<>>
        /\ \A j \in Id : (\E k \in 1 .. Len(inbox[j]) : inbox[j][k] = "done") =>
                          \E k \in 1 .. Len(inbox'[j]) : inbox'[j][k] = "done"
    BY <2>2, <2>3, SendKeeps
  <2>5. \A j \in Id : work[j] \in DiagPlaces => work'[j] \in DiagPlaces  BY <2>1
  <2>6. \A j \in Id : work[j] = "skill" => work'[j] = "skill"  BY <2>1 DEF DiagPlaces
  <2>7. diagRunning => \/ work'[diagCh] \in DiagPlaces
                       \/ \E k \in 1 .. Len(inbox'[diagCh]) : inbox'[diagCh][k] = "done"
    BY <1>3, <1>6, <2>4, <2>5 DEF ResultDue
  <2>8. skillRunning => work'[skillCh] = "skill" \/ inbox'[skillCh] # <<>>
    BY <1>3, <1>6, <2>4, <2>6 DEF ResultDue
  <2> QED  BY <1>2, <1>6, <2>7, <2>8 DEF ResultDue, Busy
<1> QED  BY <1>5, <1>7, <1>8, <1>9 DEF Run

\* A progress report that is taken leaves the result in the channel.
LEMMA DueTake ==
    ASSUME IInv, ResultDue,
           TakeProgress \/ TakeDiagDone \/ TakeSkillDone \/ TakeSkillRenderPanics
    PROVE  ResultDue'
<1>1. CASE TakeSkillRenderPanics
  BY <1>1 DEF TakeSkillRenderPanics, ResultDue
<1>2. CASE TakeDiagDone \/ TakeSkillDone
  <2>1. ~Busy'
    BY <1>2, IdPositive DEF TakeDiagDone, TakeSkillDone, IInv, TypeOK, Flags, Busy
  <2> QED  BY <2>1 DEF ResultDue, Busy
<1>3. CASE TakeProgress
  <2>1. /\ UNCHANGED <<main, diagRunning, skillRunning, diagCh, skillCh, work, panicked>>
        /\ main = "select" /\ diagCh # 0
        /\ inbox[diagCh] # <<>> /\ Head(inbox[diagCh]) = "progress"
        /\ inbox' = [inbox EXCEPT ![diagCh] = Tail(@)]
    BY <1>3 DEF TakeProgress, uiVars, busyVars, history
  <2>2. diagCh \in Id /\ ~skillRunning
    BY <2>1 DEF IInv, TypeOK, Flags
  <2>3. inbox[diagCh] \in Seq({"progress", "done"}) /\ inbox'[diagCh] = Tail(inbox[diagCh])
    BY <2>1, <2>2 DEF IInv, TypeOK
  <2>4. ASSUME NEW k \in 1 .. Len(inbox[diagCh]), inbox[diagCh][k] = "done"
        PROVE  \E l \in 1 .. Len(inbox'[diagCh]) : inbox'[diagCh][l] = "done"
    <3>1. inbox[diagCh][1] = "progress"  BY <2>1, <2>3
    <3>2. k # 1  BY <2>4, <3>1
    <3>3. /\ Len(Tail(inbox[diagCh])) = Len(inbox[diagCh]) - 1
          /\ \A l \in 1 .. Len(Tail(inbox[diagCh])) :
               Tail(inbox[diagCh])[l] = inbox[diagCh][l + 1]
      BY <2>1, <2>3, HeadTailProperties
    <3>4. Len(inbox[diagCh]) \in Nat /\ k \in 2 .. Len(inbox[diagCh])
      BY <2>3, <3>2
    <3>5. k - 1 \in 1 .. Len(inbox'[diagCh]) /\ (k - 1) + 1 = k
      BY <2>3, <3>3, <3>4
    <3>6. inbox'[diagCh][k - 1] = inbox[diagCh][k]
      BY <2>3, <3>3, <3>5
    <3> QED  BY <2>4, <3>5, <3>6
  <2> QED  BY <2>1, <2>2, <2>4 DEF ResultDue, Busy
<1> QED  BY <1>1, <1>2, <1>3

LEMMA DueNext == IInv /\ IInv' /\ ResultDue /\ [Next]_vars => ResultDue'
<1> SUFFICES ASSUME IInv, IInv', ResultDue, [Next]_vars  PROVE ResultDue'
  OBVIOUS
<1>1. Busy' => main' \in {"select", "exited"}  BY DEF IInv, TypeOK, Flags
<1>2. ASSUME UNCHANGED <<busyVars, work, inbox, panicked>>  PROVE ResultDue'
  BY <1>1, <1>2, DueKept
<1>3. ASSUME NothingStarts  PROVE ResultDue'
  BY <1>2, <1>3 DEF NothingStarts, runVars, history
<1>4. CASE UNCHANGED vars
  BY <1>2, <1>4 DEF vars, runVars, history
<1>5. ASSUME NEW c \in Typable, TypePicker(c) \/ TypeQueues(c) \/ TypeRefused(c)
      PROVE  ResultDue'
  BY <1>3, <1>5 DEF TypePicker, TypeQueues, TypeRefused
<1>6. ASSUME NEW c \in Typable, TypeStarts(c)  PROVE ResultDue'
  <2>1. c.id \in Id /\ main = "select"
    BY <1>6, TypedFacts DEF IInv, TypeStarts
  <2> QED  BY <1>6, <2>1, DueStart DEF TypeStarts
<1>7. CASE Key \/ Exit \/ PickerCancelled \/ QueueEmpty \/ RaiseAlert \/ TakeAlert
  BY <1>3, <1>7 DEF Key, Exit, PickerCancelled, QueueEmpty, RaiseAlert, TakeAlert
<1>8. CASE CancelDiag
  <2>1. UNCHANGED <<diagRunning, skillRunning, diagCh, skillCh, work, inbox, panicked>>
    BY <1>8 DEF CancelDiag, runVars, history
  <2> QED  BY <1>1, <2>1 DEF ResultDue
<1>9. ASSUME PickerLogin \/ \E c \in Typable : TypeSync(c)  PROVE ResultDue'
  <2>1. UNCHANGED <<busyVars, work, inbox, panicked>>
    BY <1>9 DEF PickerLogin, TypeSync, RunSync, runVars
  <2> QED  BY <1>2, <2>1
<1>10. CASE PickerStarts
  <2>1. (StartDiag(picking.id) \/ StartSkill(picking.id)) /\ main = "picker" /\ main' = "select"
    BY <1>10 DEF PickerStarts, PickerDone
  <2>2. ~Busy /\ picking.id \in Id  BY <2>1 DEF IInv, Flags, Waits, Command
  <2> QED  BY <2>1, <2>2, DueStart
<1>11. ASSUME NEW c \in Waiting, QueuePicker(c)  PROVE ResultDue'
  BY <1>3, <1>11 DEF QueuePicker
<1>12. ASSUME NEW c \in Waiting, QueueStarts(c)  PROVE ResultDue'
  <2>1. Pop(c) /\ main = "queue" /\ main' = "select" /\ (StartDiag(c.id) \/ StartSkill(c.id))
    BY <1>12 DEF QueueStarts, Pop
  <2>2. ~Busy /\ c.id \in Id  BY <2>1, PopFacts DEF IInv, Flags
  <2> QED  BY <2>1, <2>2, DueStart
<1>13. ASSUME NEW c \in Waiting, QueueSync(c)  PROVE ResultDue'
  <2>1. UNCHANGED <<busyVars, work, inbox, panicked>>
    BY <1>13 DEF QueueSync, RunSync, runVars
  <2> QED  BY <1>2, <2>1
<1>14. ASSUME NEW i \in Id, Reconnects(i)  PROVE ResultDue'
  <2>1. UNCHANGED <<busyVars, work, inbox, panicked>>
    BY <1>14 DEF Reconnects, runVars
  <2> QED  BY <1>2, <2>1
<1> QED  BY <1>4, <1>5, <1>6, <1>7, <1>8, <1>9, <1>10, <1>11, <1>12, <1>13, <1>14, DueRun, DueTake
         DEF Next, Run

\* For any channels and any number of reports: until something panics, a
\* busy terminal reads its channels, and the result it waits for is there or
\* on its way (repl_async.go:108, "Done/Error MUST be delivered").
THEOREM ResultArrives == Spec => []ResultDue
<1>1. Init => ResultDue  BY DEF Init, ResultDue, Busy
<1> QED  BY <1>1, DueNext, Invariance, PTL DEF Spec

LEMMA HeldNext == IInv /\ HeldForReason /\ [Next]_vars => HeldForReason'
<1> SUFFICES ASSUME IInv, HeldForReason, [Next]_vars  PROVE HeldForReason'
  OBVIOUS
<1>1. pendingAlerts \in Nat  BY DEF IInv, TypeOK
<1>2. ASSUME UNCHANGED <<pendingAlerts, diagRunning, skillRunning, blockingUI>>,
             panicked => panicked'
      PROVE  HeldForReason'
  BY <1>2 DEF HeldForReason, Busy
<1>3. ASSUME KeyDone, Busy => Busy', panicked => panicked'  PROVE HeldForReason'
  BY <1>1, <1>3 DEF KeyDone, HeldForReason
<1>4. ASSUME pendingAlerts' = 0 \/ Busy' \/ blockingUI' \/ panicked'  PROVE HeldForReason'
  BY <1>4 DEF HeldForReason
<1>5. ASSUME NothingStarts  PROVE UNCHANGED <<diagRunning, skillRunning, panicked>>
  BY <1>5 DEF NothingStarts, busyVars, history
<1>6. CASE UNCHANGED vars
  BY <1>6, <1>2 DEF vars, uiVars, busyVars, alertVars, history
<1>7. ASSUME NEW c \in Typable, TypePicker(c)  PROVE HeldForReason'
  BY <1>4, <1>7 DEF TypePicker, OpenPicker
<1>8. ASSUME NEW c \in Typable, TypeStarts(c)  PROVE HeldForReason'
  <2>1. Busy'  BY <1>8 DEF TypeStarts, StartDiag, StartSkill, Busy
  <2> QED  BY <1>4, <2>1
<1>9. ASSUME NEW c \in Typable, TypeQueues(c) \/ TypeRefused(c)  PROVE HeldForReason'
  <2>1. KeyDone /\ NothingStarts  BY <1>9 DEF TypeQueues, TypeRefused
  <2> QED  BY <1>3, <1>5, <2>1 DEF Busy
<1>10. CASE Key
  BY <1>3, <1>5, <1>10 DEF Key, Busy
<1>11. CASE CancelDiag
  BY <1>3, <1>11 DEF CancelDiag, Busy, history
<1>12. CASE Exit \/ QueueEmpty \/ RaiseAlert
  <2>1. NothingStarts /\ UNCHANGED <<pendingAlerts, blockingUI>>
    BY <1>12 DEF Exit, QueueEmpty, RaiseAlert, alertVars, uiVars
  <2> QED  BY <1>2, <1>5, <2>1
<1>13. ASSUME NEW starts \in BOOLEAN, PickerDone(starts), ~Busy, panicked' = panicked
       PROVE  HeldForReason'
  <2>1. UNCHANGED <<blockingUI, alertVars>> \/ KeyDone  BY <1>13 DEF PickerDone
  <2> QED  BY <1>1, <1>13, <2>1 DEF KeyDone, HeldForReason, alertVars
<1>14. CASE PickerCancelled \/ PickerLogin \/ PickerStarts
  <2>1. PickerDone(FALSE) \/ PickerDone(TRUE)
    BY <1>14 DEF PickerCancelled, PickerLogin, PickerStarts
  <2>2. main = "picker" /\ panicked' = panicked
    BY <1>14, <2>1 DEF PickerCancelled, PickerLogin, PickerStarts, PickerDone, RunSync, StartDiag,
       StartSkill, NothingStarts, history
  <2>3. ~Busy  BY <2>2 DEF IInv, Flags
  <2> QED  BY <1>13, <2>1, <2>2, <2>3
<1>15. ASSUME NEW c \in Waiting, QueuePicker(c)  PROVE HeldForReason'
  BY <1>4, <1>15 DEF QueuePicker, OpenPicker
<1>16. ASSUME NEW c \in Waiting, QueueStarts(c)  PROVE HeldForReason'
  <2>1. Busy'  BY <1>16 DEF QueueStarts, StartDiag, StartSkill, Busy
  <2> QED  BY <1>4, <2>1
<1>17. ASSUME NEW c \in Waiting, QueueSync(c)  PROVE HeldForReason'
  BY <1>2, <1>17 DEF QueueSync, Pop, RunSync, alertVars, uiVars, busyVars
<1>18. ASSUME NEW i \in Id, Run(i) \/ DispatchPanics(i)  PROVE HeldForReason'
  <2>1. Aside /\ (panicked => panicked')
    BY <1>18 DEF Run, EmitTest, EmitCall, EmitDoneTest, EmitDoneCall, CallNil, ReturnEarly,
       ClearOnProgress, SendDone, SkillDone, DispatchPanics, Panics
  <2> QED  BY <1>2, <2>1 DEF Aside, uiVars, busyVars, alertVars
<1>19. CASE TakeProgress
  BY <1>2, <1>19 DEF TakeProgress, uiVars, busyVars, alertVars, history
<1>20. CASE TakeDiagDone \/ TakeSkillDone \/ TakeSkillRenderPanics
  BY <1>4, <1>20 DEF TakeDiagDone, TakeSkillDone, TakeSkillRenderPanics
<1>21. CASE TakeAlert
  <2>1. UNCHANGED <<diagRunning, skillRunning, panicked, blockingUI>>
        /\ (Busy \/ blockingUI \/ pendingAlerts' = pendingAlerts)
    BY <1>5, <1>21 DEF TakeAlert, uiVars
  <2> QED  BY <1>2, <2>1 DEF HeldForReason, Busy
<1>22. ASSUME NEW c \in Typable, TypeSync(c)  PROVE HeldForReason'
  <2>1. KeyDone /\ UNCHANGED <<diagRunning, skillRunning, panicked>>
    BY <1>22 DEF TypeSync, RunSync, busyVars
  <2> QED  BY <1>3, <2>1 DEF Busy
<1>23. ASSUME NEW i \in Id, Reconnects(i)  PROVE HeldForReason'
  BY <1>2, <1>23 DEF Reconnects, uiVars, busyVars, alertVars
<1> QED  BY <1>6, <1>7, <1>8, <1>9, <1>10, <1>11, <1>12, <1>14, <1>15, <1>16, <1>17, <1>18,
            <1>19, <1>20, <1>21, <1>22, <1>23 DEF Next, Run

\* Until something panics, an alert is held only while a command runs or a
\* picker or its key blocks the screen: none is left over when both end
\* (scheduler_renderer.go:111; repl.go:412).
THEOREM AlertsHeldForReason == Spec => []HeldForReason
<1>1. Init => HeldForReason  BY DEF Init, HeldForReason
<1> QED  BY <1>1, HeldNext, Invariance, PTL DEF Spec
=============================================================================
