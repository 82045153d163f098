------------------------- MODULE WorkerLink_proofs -------------------------
(***************************************************************************)
(* Safety of WorkerLink for every set of Workers, Overlords and addresses, *)
(* and every number of crashes, lost calls and redirects: the types, the   *)
(* consistency of the unsynchronised client while nothing redirects it,    *)
(* and the agreement of Worker and Overlord on who is registered.          *)
(***************************************************************************)
EXTENDS WorkerLink, TLAPS

(* Until the first redirect one goroutine at a time makes connections: what  *)
(* it is about to close is there, what it has dialled is open, and what it   *)
(* calls on is what it stored; once connected, that stays so.                *)
Linked(w, g) ==
  /\ pc[w][g] = "close" => conn[w] # NoConn
  /\ pc[w][g] \in {"store", "bind"} => new[w][g].id \in open[w]
  /\ pc[w][g] = "bind" => conn[w] = new[w][g]
  /\ pc[w][g] \in {"send", "register"} => client[w] = conn[w] /\ conn[w].id \in open[w]

ClientOf(w) ==
  /\ pc[w]["redirect"] = "off" /\ proc[w] # "panicked"
  /\ proc[w] = "down" => ~connected[w] /\ \A g \in Goroutines : pc[w][g] = "off"
  /\ pc[w]["heartbeat"] # "off" => pc[w]["connect"] = "done"
  /\ connected[w] => /\ pc[w]["heartbeat"] \in {"wait", "probe", "beat"}
                     /\ client[w] = conn[w] /\ conn[w].id \in open[w]
  /\ \A g \in Goroutines : Linked(w, g)

ClientInv == \A w \in Workers : redirects[w] = 0 => ClientOf(w)

(* The Worker's last acceptance is of an incarnation of the Overlord that  *)
(* is not in the future, and as long as it is the present one, and up, the *)
(* registry has an entry in some state.                                    *)
ListensAsTold == \A w \in Workers : listen[w] \in ListenOf[w]
NotFromFuture ==
  \A w \in Workers : \A o \in Overlords :
    accepted[w].o = o => accepted[w].e <= epoch[o]
AcceptedHasState ==
  \A w \in Workers : \A o \in Overlords :
    accepted[w].o = o /\ accepted[w].e = epoch[o] /\ oup[o]
      => reg[o][w].state # "NONE"

KnownInv == ListensAsTold /\ NotFromFuture /\ AcceptedHasState

(* Every Worker is configured with a listen address, which is what the     *)
(* command line's default sees to.                                         *)
AllListen == \A w \in Workers : NoAddr \notin ListenOf[w]

-----------------------------------------------------------------------------
(* What the proofs need of the constants.                                  *)

LEMMA Limits ==
  /\ MaxFailures \in Nat /\ 0 < MaxFailures
  /\ MaxCrashes \in Nat /\ MaxLosses \in Nat /\ MaxRedirects \in Nat
BY LinkAssumption DEF LinkAssumption

LEMMA Names ==
  /\ "none" \notin Overlords /\ Idle \notin Workers
  /\ HomeOf \in [Workers -> Overlords]
  /\ ListenOf \in [Workers -> SUBSET (Addrs \cup {NoAddr})]
BY LinkAssumption DEF LinkAssumption, Idle

(* Every entry the handlers and the poller write is an entry.              *)
LEMMA EntryTyped ==
  ASSUME NEW a \in Addrs \cup {NoAddr}, NEW s \in {"RUNNING", "OFFLINE"}
  PROVE  Entry(a, s) \in Entries /\ Entry(a, s) # NoEntry
BY DEF Entry, Entries, NoEntry

LEMMA NoEntryTyped == NoEntry \in Entries
BY DEF NoEntry, Entries

LEMMA EntryUpdateTyped ==
  ASSUME NEW e \in Entries
  PROVE  [e EXCEPT !.state = "OFFLINE"] \in Entries /\ [e EXCEPT !.fresh = FALSE] \in Entries
BY DEF Entries

LEMMA NoConnTyped == NoConn \in Conns /\ NoCall \in [on : Conns, ans : Ans]
BY DEF Conns, NoConn, NoCall, Ans

(* A name of a connection is not the name of none.                         *)
LEMMA Named == 0 \notin Links /\ NoConn.id = 0
BY LinkAssumption DEF LinkAssumption, NoConn

-----------------------------------------------------------------------------
(* What a step leaves alone keeps its part of the type invariant.          *)

LEMMA RegUnchanged ==
  ASSUME RegTypes, UNCHANGED <<oup, epoch, reg>>
  PROVE  RegTypes'
BY DEF RegTypes

LEMMA PollUnchanged ==
  ASSUME PollTypes, UNCHANGED poll
  PROVE  PollTypes'
BY DEF PollTypes

LEMMA ProcUnchanged ==
  ASSUME ProcTypes, UNCHANGED <<proc, listen>>
  PROVE  ProcTypes'
BY DEF ProcTypes

LEMMA ClientUnchanged ==
  ASSUME ClientTypes, UNCHANGED cvars
  PROVE  ClientTypes'
BY DEF ClientTypes, cvars

LEMMA GoroutinesUnchanged ==
  ASSUME GoroutineTypes, UNCHANGED gvars
  PROVE  GoroutineTypes'
BY DEF GoroutineTypes, gvars

LEMMA HistoryUnchanged ==
  ASSUME HistoryTypes, UNCHANGED accepted
  PROVE  HistoryTypes'
BY DEF HistoryTypes

LEMMA BoundsUnchanged ==
  ASSUME BoundTypes, UNCHANGED bounds
  PROVE  BoundTypes'
BY DEF BoundTypes, bounds

LEMMA LossesBounded ==
  ASSUME BoundTypes, UNCHANGED <<crashes, redirects>>,
         UNCHANGED losses \/ (losses < MaxLosses /\ losses' = losses + 1)
  PROVE  BoundTypes'
BY Limits DEF BoundTypes

LEMMA CrashBounded ==
  ASSUME BoundTypes, UNCHANGED <<losses, redirects>>,
         crashes < MaxCrashes, crashes' = crashes + 1
  PROVE  BoundTypes'
BY Limits DEF BoundTypes

(* A goroutine moves on, or a call of its own or of others ends.           *)
LEMMA GotoTyped ==
  ASSUME GoroutineTypes, NEW w \in Workers, NEW g \in Goroutines, NEW p \in Places,
         Goto(w, g, p)
  PROVE  pc' \in [Workers -> [Goroutines -> Places]]
BY DEF GoroutineTypes, Goto

LEMMA InvokeTyped ==
  ASSUME ClientTypes, GoroutineTypes, NEW w \in Workers, NEW g \in Goroutines,
         Invoke(w, g) \/ Returned(w, g)
  PROVE  call' \in [Workers -> [Goroutines -> [on : Conns, ans : Ans]]]
<1>1. CASE Invoke(w, g)
  <2> DEFINE c == [on |-> client[w], ans |-> IF client[w].id \in open[w] THEN "pending" ELSE "err"]
  <2>1. c \in [on : Conns, ans : Ans]
    BY DEF ClientTypes, Ans
  <2>2. call' = [call EXCEPT ![w][g] = c]
    BY <1>1 DEF Invoke
  <2> HIDE DEF c
  <2> QED BY <2>1, <2>2 DEF GoroutineTypes
<1>2. CASE Returned(w, g)
  BY <1>2, NoConnTyped DEF Returned, GoroutineTypes
<1> QED BY <1>1, <1>2

LEMMA CloseTyped ==
  ASSUME ClientTypes, GoroutineTypes, NEW w \in Workers, NEW g \in Goroutines,
         Close(w, g)
  PROVE  /\ call' \in [Workers -> [Goroutines -> [on : Conns, ans : Ans]]]
         /\ open' \in [Workers -> SUBSET Links]
<1> DEFINE c == [h \in Goroutines |->
       IF h = g THEN NoCall
       ELSE IF call[w][h].ans = "pending" /\ call[w][h].on = conn[w]
       THEN [call[w][h] EXCEPT !.ans = "err"] ELSE call[w][h]]
<1>1. \A h \in Goroutines : [call[w][h] EXCEPT !.ans = "err"] \in [on : Conns, ans : Ans]
  <2>1. "err" \in Ans /\ \A h \in Goroutines : call[w][h] \in [on : Conns, ans : Ans]
    BY DEF GoroutineTypes, Ans
  <2> QED BY <2>1
<1>2. c \in [Goroutines -> [on : Conns, ans : Ans]]
  BY <1>1, NoConnTyped DEF GoroutineTypes
<1>3. call' = [call EXCEPT ![w] = c]
  BY DEF Close, GoroutineTypes
<1>4. open' \in [Workers -> SUBSET Links]
  BY DEF Close, ClientTypes
<1> HIDE DEF c
<1> QED BY <1>2, <1>3, <1>4 DEF GoroutineTypes

(* A process that ends leaves nothing.                                     *)
LEMMA EndsTyped ==
  ASSUME ClientTypes, GoroutineTypes, NEW w \in Workers, Ends(w)
  PROVE  ClientTypes' /\ GoroutineTypes'
<1>1. ClientTypes'
  BY NoConnTyped DEF Ends, ClientTypes
<1>2. pc' \in [Workers -> [Goroutines -> Places]]
  BY DEF Ends, GoroutineTypes, Places
<1>3. new' \in [Workers -> [Goroutines -> Conns]]
  BY NoConnTyped DEF Ends, GoroutineTypes
<1>4. call' \in [Workers -> [Goroutines -> [on : Conns, ans : Ans]]]
  BY NoConnTyped DEF Ends, GoroutineTypes
<1>5. failures' \in [Workers -> 0 .. MaxFailures - 1] /\ raced' \in [Workers -> BOOLEAN]
  BY Limits DEF Ends, GoroutineTypes
<1> QED BY <1>1, <1>2, <1>3, <1>4, <1>5 DEF GoroutineTypes

(* A panic: the process is gone, and nothing of the client is promised.    *)
LEMMA PanicTyped ==
  ASSUME TypeOK, NEW w \in Workers, Panic(w)
  PROVE  TypeOK'
<1>1. ProcTypes'
  BY DEF Panic, Ends, TypeOK, ProcTypes
<1> QED
  BY <1>1, EndsTyped, RegUnchanged, PollUnchanged, HistoryUnchanged, BoundsUnchanged
  DEF Panic, TypeOK, ovars

-----------------------------------------------------------------------------
(* Types: the steps of a goroutine.                                        *)

LEMMA LinkKeepsTypes ==
  ASSUME TypeOK, NEW w \in Workers, NEW g \in Goroutines, LinkStep(w, g)
  PROVE  TypeOK'
<1>0. ASSUME ClientTypes', GoroutineTypes', UNCHANGED <<ovars, proc, listen, accepted, bounds>>
      PROVE  TypeOK'
  BY <1>0, RegUnchanged, PollUnchanged, ProcUnchanged, HistoryUnchanged, BoundsUnchanged
  DEF TypeOK, ovars
<1>1. CASE CheckOld(w, g)
  <2>1. pc' \in [Workers -> [Goroutines -> Places]]
    BY <1>1, GotoTyped DEF CheckOld, TypeOK, Places
  <2> QED BY <1>0, <1>1, <2>1, ClientUnchanged DEF CheckOld, TypeOK, GoroutineTypes
<1>2. CASE CloseOld(w, g)
  <2>1. CASE Panic(w)
    BY <2>1, PanicTyped
  <2>2. CASE ~Panic(w)
    <3>1. Close(w, g) /\ Goto(w, g, "forget")
      BY <1>2, <2>2 DEF CloseOld
    <3>2. pc' \in [Workers -> [Goroutines -> Places]]
      BY <3>1, GotoTyped DEF TypeOK, Places
    <3>3. ClientTypes' /\ GoroutineTypes'
      BY <1>2, <2>2, <3>1, <3>2, CloseTyped DEF CloseOld, TypeOK, ClientTypes, GoroutineTypes
    <3> QED BY <1>0, <1>2, <2>2, <3>3 DEF CloseOld
  <2> QED BY <2>1, <2>2
<1>3. CASE ForgetOld(w, g) \/ ClearConn(w, g)
  <2>1. pc' \in [Workers -> [Goroutines -> Places]]
    BY <1>3, GotoTyped DEF ForgetOld, ClearConn, TypeOK, Places
  <2>2. ClientTypes' /\ GoroutineTypes'
    BY <1>3, <2>1, NoConnTyped DEF ForgetOld, ClearConn, TypeOK, ClientTypes, GoroutineTypes
  <2> QED BY <1>0, <1>3, <2>2 DEF ForgetOld, ClearConn
<1>4. CASE Dial(w, g)
  <2>1. pc' \in [Workers -> [Goroutines -> Places]]
    BY <1>4, GotoTyped DEF Dial, TypeOK, Places
  <2>2. PICK c \in Links :
          /\ new' = [new EXCEPT ![w][g] = [id |-> c, to |-> home[w]]]
          /\ open' = [open EXCEPT ![w] = (@ \cap InUse(w)) \cup {c}]
    BY <1>4 DEF Dial
  <2>3. [id |-> c, to |-> home[w]] \in Conns
    BY DEF TypeOK, ClientTypes, Conns
  <2>4. new' \in [Workers -> [Goroutines -> Conns]]
    BY <2>2, <2>3 DEF TypeOK, GoroutineTypes
  <2>5. ClientTypes'
    BY <1>4, <2>2 DEF Dial, TypeOK, ClientTypes
  <2>6. raced' \in [Workers -> BOOLEAN]
    BY <1>4 DEF Dial, TypeOK, GoroutineTypes
  <2>7. GoroutineTypes'
    BY <1>4, <2>1, <2>4, <2>6 DEF Dial, TypeOK, GoroutineTypes
  <2> QED BY <1>0, <1>4, <2>5, <2>7 DEF Dial
<1>5. CASE StoreConn(w, g)
  <2>1. pc' \in [Workers -> [Goroutines -> Places]]
    BY <1>5, GotoTyped DEF StoreConn, TypeOK, Places
  <2>2. ClientTypes' /\ GoroutineTypes'
    BY <1>5, <2>1 DEF StoreConn, TypeOK, ClientTypes, GoroutineTypes
  <2> QED BY <1>0, <1>5, <2>2 DEF StoreConn
<1>6. CASE StoreClient(w, g)
  <2>1. pc' \in [Workers -> [Goroutines -> Places]]
    BY <1>6, GotoTyped DEF StoreClient, TypeOK, Places
  <2>2. new' \in [Workers -> [Goroutines -> Conns]]
    BY <1>6, NoConnTyped DEF StoreClient, TypeOK, GoroutineTypes
  <2>3. ClientTypes' /\ GoroutineTypes'
    BY <1>6, <2>1, <2>2 DEF StoreClient, TypeOK, ClientTypes, GoroutineTypes
  <2> QED BY <1>0, <1>6, <2>3 DEF StoreClient
<1>7. CASE SendRegister(w, g)
  <2>1. pc' \in [Workers -> [Goroutines -> Places]]
    BY <1>7, GotoTyped DEF SendRegister, TypeOK, Places
  <2>2. GoroutineTypes'
    BY <1>7, <2>1, InvokeTyped DEF SendRegister, TypeOK, GoroutineTypes
  <2> QED BY <1>0, <1>7, <2>2, ClientUnchanged DEF SendRegister, TypeOK
<1>8. CASE RegisterOk(w, g)
  <2>1. pc' \in [Workers -> [Goroutines -> Places]]
    BY <1>8 DEF RegisterOk, TypeOK, GoroutineTypes, Goroutines, Places
  <2>2. GoroutineTypes'
    BY <1>8, <2>1, InvokeTyped DEF RegisterOk, TypeOK, GoroutineTypes
  <2>3. ClientTypes'
    BY <1>8 DEF RegisterOk, TypeOK, ClientTypes
  <2> QED BY <1>0, <1>8, <2>2, <2>3 DEF RegisterOk
<1>9. CASE RegisterFailed(w, g)
  <2>1. CASE Panic(w)
    BY <2>1, PanicTyped
  <2>2. CASE ~Panic(w)
    <3>1. Close(w, g) /\ Goto(w, g, IF g = "connect" THEN "failed" ELSE "clear")
      BY <1>9, <2>2 DEF RegisterFailed
    <3>2. pc' \in [Workers -> [Goroutines -> Places]]
      BY <3>1, GotoTyped DEF TypeOK, Places
    <3>3. ClientTypes' /\ GoroutineTypes'
      BY <1>9, <2>2, <3>1, <3>2, CloseTyped DEF RegisterFailed, TypeOK, ClientTypes, GoroutineTypes
    <3> QED BY <1>0, <1>9, <2>2, <3>3 DEF RegisterFailed
  <2> QED BY <2>1, <2>2
<1> QED
  BY <1>1, <1>2, <1>3, <1>4, <1>5, <1>6, <1>7, <1>8, <1>9 DEF LinkStep

LEMMA HeartbeatKeepsTypes ==
  ASSUME TypeOK, NEW w \in Workers, HeartbeatStep(w)
  PROVE  TypeOK'
<1>0. ASSUME ClientTypes', GoroutineTypes', UNCHANGED <<ovars, proc, listen, accepted, bounds>>
      PROVE  TypeOK'
  BY <1>0, RegUnchanged, PollUnchanged, ProcUnchanged, HistoryUnchanged, BoundsUnchanged
  DEF TypeOK, ovars
<1>g. "heartbeat" \in Goroutines
  BY DEF Goroutines
<1>1. CASE Tick(w)
  <2>1. pc' \in [Workers -> [Goroutines -> Places]]
    BY <1>1, <1>g, GotoTyped DEF Tick, TypeOK, Places
  <2>2. GoroutineTypes'
    BY <1>1, <2>1 DEF Tick, TypeOK, GoroutineTypes
  <2> QED BY <1>0, <1>1, <2>2, ClientUnchanged DEF Tick, TypeOK
<1>2. CASE SendHeartbeat(w)
  <2>1. pc' \in [Workers -> [Goroutines -> Places]]
    BY <1>2, <1>g, GotoTyped DEF SendHeartbeat, TypeOK, Places
  <2>2. GoroutineTypes'
    BY <1>2, <1>g, <2>1, InvokeTyped DEF SendHeartbeat, TypeOK, GoroutineTypes
  <2> QED BY <1>0, <1>2, <2>2, ClientUnchanged DEF SendHeartbeat, TypeOK
<1>3. CASE HeartbeatOk(w)
  <2>1. pc' \in [Workers -> [Goroutines -> Places]]
    BY <1>3, <1>g, GotoTyped DEF HeartbeatOk, TypeOK, Places
  <2>2. failures' \in [Workers -> 0 .. MaxFailures - 1]
    BY <1>3, Limits DEF HeartbeatOk, TypeOK, GoroutineTypes
  <2>3. GoroutineTypes'
    BY <1>3, <1>g, <2>1, <2>2, InvokeTyped DEF HeartbeatOk, TypeOK, GoroutineTypes
  <2> QED BY <1>0, <1>3, <2>3, ClientUnchanged DEF HeartbeatOk, TypeOK
<1>4. CASE HeartbeatFailed(w)
  <2>1. pc' \in [Workers -> [Goroutines -> Places]]
    BY <1>4, <1>g, GotoTyped DEF HeartbeatFailed, TypeOK, Places
  <2>2. failures' \in [Workers -> 0 .. MaxFailures - 1]
    <3>1. failures[w] \in 0 .. MaxFailures - 1
      BY DEF TypeOK, GoroutineTypes
    <3>2. \/ failures' = [failures EXCEPT ![w] = 0]
          \/ failures[w] + 1 < MaxFailures /\ failures' = [failures EXCEPT ![w] = failures[w] + 1]
      BY <1>4, <3>1, Limits DEF HeartbeatFailed, GivesUp
    <3> DEFINE n == failures[w] + 1
    <3>3. 0 \in 0 .. MaxFailures - 1 /\ (n < MaxFailures => n \in 0 .. MaxFailures - 1)
      BY <3>1, Limits
    <3> HIDE DEF n
    <3> QED BY <3>2, <3>3 DEF TypeOK, GoroutineTypes, n
  <2>3. GoroutineTypes'
    BY <1>4, <1>g, <2>1, <2>2, InvokeTyped DEF HeartbeatFailed, TypeOK, GoroutineTypes
  <2>4. ClientTypes'
    BY <1>4 DEF HeartbeatFailed, TypeOK, ClientTypes
  <2> QED BY <1>0, <1>4, <2>3, <2>4 DEF HeartbeatFailed
<1> QED BY <1>1, <1>2, <1>3, <1>4 DEF HeartbeatStep

LEMMA RedirectKeepsTypes ==
  ASSUME TypeOK, NEW w \in Workers, RedirectTo(w) \/ Disconnect(w) \/ Readdress(w)
  PROVE  TypeOK'
<1>g. "redirect" \in Goroutines
  BY DEF Goroutines
<1>1. pc' \in [Workers -> [Goroutines -> Places]]
  BY <1>g, GotoTyped DEF RedirectTo, Disconnect, Readdress, TypeOK, Places
<1>2. raced' \in [Workers -> BOOLEAN]
  BY DEF RedirectTo, Disconnect, Readdress, TypeOK, GoroutineTypes, Linking
<1>3. GoroutineTypes'
  BY <1>1, <1>2 DEF RedirectTo, Disconnect, Readdress, TypeOK, GoroutineTypes
<1>4. ClientTypes'
  BY DEF RedirectTo, Disconnect, Readdress, TypeOK, ClientTypes, cvars
<1>5. BoundTypes'
  BY Limits DEF RedirectTo, Disconnect, Readdress, TypeOK, BoundTypes, bounds
<1> QED
  BY <1>3, <1>4, <1>5, RegUnchanged, PollUnchanged, ProcUnchanged, HistoryUnchanged
  DEF RedirectTo, Disconnect, Readdress, TypeOK, ovars

LEMMA StepKeepsTypes ==
  ASSUME TypeOK, NEW w \in Workers, NEW g \in Goroutines, Step(w, g)
  PROVE  TypeOK'
BY LinkKeepsTypes, HeartbeatKeepsTypes, RedirectKeepsTypes DEF Step

-----------------------------------------------------------------------------
(* Types: calls, the poller, processes.                                    *)

(* The registry after a served call has entries only.                      *)
LEMMA ServedTyped ==
  ASSUME TypeOK, NEW w \in Workers, NEW o \in Overlords,
         Register(o, w) \/ Heartbeat(o, w), UNCHANGED <<oup, epoch>>
  PROVE  RegTypes'
<1>1. reg[o][w] \in Entries /\ listen[w] \in Addrs \cup {NoAddr}
  BY DEF TypeOK, RegTypes, ProcTypes
<1>2. reg[o][w].addr \in Addrs \cup {NoAddr}
  BY <1>1 DEF Entries
<1>3. Registered(o, w) \in Entries /\ Entry(reg[o][w].addr, "RUNNING") \in Entries
  BY <1>1, <1>2, EntryTyped, NoEntryTyped DEF Registered
<1> QED BY <1>3 DEF Register, Heartbeat, TypeOK, RegTypes

(* An answer comes in.                                                     *)
LEMMA AnsTyped ==
  ASSUME GoroutineTypes, NEW w \in Workers, NEW g \in Goroutines, NEW a \in {"ok", "err"},
         call' = [call EXCEPT ![w][g].ans = a], UNCHANGED <<pc, new, failures, raced>>
  PROVE  GoroutineTypes'
<1>1. [call[w][g] EXCEPT !.ans = a] \in [on : Conns, ans : Ans]
  <2>1. call[w][g] \in [on : Conns, ans : Ans] /\ a \in Ans
    BY DEF GoroutineTypes, Ans
  <2> QED BY <2>1
<1>2. call' = [call EXCEPT ![w][g] = [call[w][g] EXCEPT !.ans = a]]
  BY DEF GoroutineTypes
<1>3. call' \in [Workers -> [Goroutines -> [on : Conns, ans : Ans]]]
  BY <1>1, <1>2 DEF GoroutineTypes
<1> QED BY <1>3 DEF GoroutineTypes

(* The Worker notes at most one acceptance.                                *)
LEMMA AcceptedTyped ==
  ASSUME RegTypes, HistoryTypes, NEW w \in Workers, NEW o \in Overlords,
         \/ UNCHANGED accepted
         \/ accepted' = [accepted EXCEPT ![w] = [o |-> o, e |-> epoch[o]]]
  PROVE  HistoryTypes'
BY DEF RegTypes, HistoryTypes

LEMMA CallsKeepTypes ==
  ASSUME TypeOK, NEW w \in Workers, NEW g \in Goroutines, CallEnds(w, g)
  PROVE  TypeOK'
<1>1. ASSUME NEW o \in Overlords, ServeRegister(o, w, g) PROVE TypeOK'
  <2>1. GoroutineTypes'
    BY <1>1, AnsTyped DEF ServeRegister, TypeOK
  <2>2. HistoryTypes'
    BY <1>1, AcceptedTyped DEF ServeRegister, TypeOK
  <2>3. BoundTypes'
    BY <1>1, LossesBounded DEF ServeRegister, Reply, TypeOK
  <2>4. RegTypes'
    BY <1>1, ServedTyped DEF ServeRegister
  <2> QED
    BY <1>1, <2>1, <2>2, <2>3, <2>4, PollUnchanged, ProcUnchanged, ClientUnchanged
    DEF ServeRegister, TypeOK
<1>2. ASSUME NEW o \in Overlords, g = "heartbeat", ServeHeartbeat(o, w) PROVE TypeOK'
  <2>1. GoroutineTypes'
    BY <1>2, AnsTyped DEF ServeHeartbeat, TypeOK
  <2>2. BoundTypes'
    BY <1>2, LossesBounded DEF ServeHeartbeat, Reply, TypeOK
  <2>3. RegTypes'
    BY <1>2, ServedTyped DEF ServeHeartbeat
  <2> QED
    BY <1>2, <2>1, <2>2, <2>3, PollUnchanged, ProcUnchanged, ClientUnchanged,
      HistoryUnchanged DEF ServeHeartbeat, TypeOK
<1>3. CASE CallFails(w, g)
  <2>1. GoroutineTypes'
    BY <1>3, AnsTyped DEF CallFails, TypeOK
  <2>2. BoundTypes'
    BY <1>3, LossesBounded DEF CallFails, Unreached, TypeOK
  <2> QED
    BY <1>3, <2>1, <2>2, RegUnchanged, PollUnchanged, ProcUnchanged, ClientUnchanged,
      HistoryUnchanged DEF CallFails, TypeOK, ovars
<1> QED BY <1>1, <1>2, <1>3 DEF CallEnds

LEMMA PollKeepsTypes ==
  ASSUME TypeOK, NEW o \in Overlords,
         PollStep(o) \/ \E w \in Workers : Expire(o, w)
  PROVE  TypeOK'
<1>1. ASSUME NEW w \in Workers, Expire(o, w) PROVE TypeOK'
  <2>1. [reg[o][w] EXCEPT !.fresh = FALSE] \in Entries
    BY EntryUpdateTyped DEF TypeOK, RegTypes
  <2>2. RegTypes'
    BY <1>1, <2>1 DEF Expire, TypeOK, RegTypes
  <2> QED
    BY <1>1, <2>2, PollUnchanged, ClientUnchanged, ProcUnchanged, GoroutinesUnchanged,
      HistoryUnchanged, BoundsUnchanged DEF Expire, TypeOK
<1>2. CASE PollTick(o)
  <2>1. \A w \in Workers :
          reg[o][w] \in Entries /\ [reg[o][w] EXCEPT !.state = "OFFLINE"] \in Entries
    BY EntryUpdateTyped DEF TypeOK, RegTypes
  <2>2. RegTypes'
    BY <1>2, <2>1 DEF PollTick, TypeOK, RegTypes
  <2>3. PollTypes'
    BY <1>2 DEF PollTick, IdlePoll, Ans, TypeOK, PollTypes
  <2> QED
    BY <1>2, <2>2, <2>3, ClientUnchanged, ProcUnchanged, GoroutinesUnchanged,
      HistoryUnchanged, BoundsUnchanged DEF PollTick, TypeOK
<1>3. CASE PollApply(o)
  <2>1. poll[o].cur \in Workers
    BY <1>3 DEF PollApply, TypeOK, PollTypes
  <2>2. reg[o][poll[o].cur] \in Entries
    BY <2>1 DEF TypeOK, RegTypes
  <2>3. Polled(reg[o][poll[o].cur], poll[o].ans) \in Entries
    BY <2>2 DEF Polled, Entry, Entries
  <2>4. RegTypes'
    BY <1>3, <2>1, <2>3 DEF PollApply, TypeOK, RegTypes
  <2>5. PollTypes'
    BY <1>3 DEF PollApply, Ans, TypeOK, PollTypes
  <2> QED
    BY <1>3, <2>4, <2>5, ClientUnchanged, ProcUnchanged, GoroutinesUnchanged,
      HistoryUnchanged, BoundsUnchanged DEF PollApply, TypeOK
<1>4. ASSUME NEW w \in Workers, PollAsk(o, w) PROVE TypeOK'
  <2>1. PollTypes'
    BY <1>4 DEF PollAsk, Ans, TypeOK, PollTypes
  <2>2. BoundTypes'
    BY <1>4, LossesBounded DEF PollAsk, TypeOK
  <2> QED
    BY <1>4, <2>1, <2>2, RegUnchanged, ClientUnchanged, ProcUnchanged, GoroutinesUnchanged,
      HistoryUnchanged DEF PollAsk, TypeOK
<1> QED BY <1>1, <1>2, <1>3, <1>4 DEF PollStep

LEMMA ProcessKeepsTypes ==
  ASSUME TypeOK,
         \/ \E w \in Workers : StartWorker(w) \/ CrashWorker(w)
         \/ \E o \in Overlords : CrashOverlord(o) \/ StartOverlord(o)
  PROVE  TypeOK'
<1>1. ASSUME NEW w \in Workers, StartWorker(w) PROVE TypeOK'
  <2>1. ListenOf[w] \subseteq Addrs \cup {NoAddr}
    BY Names
  <2>2. ProcTypes'
    BY <1>1, <2>1 DEF StartWorker, TypeOK, ProcTypes
  <2>3. ClientTypes'
    BY <1>1, Names DEF StartWorker, TypeOK, ClientTypes
  <2>4. pc' \in [Workers -> [Goroutines -> Places]]
    BY <1>1, GotoTyped DEF StartWorker, TypeOK, Places, Goroutines
  <2>5. GoroutineTypes'
    BY <1>1, <2>4 DEF StartWorker, TypeOK, GoroutineTypes
  <2> QED
    BY <1>1, <2>2, <2>3, <2>5, RegUnchanged, PollUnchanged, HistoryUnchanged,
      BoundsUnchanged DEF StartWorker, TypeOK, ovars
<1>2. ASSUME NEW w \in Workers, CrashWorker(w) PROVE TypeOK'
  <2>1. ProcTypes'
    BY <1>2 DEF CrashWorker, Ends, TypeOK, ProcTypes
  <2>2. BoundTypes'
    BY <1>2, CrashBounded DEF CrashWorker, TypeOK
  <2> QED
    BY <1>2, <2>1, <2>2, EndsTyped, RegUnchanged, PollUnchanged, HistoryUnchanged
    DEF CrashWorker, TypeOK, ovars
<1>3. ASSUME NEW o \in Overlords, CrashOverlord(o) PROVE TypeOK'
  <2>1. RegTypes'
    BY <1>3, NoEntryTyped DEF CrashOverlord, TypeOK, RegTypes
  <2>2. PollTypes'
    BY <1>3 DEF CrashOverlord, IdlePoll, Ans, TypeOK, PollTypes
  <2>3. BoundTypes'
    BY <1>3, CrashBounded DEF CrashOverlord, TypeOK
  <2> QED
    BY <1>3, <2>1, <2>2, <2>3, ClientUnchanged, ProcUnchanged, GoroutinesUnchanged,
      HistoryUnchanged DEF CrashOverlord, TypeOK
<1>4. ASSUME NEW o \in Overlords, StartOverlord(o) PROVE TypeOK'
  <2>1. RegTypes'
    BY <1>4 DEF StartOverlord, TypeOK, RegTypes
  <2> QED
    BY <1>4, <2>1, PollUnchanged, ClientUnchanged, ProcUnchanged, GoroutinesUnchanged,
      HistoryUnchanged, BoundsUnchanged DEF StartOverlord, TypeOK
<1> QED BY <1>1, <1>2, <1>3, <1>4

LEMMA InitTypes == Init => TypeOK
<1> SUFFICES ASSUME Init PROVE TypeOK
  OBVIOUS
<1> USE DEF Init
<1>1. RegTypes /\ PollTypes
  BY NoEntryTyped DEF RegTypes, PollTypes, IdlePoll, Ans
<1>2. ProcTypes /\ ClientTypes
  BY Names, NoConnTyped DEF ProcTypes, ClientTypes
<1>3. GoroutineTypes
  BY Limits, NoConnTyped DEF GoroutineTypes, Places
<1>4. HistoryTypes
  BY DEF HistoryTypes, NoReg
<1>5. BoundTypes
  BY Limits DEF BoundTypes
<1> QED BY <1>1, <1>2, <1>3, <1>4, <1>5 DEF TypeOK

LEMMA NextKeepsTypes == TypeOK /\ [Next]_vars => TypeOK'
<1> SUFFICES ASSUME TypeOK, [Next]_vars PROVE TypeOK'
  OBVIOUS
<1>1. CASE UNCHANGED vars
  BY <1>1, RegUnchanged, PollUnchanged, ClientUnchanged, ProcUnchanged, GoroutinesUnchanged,
    HistoryUnchanged, BoundsUnchanged DEF vars, ovars, TypeOK
<1>2. CASE Next
  BY <1>2, StepKeepsTypes, RedirectKeepsTypes, CallsKeepTypes, PollKeepsTypes,
    ProcessKeepsTypes DEF Next
<1> QED BY <1>1, <1>2

(* Every variable keeps its type: no counter passes its limit, no entry of *)
(* the registry or call in flight has a shape the code does not give it.   *)
THEOREM TypeCorrect == Spec => []TypeOK
BY InitTypes, NextKeepsTypes, PTL DEF Spec

-----------------------------------------------------------------------------
(* The client, until it is redirected.                                     *)

(* What a step leaves alone of a Worker.                                   *)
Untouched(w) ==
  /\ proc'[w] = proc[w] /\ pc'[w] = pc[w] /\ new'[w] = new[w]
  /\ conn'[w] = conn[w] /\ client'[w] = client[w] /\ connected'[w] = connected[w]
  /\ open'[w] = open[w]

LEMMA UntouchedClient ==
  ASSUME NEW w \in Workers, ClientOf(w), Untouched(w)
  PROVE  ClientOf(w)'
BY DEF ClientOf, Untouched, Linked

(* A step that touches neither client nor goroutines keeps ClientInv.      *)
LEMMA ClientInvUnchanged ==
  ASSUME ClientInv,
         UNCHANGED <<redirects, proc, pc, new, conn, client, connected, open>>
  PROVE  ClientInv'
BY UntouchedClient DEF ClientInv, Untouched

(* A step of one Worker, of which the others know nothing.                 *)
LEMMA OneClient ==
  ASSUME ClientInv, NEW w \in Workers,
         \A v \in Workers \ {w} : Untouched(v) /\ redirects'[v] = redirects[v],
         redirects'[w] = 0 => ClientOf(w)'
  PROVE  ClientInv'
BY UntouchedClient DEF ClientInv

LEMMA StepIsLocal ==
  ASSUME TypeOK, NEW w \in Workers, NEW g \in Goroutines,
         Step(w, g) \/ RedirectTo(w) \/ StartWorker(w) \/ CrashWorker(w)
  PROVE  \A v \in Workers \ {w} : Untouched(v) /\ redirects'[v] = redirects[v]
<1> USE DEF TypeOK, ProcTypes, ClientTypes, GoroutineTypes, BoundTypes, Untouched,
            cvars, gvars, bounds, Goto
<1>1. CASE Panic(w)
  BY <1>1 DEF Panic, Ends
<1>2. CASE CheckOld(w, g) \/ ForgetOld(w, g) \/ StoreConn(w, g)
  BY <1>2 DEF CheckOld, ForgetOld, StoreConn
<1>3. CASE Dial(w, g) \/ StoreClient(w, g) \/ SendRegister(w, g)
  BY <1>3 DEF Dial, StoreClient, SendRegister
<1>4. CASE RegisterOk(w, g) \/ ClearConn(w, g)
  BY <1>4 DEF RegisterOk, ClearConn
<1>5. CASE ~Panic(w) /\ (CloseOld(w, g) \/ RegisterFailed(w, g))
  BY <1>5 DEF CloseOld, RegisterFailed, Close
<1>6. CASE HeartbeatStep(w)
  BY <1>6 DEF HeartbeatStep, Tick, SendHeartbeat, HeartbeatOk, HeartbeatFailed
<1>7. CASE RedirectTo(w) \/ Disconnect(w) \/ Readdress(w)
  BY <1>7 DEF RedirectTo, Disconnect, Readdress
<1>8. CASE StartWorker(w)
  BY <1>8 DEF StartWorker
<1>9. CASE CrashWorker(w)
  BY <1>9 DEF CrashWorker, Ends
<1> QED
  BY <1>1, <1>2, <1>3, <1>4, <1>5, <1>6, <1>7, <1>8, <1>9 DEF Step, LinkStep

(* What is known of a Worker nobody has redirected, for the proofs below.  *)
LEMMA ClientFacts ==
  ASSUME TypeOK, NEW w \in Workers, ClientOf(w)
  PROVE  /\ pc[w] \in [Goroutines -> Places] /\ new[w] \in [Goroutines -> Conns]
         /\ conn[w].id \in open[w] => conn[w] # NoConn
         /\ pc[w]["redirect"] = "off"
         /\ pc[w]["connect"] = "done" \/ pc[w]["heartbeat"] = "off"
         /\ connected[w] => pc[w]["connect"] = "done"
BY Named DEF TypeOK, GoroutineTypes, ClientTypes, ClientOf, Goroutines

(* What a goroutine other than the redirect that takes a step leaves: it   *)
(* is the only one that is making a connection.                            *)
LEMMA OthersIdle ==
  ASSUME TypeOK, NEW w \in Workers, ClientOf(w), NEW g \in Goroutines,
         pc[w][g] \notin {"off", "done"}
  PROVE  \A h \in Goroutines \ {g} : pc[w][h] \in {"off", "done"}
BY DEF ClientOf, Goroutines

(* Connect, and the heartbeat loop that reconnects, keep the client whole. *)
LEMMA LinkKeepsClient ==
  ASSUME TypeOK, NEW w \in Workers, ClientOf(w), NEW g \in Goroutines, LinkStep(w, g)
  PROVE  ClientOf(w)'
<1> USE DEF cvars, Goto
<1>1. /\ pc[w][g] \in {"boot", "check", "close", "forget", "dial", "store", "bind",
                      "send", "register", "clear"}
  BY DEF LinkStep, CheckOld, CloseOld, ForgetOld, Dial, StoreConn, StoreClient, SendRegister,
    RegisterOk, RegisterFailed, ClearConn
<1>2. /\ g # "redirect" /\ ~connected[w]
      /\ \A h \in Goroutines \ {g} : pc[w][h] \in {"off", "done"}
      /\ g = "heartbeat" => pc[w]["connect"] = "done"
  BY <1>1, OthersIdle, ClientFacts DEF ClientOf, Goroutines
<1>3. ~Panic(w)
  <2>1. CloseOld(w, g) \/ RegisterFailed(w, g) => ~Nils(w)
    BY ClientFacts DEF CloseOld, RegisterFailed, Nils, ClientOf, Linked
  <2>2. Panic(w) => CloseOld(w, g) \/ RegisterFailed(w, g)
    <3>1. Panic(w) => proc' # proc
      BY <1>1 DEF Panic, ClientOf, TypeOK, ProcTypes
    <3> QED
      BY <3>1 DEF LinkStep, CheckOld, ForgetOld, Dial, StoreConn, StoreClient, SendRegister,
        RegisterOk, ClearConn
  <2>3. CASE CloseOld(w, g) \/ RegisterFailed(w, g)
    <3>1. Panic(w) => proc'[w] = "panicked"
      BY DEF Panic, TypeOK, ProcTypes
    <3>2. proc'[w] # "panicked"
      BY <2>1, <2>3 DEF CloseOld, RegisterFailed, ClientOf
    <3> QED BY <3>1, <3>2
  <2> QED BY <2>2, <2>3
<1>4. proc[w] = "up" /\ UNCHANGED proc
  BY <1>1, <1>3 DEF ClientOf, TypeOK, ProcTypes, LinkStep, CheckOld, CloseOld, ForgetOld, Dial, StoreConn, StoreClient,
    SendRegister, RegisterOk, RegisterFailed, ClearConn
(* It is enough to look at the goroutine that took the step.               *)
<1>5. ASSUME ~connected'[w], Linked(w, g)',
             \A h \in Goroutines \ {g} : pc'[w][h] = pc[w][h],
             g = "connect" => pc'[w]["heartbeat"] = "off"
      PROVE  ClientOf(w)'
  <2>1. \A h \in Goroutines : Linked(w, h)'
    BY <1>2, <1>5 DEF Linked
  <2> QED BY <1>2, <1>4, <1>5, <2>1 DEF ClientOf, Goroutines
<1>6. CASE RegisterOk(w, g)
  <2>1. client'[w] = conn'[w] /\ conn'[w].id \in open'[w]
    BY <1>6 DEF RegisterOk, ClientOf, Linked
  <2>2. /\ pc'[w]["redirect"] = "off" /\ pc'[w]["connect"] = "done"
        /\ pc'[w]["heartbeat"] = "wait"
    BY <1>2, <1>6, ClientFacts DEF RegisterOk, TypeOK, GoroutineTypes, Goroutines
  <2>3. \A h \in Goroutines : Linked(w, h)'
    BY <2>2 DEF Goroutines, Linked
  <2> QED BY <1>4, <2>1, <2>2, <2>3 DEF ClientOf
<1>7. CASE ~RegisterOk(w, g)
  <2>1. \A h \in Goroutines \ {g} : pc'[w][h] = pc[w][h]
    BY <1>3, <1>7 DEF LinkStep, CheckOld, CloseOld, ForgetOld, Dial, StoreConn, StoreClient,
      SendRegister, RegisterFailed, ClearConn, TypeOK, GoroutineTypes
  <2>2. g = "connect" => pc'[w]["heartbeat"] = "off"
    BY <1>1, <2>1 DEF ClientOf, Goroutines
  <2>3. connected'[w] = connected[w]
    BY <1>3, <1>7 DEF LinkStep, CheckOld, CloseOld, ForgetOld, Dial, StoreConn, StoreClient,
      SendRegister, RegisterFailed, ClearConn
  <2>4. Linked(w, g)'
    <3> USE DEF TypeOK, ClientTypes, GoroutineTypes, Linked
    <3>1. CASE CheckOld(w, g)
      BY <3>1 DEF CheckOld, Nils
    <3>2. CASE CloseOld(w, g) \/ RegisterFailed(w, g)
      BY <1>3, <3>2 DEF CloseOld, RegisterFailed
    <3>3. CASE ForgetOld(w, g) \/ ClearConn(w, g)
      BY <3>3 DEF ForgetOld, ClearConn
    <3>4. CASE Dial(w, g)
      BY <3>4 DEF Dial
    <3>5. CASE StoreConn(w, g)
      <4>1. new[w][g].id \in open[w]
        BY <3>5 DEF StoreConn, ClientOf
      <4>2. pc'[w][g] = "bind" /\ conn'[w] = new[w][g] /\ UNCHANGED <<new, open>>
        BY <3>5 DEF StoreConn
      <4> QED BY <4>1, <4>2
    <3>6. CASE StoreClient(w, g)
      <4>1. conn[w] = new[w][g] /\ new[w][g].id \in open[w]
        BY <3>6 DEF StoreClient, ClientOf
      <4>2. pc'[w][g] = "send" /\ client'[w] = new[w][g]
        BY <3>6 DEF StoreClient
      <4> QED BY <3>6, <4>1, <4>2 DEF StoreClient
    <3>7. CASE SendRegister(w, g)
      <4>1. client[w] = conn[w] /\ conn[w].id \in open[w]
        BY <3>7 DEF SendRegister, ClientOf
      <4> QED BY <3>7, <4>1 DEF SendRegister
    <3> QED
      BY <1>7, <3>1, <3>2, <3>3, <3>4, <3>5, <3>6, <3>7 DEF LinkStep
  <2> QED BY <1>2, <1>5, <2>1, <2>2, <2>3, <2>4
<1> QED BY <1>6, <1>7

(* Heartbeats go out on a connection that stays as it is.                  *)
LEMMA HeartbeatKeepsClient ==
  ASSUME TypeOK, NEW w \in Workers, ClientOf(w), HeartbeatStep(w)
  PROVE  ClientOf(w)'
<1> USE DEF cvars, Goto
<1>1. pc[w]["heartbeat"] \in {"wait", "probe", "beat"}
  BY DEF HeartbeatStep, Tick, SendHeartbeat, HeartbeatOk, HeartbeatFailed
<1>2. /\ pc'[w]["redirect"] = "off" /\ pc'[w]["connect"] = "done"
      /\ pc'[w]["heartbeat"] \in {"wait", "probe", "beat", "check"}
      /\ pc'[w]["heartbeat"] = "check" => ~connected'[w]
  BY <1>1 DEF HeartbeatStep, Tick, SendHeartbeat, HeartbeatOk, HeartbeatFailed, ClientOf,
    TypeOK, GoroutineTypes, Goroutines
<1>3. proc[w] = "up" /\ UNCHANGED <<proc, conn, client, open>> /\ (connected'[w] => connected[w])
  BY <1>1 DEF HeartbeatStep, Tick, SendHeartbeat, HeartbeatOk, HeartbeatFailed, ClientOf,
    TypeOK, ClientTypes, ProcTypes, Goroutines
<1>4. \A g \in Goroutines : Linked(w, g)'
  BY <1>2 DEF Goroutines, Linked
<1> QED BY <1>2, <1>3, <1>4 DEF ClientOf

LEMMA NextKeepsClient == TypeOK /\ ClientInv /\ [Next]_vars => ClientInv'
<1> SUFFICES ASSUME TypeOK, ClientInv, [Next]_vars PROVE ClientInv'
  OBVIOUS
<1>1. CASE UNCHANGED vars
  BY <1>1, ClientInvUnchanged DEF vars, cvars, gvars, bounds
<1>2. ASSUME NEW w \in Workers, NEW g \in Goroutines, CallEnds(w, g) PROVE ClientInv'
  BY <1>2, ClientInvUnchanged DEF CallEnds, ServeRegister, ServeHeartbeat, CallFails, cvars
<1>3. ASSUME NEW o \in Overlords,
             \/ PollStep(o) \/ CrashOverlord(o) \/ StartOverlord(o)
             \/ \E w \in Workers : Expire(o, w)
      PROVE  ClientInv'
  BY <1>3, ClientInvUnchanged DEF PollStep, PollTick, PollAsk, PollApply, CrashOverlord,
    StartOverlord, Expire, cvars, gvars, bounds
<1>4. ASSUME NEW w \in Workers, NEW g \in Goroutines, Step(w, g) PROVE ClientInv'
  <2>1. UNCHANGED redirects
    BY <1>4 DEF Step, LinkStep, CheckOld, CloseOld, ForgetOld, Dial, StoreConn, StoreClient,
      SendRegister, RegisterOk, RegisterFailed, ClearConn, Panic, HeartbeatStep, Tick,
      SendHeartbeat, HeartbeatOk, HeartbeatFailed, Disconnect, Readdress, bounds
  <2>2. ASSUME redirects[w] = 0 PROVE ClientOf(w)'
    <3>1. ClientOf(w)
      BY <2>2 DEF ClientInv
    <3>2. ~(Disconnect(w) \/ Readdress(w))
      BY <3>1 DEF Disconnect, Readdress, ClientOf
    <3> QED BY <1>4, <3>1, <3>2, LinkKeepsClient, HeartbeatKeepsClient DEF Step
  <2> QED BY <1>4, <2>1, <2>2, OneClient, StepIsLocal
<1>5. ASSUME NEW w \in Workers, RedirectTo(w) PROVE ClientInv'
  <2>1. redirects'[w] # 0
    BY <1>5 DEF RedirectTo, TypeOK, BoundTypes
  <2> QED BY <1>5, <2>1, OneClient, StepIsLocal DEF Goroutines
<1>6. ASSUME NEW w \in Workers, StartWorker(w) PROVE ClientInv'
  <2>1. /\ UNCHANGED <<redirects, conn, client, connected, open, new>>
        /\ proc'[w] = "up" /\ pc'[w]["connect"] = "boot"
        /\ proc[w] = "down"
        /\ pc'[w]["heartbeat"] = pc[w]["heartbeat"] /\ pc'[w]["redirect"] = pc[w]["redirect"]
    BY <1>6 DEF StartWorker, Goto, bounds, TypeOK, ProcTypes, GoroutineTypes, Goroutines
  <2>2. redirects[w] = 0 => ClientOf(w)'
    BY <2>1 DEF ClientInv, ClientOf, Linked, Goroutines
  <2> QED BY <1>6, <2>1, <2>2, OneClient, StepIsLocal DEF Goroutines
<1>7. ASSUME NEW w \in Workers, CrashWorker(w) PROVE ClientInv'
  <2>1. /\ proc'[w] = "down" /\ ~connected'[w] /\ \A g \in Goroutines : pc'[w][g] = "off"
    BY <1>7 DEF CrashWorker, Ends, TypeOK, ProcTypes, ClientTypes, GoroutineTypes
  <2>2. ClientOf(w)'
    BY <2>1 DEF ClientOf, Linked, Goroutines
  <2> QED BY <1>7, <2>2, OneClient, StepIsLocal DEF Goroutines
<1>8. CASE Next
  BY <1>2, <1>3, <1>4, <1>5, <1>6, <1>7, <1>8 DEF Next
<1> QED BY <1>1, <1>8

LEMMA InitClient == Init => ClientInv
<1> SUFFICES ASSUME Init, NEW w \in Workers PROVE ClientOf(w)
  BY DEF ClientInv
<1>1. /\ proc[w] = "down" /\ ~connected[w] /\ \A g \in Goroutines : pc[w][g] = "off"
  BY DEF Init
<1> QED BY <1>1 DEF ClientOf, Linked, Goroutines

LEMMA ClientImplies == ClientInv => OnlyRedirectsBreakClient
BY DEF ClientInv, ClientOf, OnlyRedirectsBreakClient

(* However often processes crash and calls are lost, only a redirect can   *)
(* leave a connected client without an open connection or end the process. *)
THEOREM ClientConsistent == Spec => []OnlyRedirectsBreakClient
<1>1. Spec => []ClientInv
  BY InitClient, NextKeepsClient, TypeCorrect, PTL DEF Spec
<1> QED BY <1>1, ClientImplies, PTL

-----------------------------------------------------------------------------
(* Worker and Overlord agree on who is registered.                         *)

(* A goroutine of a Worker does nothing to Overlords and their registries. *)
LEMMA StepLeavesRegistry ==
  ASSUME NEW w \in Workers, NEW g \in Goroutines, Step(w, g)
  PROVE  UNCHANGED <<oup, epoch, reg, poll, listen, accepted>>
<1>1. CASE LinkStep(w, g)
  BY <1>1 DEF LinkStep, CheckOld, CloseOld, ForgetOld, Dial, StoreConn, StoreClient,
    SendRegister, RegisterOk, RegisterFailed, ClearConn, Panic, Ends, ovars
<1>2. CASE HeartbeatStep(w)
  BY <1>2 DEF HeartbeatStep, Tick, SendHeartbeat, HeartbeatOk, HeartbeatFailed, ovars
<1>3. CASE Disconnect(w) \/ Readdress(w)
  BY <1>3 DEF Disconnect, Readdress, ovars
<1> QED BY <1>1, <1>2, <1>3 DEF Step

(* A step that touches neither the registry nor what Workers were told.    *)
LEMMA KnownUnchanged ==
  ASSUME KnownInv, UNCHANGED <<oup, epoch, reg, listen, accepted>>
  PROVE  KnownInv'
BY DEF KnownInv, ListensAsTold, NotFromFuture, AcceptedHasState

(* A step that rewrites entries, but none into "no entry".                 *)
LEMMA StatesKept ==
  ASSUME KnownInv, UNCHANGED <<oup, epoch, listen, accepted>>,
         \A o \in Overlords : \A w \in Workers :
           reg[o][w].state # "NONE" => reg'[o][w].state # "NONE"
  PROVE  KnownInv'
BY DEF KnownInv, ListensAsTold, NotFromFuture, AcceptedHasState

(* Serving a call never forgets a Worker; serving a registration of a      *)
(* Worker that listens makes it known.                                     *)
LEMMA ServedKnown ==
  ASSUME TypeOK, NEW o \in Overlords, NEW w \in Workers,
         Register(o, w) \/ Heartbeat(o, w)
  PROVE  \A p \in Overlords : \A v \in Workers :
           reg[p][v].state # "NONE" => reg'[p][v].state # "NONE"
BY DEF Register, Heartbeat, Registered, Entry, NoEntry, TypeOK, RegTypes

LEMMA RegisterKnown ==
  ASSUME TypeOK, NEW o \in Overlords, NEW w \in Workers,
         Register(o, w), ~TokenRequired, listen[w] # NoAddr
  PROVE  reg'[o][w].state = "RUNNING"
BY DEF Register, Registered, Entry, TypeOK, RegTypes

(* A served registration whose acceptance arrives.                         *)
LEMMA AcceptKeepsKnown ==
  ASSUME AllListen, TypeOK, KnownInv, NEW o \in Overlords, NEW w \in Workers,
         Register(o, w), UNCHANGED <<oup, epoch, listen>>,
         \/ UNCHANGED accepted
         \/ /\ ~TokenRequired
            /\ accepted' = [accepted EXCEPT ![w] = [o |-> o, e |-> epoch[o]]]
  PROVE  KnownInv'
<1>1. ListensAsTold'
  BY DEF KnownInv, ListensAsTold
<1>2. NotFromFuture'
  <2>1. \A p \in Overlords : epoch[p] \in Nat
    BY DEF TypeOK, RegTypes
  <2>2. \A v \in Workers : accepted'[v] = accepted[v]
                         \/ accepted'[v] = [o |-> o, e |-> epoch[o]]
    BY DEF TypeOK, HistoryTypes
  <2> QED BY <2>1, <2>2 DEF KnownInv, NotFromFuture
<1>3. AcceptedHasState'
  <2>1. CASE UNCHANGED accepted
    BY <2>1, ServedKnown DEF KnownInv, AcceptedHasState
  <2>2. CASE /\ ~TokenRequired
             /\ accepted' = [accepted EXCEPT ![w] = [o |-> o, e |-> epoch[o]]]
    <3>1. reg'[o][w].state = "RUNNING"
      BY <2>2, RegisterKnown DEF AllListen, KnownInv, ListensAsTold
    <3>2. accepted'[w].o = o
      BY <2>2 DEF TypeOK, HistoryTypes
    <3>3. \A v \in Workers \ {w} : accepted'[v] = accepted[v]
      BY <2>2 DEF TypeOK, HistoryTypes
    <3> QED BY <3>1, <3>2, <3>3, ServedKnown DEF KnownInv, AcceptedHasState
  <2> QED BY <2>1, <2>2
<1> QED BY <1>1, <1>2, <1>3 DEF KnownInv

LEMMA CallsKeepKnown ==
  ASSUME AllListen, TypeOK, KnownInv, NEW w \in Workers,
         NEW g \in Goroutines, CallEnds(w, g)
  PROVE  KnownInv'
<1>1. ASSUME NEW o \in Overlords, ServeRegister(o, w, g) PROVE KnownInv'
  BY <1>1, AcceptKeepsKnown DEF ServeRegister, Reply
<1>2. ASSUME NEW o \in Overlords, ServeHeartbeat(o, w) PROVE KnownInv'
  BY <1>2, ServedKnown, StatesKept DEF ServeHeartbeat
<1>3. CASE CallFails(w, g)
  BY <1>3, KnownUnchanged DEF CallFails, ovars
<1> QED BY <1>1, <1>2, <1>3 DEF CallEnds

LEMMA PollKeepsKnown ==
  ASSUME TypeOK, KnownInv, NEW o \in Overlords,
         PollStep(o) \/ \E w \in Workers : Expire(o, w)
  PROVE  KnownInv'
<1> DEFINE Kept == \A p \in Overlords : \A v \in Workers :
                     reg[p][v].state # "NONE" => reg'[p][v].state # "NONE"
<1>1. ASSUME NEW w \in Workers, Expire(o, w) PROVE Kept
  BY <1>1 DEF Expire, TypeOK, RegTypes, Entries
<1>2. ASSUME PollTick(o) PROVE Kept
  BY <1>2 DEF PollTick, TypeOK, RegTypes, Entries
<1>3. ASSUME PollApply(o) PROVE Kept
  BY <1>3 DEF PollApply, Polled, Entry, TypeOK, RegTypes, Entries
<1>4. ASSUME NEW w \in Workers, PollAsk(o, w) PROVE KnownInv'
  BY <1>4, KnownUnchanged DEF PollAsk
<1>5. CASE \E w \in Workers : Expire(o, w)
  BY <1>1, <1>5, StatesKept DEF Expire
<1>6. CASE PollTick(o) \/ PollApply(o)
  BY <1>2, <1>3, <1>6, StatesKept DEF PollTick, PollApply
<1> QED BY <1>4, <1>5, <1>6 DEF PollStep

LEMMA ProcessKeepsKnown ==
  ASSUME TypeOK, KnownInv,
         \/ \E w \in Workers : StartWorker(w) \/ CrashWorker(w)
         \/ \E o \in Overlords : CrashOverlord(o) \/ StartOverlord(o)
  PROVE  KnownInv'
<1>1. ASSUME NEW w \in Workers, StartWorker(w) PROVE KnownInv'
  BY <1>1 DEF StartWorker, ovars, TypeOK, ProcTypes, KnownInv, ListensAsTold,
    NotFromFuture, AcceptedHasState
<1>2. ASSUME NEW w \in Workers, CrashWorker(w) PROVE KnownInv'
  BY <1>2, KnownUnchanged DEF CrashWorker, Ends, ovars
<1>3. ASSUME NEW o \in Overlords, CrashOverlord(o) PROVE KnownInv'
  BY <1>3 DEF CrashOverlord, TypeOK, RegTypes, KnownInv, ListensAsTold,
    NotFromFuture, AcceptedHasState
<1>4. ASSUME NEW o \in Overlords, StartOverlord(o) PROVE KnownInv'
  <2>1. ListensAsTold'
    BY <1>4 DEF StartOverlord, KnownInv, ListensAsTold
  <2>2. \A w \in Workers : accepted[w].o = o => accepted[w].e < epoch'[o]
    BY <1>4 DEF StartOverlord, TypeOK, RegTypes, HistoryTypes, KnownInv, NotFromFuture
  <2>3. NotFromFuture' /\ AcceptedHasState'
    BY <1>4, <2>2 DEF StartOverlord, TypeOK, RegTypes, HistoryTypes, KnownInv,
      NotFromFuture, AcceptedHasState
  <2> QED BY <2>1, <2>3 DEF KnownInv
<1> QED BY <1>1, <1>2, <1>3, <1>4

LEMMA NextKeepsKnown ==
  ASSUME AllListen, TypeOK, KnownInv, [Next]_vars
  PROVE  KnownInv'
<1>1. CASE UNCHANGED vars
  BY <1>1, KnownUnchanged DEF vars, ovars
<1>2. ASSUME NEW w \in Workers, NEW g \in Goroutines, Step(w, g) PROVE KnownInv'
  BY <1>2, StepLeavesRegistry, KnownUnchanged
<1>3. ASSUME NEW w \in Workers, RedirectTo(w) PROVE KnownInv'
  BY <1>3, KnownUnchanged DEF RedirectTo, ovars
<1>4. CASE Next
  BY <1>2, <1>3, <1>4, CallsKeepKnown, PollKeepsKnown, ProcessKeepsKnown DEF Next
<1> QED BY <1>1, <1>4

LEMMA InitKnown == Init => KnownInv
BY Names DEF Init, NoReg, KnownInv, ListensAsTold, NotFromFuture, AcceptedHasState

LEMMA KnownImplies == TypeOK /\ KnownInv => AcceptedStaysKnown
BY DEF TypeOK, HistoryTypes, KnownInv, AcceptedHasState, AcceptedStaysKnown, NoEntry

(* If all Workers listen, none that was told "accepted" is unknown to the  *)
(* Overlord before that restarts: heartbeats are refused after a restart   *)
(* of the Overlord and at no other time.                                   *)
THEOREM AcceptedKnown ==
  ASSUME AllListen
  PROVE  Spec => []AcceptedStaysKnown
<1>1. TypeOK /\ KnownInv /\ [Next]_vars => KnownInv'
  BY NextKeepsKnown, AllListen
<1>2. Spec => []KnownInv
  BY <1>1, InitKnown, TypeCorrect, PTL DEF Spec
<1> QED BY <1>2, TypeCorrect, KnownImplies, PTL

-----------------------------------------------------------------------------
(* The registry implements Membership.                                     *)

(* A state other than NONE makes an entry, and the poller asks and marks   *)
(* only Workers that have one.                                             *)
EntriesWhole ==
  \A o \in Overlords : \A w \in Workers :
    reg[o][w].state = "NONE" => reg[o][w] = NoEntry
PollsKnown ==
  \A o \in Overlords : \A w \in Workers :
    w \in poll[o].todo \/ w = poll[o].cur => reg[o][w].state # "NONE"

MemberInv == EntriesWhole /\ PollsKnown

(* What may happen to the registries in one step.                          *)
Kept == \A o \in Overlords : \A w \in Workers :
          reg[o][w].state # "NONE" => reg'[o][w].state # "NONE"

(* No Worker is added.                                                     *)
NoneAdmitted == \A o \in Overlords : \A w \in Workers :
                  reg[o][w].state = "NONE" => reg'[o][w].state = "NONE"

LEMMA MembersUnchanged ==
  ASSUME UNCHANGED oup, Kept, NoneAdmitted
  PROVE  UNCHANGED Registry!vars
BY DEF Registry!vars, Members, Kept, NoneAdmitted

LEMMA PollsStayKnown ==
  ASSUME MemberInv, Kept, UNCHANGED poll
  PROVE  PollsKnown'
BY DEF MemberInv, PollsKnown, Kept

(* A registration admits its Worker, or changes nothing.                   *)
LEMMA RegisterAdmits ==
  ASSUME TypeOK, MemberInv, NEW o \in Overlords, NEW w \in Workers, oup[o],
         Register(o, w), UNCHANGED <<oup, poll>>
  PROVE  MemberInv' /\ (Registry!Admit(o, w) \/ UNCHANGED Registry!vars)
<1>1. CASE UNCHANGED reg
  BY <1>1 DEF MemberInv, EntriesWhole, PollsKnown, Registry!vars, Members
<1>2. CASE reg' = [reg EXCEPT ![o][w] = Registered(o, w)]
  <2>1. reg'[o][w] = Registered(o, w)
    BY <1>2 DEF TypeOK, RegTypes
  <2>2. \A p \in Overlords : \A v \in Workers :
          <<p, v>> # <<o, w>> => reg'[p][v] = reg[p][v]
    BY <1>2 DEF TypeOK, RegTypes
  <2>3. Registered(o, w) = NoEntry \/ Registered(o, w).state = "RUNNING"
    BY DEF Registered, Entry
  <2>4. Registered(o, w) = NoEntry => reg[o][w] = NoEntry
    BY DEF Registered, Entry, NoEntry
  <2>5. NoEntry.state = "NONE"
    BY DEF NoEntry
  <2>6. EntriesWhole'
    BY <2>1, <2>2, <2>3 DEF MemberInv, EntriesWhole
  <2>7. Kept
    BY <2>1, <2>2, <2>3, <2>4, <2>5 DEF Kept
  <2>8. Registry!Admit(o, w) \/ UNCHANGED Registry!vars
    <3>1. CASE Registered(o, w) = NoEntry
      BY <3>1, <2>1, <2>2, <2>5, <2>7, MembersUnchanged DEF NoneAdmitted
    <3>2. CASE Registered(o, w).state = "RUNNING"
      <4>1. Members' = [Members EXCEPT ![o] = @ \cup {w}]
        <5>1. \A v \in Workers : reg'[o][v].state # "NONE" <=> reg[o][v].state # "NONE" \/ v = w
          BY <3>2, <2>1, <2>2
        <5>2. \A p \in Overlords \ {o} : \A v \in Workers : reg'[p][v] = reg[p][v]
          BY <2>2
        <5>3. \A p \in Overlords :
                {v \in Workers : reg'[p][v].state # "NONE"} =
                IF p = o THEN {v \in Workers : reg[p][v].state # "NONE"} \cup {w}
                ELSE {v \in Workers : reg[p][v].state # "NONE"}
          BY <5>1, <5>2
        <5> QED BY <5>3 DEF Members
      <4> QED BY <4>1 DEF Registry!Admit
    <3> QED BY <2>3, <3>1, <3>2
  <2> QED BY <2>6, <2>7, <2>8, PollsStayKnown DEF MemberInv
<1> QED BY <1>1, <1>2 DEF Register

(* A heartbeat admits nobody.                                              *)
LEMMA HeartbeatAdmitsNone ==
  ASSUME TypeOK, MemberInv, NEW o \in Overlords, NEW w \in Workers,
         Heartbeat(o, w), UNCHANGED <<oup, poll>>
  PROVE  MemberInv' /\ UNCHANGED Registry!vars
<1>1. CASE UNCHANGED reg
  BY <1>1 DEF MemberInv, EntriesWhole, PollsKnown, Registry!vars, Members
<1>2. CASE reg[o][w] # NoEntry /\ reg' = [reg EXCEPT ![o][w] = Entry(@.addr, "RUNNING")]
  <2>1. reg'[o][w].state = "RUNNING" /\ reg[o][w].state # "NONE"
    BY <1>2 DEF TypeOK, RegTypes, Entry, MemberInv, EntriesWhole
  <2>2. \A p \in Overlords : \A v \in Workers :
          <<p, v>> # <<o, w>> => reg'[p][v] = reg[p][v]
    BY <1>2 DEF TypeOK, RegTypes
  <2>3. EntriesWhole' /\ Kept /\ NoneAdmitted
    BY <2>1, <2>2 DEF MemberInv, EntriesWhole, Kept, NoneAdmitted
  <2> QED BY <2>3, PollsStayKnown, MembersUnchanged DEF MemberInv
<1> QED BY <1>1, <1>2 DEF Heartbeat

LEMMA PollAdmitsNone ==
  ASSUME TypeOK, MemberInv, NEW o \in Overlords,
         PollStep(o) \/ \E w \in Workers : Expire(o, w)
  PROVE  MemberInv' /\ UNCHANGED Registry!vars
<1>1. ASSUME NEW w \in Workers, Expire(o, w)
      PROVE  MemberInv' /\ UNCHANGED Registry!vars
  <2>1. reg[o][w].state # "NONE"
    BY <1>1 DEF Expire, MemberInv, EntriesWhole, NoEntry
  <2>2. reg'[o][w].state = reg[o][w].state
    BY <1>1 DEF Expire, TypeOK, RegTypes, Entries
  <2>3. \A p \in Overlords : \A v \in Workers :
          <<p, v>> # <<o, w>> => reg'[p][v] = reg[p][v]
    BY <1>1 DEF Expire, TypeOK, RegTypes
  <2>4. EntriesWhole' /\ Kept /\ NoneAdmitted
    BY <2>1, <2>2, <2>3 DEF MemberInv, EntriesWhole, Kept, NoneAdmitted
  <2> QED BY <1>1, <2>4, PollsStayKnown, MembersUnchanged DEF Expire, MemberInv
<1>2. ASSUME PollTick(o)
      PROVE  MemberInv' /\ UNCHANGED Registry!vars
  <2>1. \A w \in Workers :
          reg'[o][w] = IF TimedOut(o, w) THEN [reg[o][w] EXCEPT !.state = "OFFLINE"]
                       ELSE reg[o][w]
    BY <1>2 DEF PollTick, TypeOK, RegTypes
  <2>2. \A p \in Overlords \ {o} : reg'[p] = reg[p] /\ poll'[p] = poll[p]
    BY <1>2 DEF PollTick, TypeOK, RegTypes, PollTypes
  <2>3. ASSUME NEW w \in Workers
        PROVE  \/ reg'[o][w] = reg[o][w]
               \/ reg[o][w].state # "NONE" /\ reg'[o][w].state # "NONE"
    <3>1. CASE TimedOut(o, w)
      <4>1. reg'[o][w] = [reg[o][w] EXCEPT !.state = "OFFLINE"] /\ reg[o][w] \in Entries
        BY <2>1, <3>1 DEF TypeOK, RegTypes
      <4> QED BY <3>1, <4>1 DEF TimedOut, Entries
    <3> QED BY <2>1, <3>1
  <2>4. EntriesWhole' /\ Kept /\ NoneAdmitted
    BY <2>2, <2>3 DEF MemberInv, EntriesWhole, Kept, NoneAdmitted
  <2>5. poll'[o].todo = {w \in Workers : reg[o][w] # NoEntry} /\ poll'[o].cur = Idle
    BY <1>2 DEF PollTick, IdlePoll, TypeOK, PollTypes
  <2>6. PollsKnown'
    BY <2>2, <2>4, <2>5, Names DEF MemberInv, EntriesWhole, PollsKnown, Kept
  <2> QED BY <1>2, <2>4, <2>6, MembersUnchanged DEF PollTick, MemberInv
<1>3. ASSUME NEW w \in Workers, PollAsk(o, w)
      PROVE  MemberInv' /\ UNCHANGED Registry!vars
  <2>1. poll'[o].todo \subseteq poll[o].todo /\ poll'[o].cur = w
    BY <1>3 DEF PollAsk, TypeOK, PollTypes
  <2>2. \A p \in Overlords \ {o} : poll'[p] = poll[p]
    BY <1>3 DEF PollAsk, TypeOK, PollTypes
  <2>3. w \in poll[o].todo /\ UNCHANGED <<oup, reg>>
    BY <1>3 DEF PollAsk
  <2> QED BY <2>1, <2>2, <2>3 DEF MemberInv, EntriesWhole, PollsKnown, Registry!vars, Members
<1>4. ASSUME PollApply(o)
      PROVE  MemberInv' /\ UNCHANGED Registry!vars
  <2> DEFINE w == poll[o].cur
  <2>1. w \in Workers /\ reg[o][w].state # "NONE"
    BY <1>4 DEF PollApply, TypeOK, PollTypes, MemberInv, PollsKnown
  <2>2. reg'[o][w].state \in {"RUNNING", "OFFLINE"}
    BY <1>4, <2>1 DEF PollApply, Polled, Entry, TypeOK, RegTypes, Entries
  <2>3. \A p \in Overlords : \A v \in Workers :
          <<p, v>> # <<o, w>> => reg'[p][v] = reg[p][v]
    BY <1>4 DEF PollApply, TypeOK, RegTypes
  <2>4. EntriesWhole' /\ Kept /\ NoneAdmitted
    BY <2>1, <2>2, <2>3 DEF MemberInv, EntriesWhole, Kept, NoneAdmitted
  <2>5. \A p \in Overlords : poll'[p].todo = poll[p].todo
                            /\ (poll'[p].cur = poll[p].cur \/ poll'[p].cur = Idle)
    BY <1>4 DEF PollApply, TypeOK, PollTypes
  <2>6. PollsKnown'
    BY <2>4, <2>5, Names DEF MemberInv, PollsKnown, Kept
  <2> QED BY <1>4, <2>4, <2>6, MembersUnchanged DEF PollApply, MemberInv
<1> QED BY <1>1, <1>2, <1>3, <1>4 DEF PollStep

LEMMA ProcessImplements ==
  ASSUME TypeOK, MemberInv, NEW o \in Overlords
  PROVE  /\ CrashOverlord(o) => MemberInv' /\ Registry!Die(o)
         /\ StartOverlord(o) => MemberInv' /\ Registry!Start(o)
<1>1. ASSUME CrashOverlord(o) PROVE MemberInv' /\ Registry!Die(o)
  <2>1. \A w \in Workers : reg'[o][w] = NoEntry
    BY <1>1 DEF CrashOverlord, TypeOK, RegTypes
  <2>2. \A p \in Overlords \ {o} : reg'[p] = reg[p] /\ poll'[p] = poll[p]
    BY <1>1 DEF CrashOverlord, TypeOK, RegTypes, PollTypes
  <2>3. poll'[o] = IdlePoll
    BY <1>1 DEF CrashOverlord, TypeOK, PollTypes
  <2>4. MemberInv'
    BY <2>1, <2>2, <2>3, Names DEF MemberInv, EntriesWhole, PollsKnown, IdlePoll
  <2>5. Members' = [Members EXCEPT ![o] = {}]
    <3>1. \A p \in Overlords :
            {w \in Workers : reg'[p][w].state # "NONE"} =
            IF p = o THEN {} ELSE {w \in Workers : reg[p][w].state # "NONE"}
      BY <2>1, <2>2 DEF NoEntry
    <3> QED BY <3>1 DEF Members
  <2> QED BY <1>1, <2>4, <2>5 DEF CrashOverlord, Registry!Die
<1>2. ASSUME StartOverlord(o) PROVE MemberInv' /\ Registry!Start(o)
  BY <1>2 DEF StartOverlord, MemberInv, EntriesWhole, PollsKnown, Registry!Start, Members
<1> QED BY <1>1, <1>2

LEMMA NextImplements ==
  ASSUME TypeOK, MemberInv, [Next]_vars
  PROVE  MemberInv' /\ [Registry!Next]_Registry!vars
<1>1. ASSUME UNCHANGED <<oup, reg, poll>>
      PROVE  MemberInv' /\ UNCHANGED Registry!vars
  BY <1>1 DEF MemberInv, EntriesWhole, PollsKnown, Registry!vars, Members
<1>2. ASSUME NEW w \in Workers, StartWorker(w) \/ CrashWorker(w) \/ RedirectTo(w)
      PROVE  UNCHANGED <<oup, reg, poll>>
  BY <1>2 DEF StartWorker, CrashWorker, RedirectTo, ovars
<1>3. ASSUME NEW w \in Workers, NEW g \in Goroutines, Step(w, g) \/ CallEnds(w, g)
      PROVE  MemberInv' /\ [Registry!Next]_Registry!vars
  <2>1. CASE Step(w, g)
    BY <2>1, <1>1, StepLeavesRegistry
  <2>2. ASSUME NEW o \in Overlords, ServeRegister(o, w, g)
        PROVE  MemberInv' /\ [Registry!Next]_Registry!vars
    BY <2>2, RegisterAdmits DEF ServeRegister, Registry!Next
  <2>3. ASSUME NEW o \in Overlords, ServeHeartbeat(o, w)
        PROVE  MemberInv' /\ [Registry!Next]_Registry!vars
    BY <2>3, HeartbeatAdmitsNone DEF ServeHeartbeat
  <2>4. CASE CallFails(w, g)
    BY <2>4, <1>1 DEF CallFails, ovars
  <2> QED BY <1>3, <2>1, <2>2, <2>3, <2>4 DEF CallEnds
<1>4. ASSUME NEW w \in Workers, NEW o \in Overlords, Expire(o, w)
      PROVE  MemberInv' /\ [Registry!Next]_Registry!vars
  BY <1>4, PollAdmitsNone
<1>5. ASSUME NEW o \in Overlords, PollStep(o) \/ CrashOverlord(o) \/ StartOverlord(o)
      PROVE  MemberInv' /\ [Registry!Next]_Registry!vars
  BY <1>5, PollAdmitsNone, ProcessImplements DEF Registry!Next
<1>6. CASE UNCHANGED vars
  BY <1>6, <1>1 DEF vars, ovars
<1> QED BY <1>1, <1>2, <1>3, <1>4, <1>5, <1>6 DEF Next

(* WorkerLink implements Membership: whatever handlers, heartbeats,        *)
(* timeouts and polls do to the entries concurrently, and with redirects,  *)
(* an Overlord forgets a Worker only by restarting.                        *)
THEOREM OnlyAdmits == Spec => RegistryOnlyAdmits
<1>1. Init => MemberInv /\ Registry!Init
  BY Names DEF Init, MemberInv, EntriesWhole, PollsKnown, IdlePoll, NoEntry, Registry!Init, Members
<1>2. TypeOK /\ MemberInv /\ [Next]_vars => MemberInv' /\ [Registry!Next]_Registry!vars
  BY NextImplements
<1> QED BY <1>1, <1>2, TypeCorrect, PTL DEF Spec, RegistryOnlyAdmits, Registry!Spec
=============================================================================
