----------------------------- MODULE WorkerLink -----------------------------
(***************************************************************************)
(* The link between the Workers of a region and their Overlords: the       *)
(* client in drone/overlord_client.go (initial Connect, heartbeat loop,    *)
(* reconnect, RedirectTo), the Overlord's AgentService handlers            *)
(* (overlord/agent_service.go) and its Worker registry with the status     *)
(* poller (overlord/worker_conn.go).                                       *)
(*                                                                         *)
(* Every unary RPC is a call that is served, or fails, while its caller    *)
(* waits: the caller resumes in a step of its own, so that whatever other  *)
(* goroutines do in between is explored.  The fields of the client are     *)
(* shared without a lock by the goroutine that runs Connect, the heartbeat *)
(* loop it starts and the gRPC handler that runs RedirectTo: each access   *)
(* to a field, and each Close, is a step.                                  *)
(***************************************************************************)
EXTENDS Naturals, FiniteSets

CONSTANTS
  Workers,        \* Worker ids
  Overlords,      \* Overlord ids, each with one fixed address
  Addrs,          \* listen addresses of Workers
  NoAddr,         \* a Worker without a gRPC listener (ListenAddr = "")
  ListenOf,       \* ListenOf[w]: the addresses w may be started with
  HomeOf,         \* HomeOf[w]: the Overlord named in w's configuration
  TokenRequired,  \* is a join token configured at the Overlords?
  Links,          \* names for the connections a Worker has at a time
  MaxFailures,    \* maxFailures of StartHeartbeat
  MaxCrashes,     \* bound: process crashes, over all processes
  MaxLosses,      \* bound: calls lost although the callee is up
  MaxRedirects    \* bound: RedirectWorker calls

ASSUME LinkAssumption ==
  /\ NoAddr \notin Addrs /\ "none" \notin Overlords /\ "idle" \notin Workers
  /\ ListenOf \in [Workers -> SUBSET (Addrs \cup {NoAddr})]
  /\ HomeOf \in [Workers -> Overlords]
  /\ TokenRequired \in BOOLEAN
  /\ Links \subseteq Nat \ {0}
  /\ MaxFailures \in Nat \ {0}
  /\ MaxCrashes \in Nat /\ MaxLosses \in Nat /\ MaxRedirects \in Nat

VARIABLES
  oup,        \* is the Overlord process up?
  epoch,      \* incarnation of the Overlord process
  reg,        \* WorkerManager.workers: the entry of each Worker
  poll,       \* the status poller: Workers still to ask, the one being asked
  proc,       \* the Worker process: down, up, panicked
  listen,     \* the Worker's listen address
  home,       \* OverlordClient.overlordAddr
  conn,       \* OverlordClient.conn
  client,     \* the connection OverlordClient.client is bound to
  connected,  \* OverlordClient.connected
  open,       \* the connections that are not closed
  pc,         \* where each goroutine of the client is
  new,        \* the connection it has dialled and not yet stored
  call,       \* the call it waits for: on which connection, the answer
  failures,   \* consecutiveFailures of StartHeartbeat
  raced,      \* history: RedirectTo overlapped the last (re)connection
  accepted,   \* history: the last registration the Worker was told of
  crashes, losses, redirects

ovars   == <<oup, epoch, reg, poll>>
cvars   == <<home, conn, client, connected, open>>
gvars   == <<pc, new, call, failures, raced>>
bounds  == <<crashes, losses, redirects>>
vars    == <<ovars, proc, listen, cvars, gvars, accepted, bounds>>

NoEntry == [addr |-> NoAddr, state |-> "NONE", fresh |-> FALSE]
Entry(a, s) == [addr |-> a, state |-> s, fresh |-> TRUE]
Entries == [addr : Addrs \cup {NoAddr},
            state : {"NONE", "RUNNING", "OFFLINE"}, fresh : BOOLEAN]

Ans  == {"none", "pending", "ok", "err"}
Idle == "idle"
NoReg == [o |-> "none", e |-> 0]
IdlePoll == [todo |-> {}, cur |-> Idle, ans |-> "none"]

(* The goroutine of Connect, the heartbeat loop and RedirectTo.            *)
Goroutines == {"connect", "heartbeat", "redirect"}

(* A connection, known by a name, to an Overlord; nil is none.             *)
NoConn == [id |-> 0, to |-> "none"]
NoCall == [on |-> NoConn, ans |-> "none"]

(* The process of w runs: its gRPC server answers.                         *)
Alive(w) == proc[w] = "up"

RegTypes ==
  /\ oup \in [Overlords -> BOOLEAN]
  /\ epoch \in [Overlords -> Nat]
  /\ reg \in [Overlords -> [Workers -> Entries]]
PollTypes ==
  poll \in [Overlords -> [todo : SUBSET Workers, cur : Workers \cup {Idle}, ans : Ans]]
Conns == {NoConn} \cup [id : Links, to : Overlords]
ProcTypes ==
  /\ proc \in [Workers -> {"down", "up", "panicked"}]
  /\ listen \in [Workers -> Addrs \cup {NoAddr}]
ClientTypes ==
  /\ home \in [Workers -> Overlords]
  /\ conn \in [Workers -> Conns] /\ client \in [Workers -> Conns]
  /\ connected \in [Workers -> BOOLEAN]
  /\ open \in [Workers -> SUBSET Links]
Places == {"off", "boot", "check", "close", "forget", "disconnect", "readdress",
           "dial", "store", "bind", "send", "register", "clear", "done",
           "failed", "wait", "probe", "beat"}
GoroutineTypes ==
  /\ pc \in [Workers -> [Goroutines -> Places]]
  /\ new \in [Workers -> [Goroutines -> Conns]]
  /\ call \in [Workers -> [Goroutines -> [on : Conns, ans : Ans]]]
  /\ failures \in [Workers -> 0 .. MaxFailures - 1]
  /\ raced \in [Workers -> BOOLEAN]
HistoryTypes ==
  /\ accepted \in [Workers -> [o : Overlords \cup {"none"}, e : Nat]]
BoundTypes ==
  /\ crashes \in 0 .. MaxCrashes
  /\ losses \in 0 .. MaxLosses
  /\ redirects \in [Workers -> 0 .. MaxRedirects]

TypeOK ==
  /\ RegTypes /\ PollTypes /\ ProcTypes /\ ClientTypes /\ GoroutineTypes
  /\ HistoryTypes /\ BoundTypes

-----------------------------------------------------------------------------
(* Overlord: the AgentService handlers.                                    *)

(* The registry after Register of w at o: AddWorker keeps an existing      *)
(* entry with its address and connection, adds none without an address;    *)
(* then the entry, if there is one, becomes RUNNING and just seen.         *)
Registered(o, w) ==
  LET e == reg[o][w] IN
  IF e # NoEntry THEN Entry(e.addr, "RUNNING")
  ELSE IF listen[w] # NoAddr THEN Entry(listen[w], "RUNNING") ELSE NoEntry

(* Mutant: an unknown Worker that registers gets no entry.                 *)
Register_ForgetsNew(o, w) ==
  IF reg[o][w] = NoEntry THEN UNCHANGED reg
  ELSE reg' = [reg EXCEPT ![o][w] = Registered(o, w)]

(* o serves the Register call of w: with a token configured the call is    *)
(* refused, for no client sends one.                                       *)
Register(o, w) ==
  IF TokenRequired THEN UNCHANGED reg
  ELSE reg' = [reg EXCEPT ![o][w] = Registered(o, w)]

(* o serves a Heartbeat of w: it refreshes the entry, if there is one.     *)
Heartbeat(o, w) ==
  IF reg[o][w] = NoEntry THEN UNCHANGED reg
  ELSE reg' = [reg EXCEPT ![o][w] = Entry(@.addr, "RUNNING")]

(* Mutant: heartbeats of unknown Workers are acknowledged too.             *)
Acknowledges_All(o, w) == TRUE

(* A heartbeat is acknowledged only if its Worker is in the registry.      *)
Acknowledges(o, w) == reg[o][w] # NoEntry

(* A reply that was sent arrives, or is lost; ok says which reply it is.   *)
Reply(ok, ans) ==
  \/ /\ ans = IF ok THEN "ok" ELSE "err"
     /\ UNCHANGED losses
  \/ /\ ok /\ ans = "err"
     /\ losses < MaxLosses
     /\ losses' = losses + 1

(* A call that never reaches its callee, because that is down or the call  *)
(* is lost.                                                                *)
Unreached(o) ==
  \/ ~oup[o] /\ UNCHANGED losses
  \/ oup[o] /\ losses < MaxLosses /\ losses' = losses + 1

-----------------------------------------------------------------------------
(* Worker: the client.  Connect, reconnect and RedirectTo have the steps in *)
(* common that close the old connection, dial, store and register; g is the *)
(* goroutine that takes one.                                               *)

Goto(w, g, place) == pc' = [pc EXCEPT ![w][g] = place]
Nils(w) == conn[w] = NoConn

(* The connections of w that something still refers to.                    *)
InUse(w) == {conn[w].id, client[w].id}
            \cup {new[w][g].id : g \in Goroutines}
            \cup {call[w][g].on.id : g \in Goroutines}

(* The first name that is free.                                            *)
IsFresh(w, c) ==
  c \in Links \ InUse(w) /\ \A d \in Links \ InUse(w) : c <= d

(* g, which waits for no call any more, closes the connection: the calls    *)
(* others have pending on it fail.                                         *)
Close(w, g) ==
  /\ open' = [open EXCEPT ![w] = @ \ {conn[w].id}]
  /\ call' = [call EXCEPT ![w] = [h \in Goroutines |->
       IF h = g THEN NoCall
       ELSE IF @[h].ans = "pending" /\ @[h].on = conn[w]
       THEN [@[h] EXCEPT !.ans = "err"] ELSE @[h]]]

(* A call is made on the connection the client is bound to.                *)
Invoke(w, g) ==
  call' = [call EXCEPT ![w][g] =
    [on |-> client[w], ans |-> IF client[w].id \in open[w] THEN "pending" ELSE "err"]]
Returned(w, g) == call' = [call EXCEPT ![w][g] = NoCall]

(* What a process that ends leaves behind.                                 *)
Ends(w) ==
  /\ conn' = [conn EXCEPT ![w] = NoConn]
  /\ client' = [client EXCEPT ![w] = NoConn]
  /\ connected' = [connected EXCEPT ![w] = FALSE]
  /\ open' = [open EXCEPT ![w] = {}]
  /\ pc' = [pc EXCEPT ![w] = [g \in Goroutines |-> "off"]]
  /\ new' = [new EXCEPT ![w] = [g \in Goroutines |-> NoConn]]
  /\ call' = [call EXCEPT ![w] = [g \in Goroutines |-> NoCall]]
  /\ failures' = [failures EXCEPT ![w] = 0]
  /\ raced' = [raced EXCEPT ![w] = FALSE]
  /\ UNCHANGED <<home, listen>>

(* oc.conn.Close() on a nil connection ends the process.                   *)
Panic(w) ==
  /\ proc' = [proc EXCEPT ![w] = "panicked"]
  /\ Ends(w)
  /\ UNCHANGED <<ovars, accepted, bounds>>

(* if oc.conn != nil ...                                                   *)
CheckOld(w, g) ==
  /\ pc[w][g] = "check"
  /\ Goto(w, g, IF ~Nils(w) THEN "close"
                 ELSE IF g = "redirect" THEN "disconnect" ELSE "dial")
  /\ UNCHANGED <<ovars, proc, listen, cvars, new, call, failures, raced,
                 accepted, bounds>>

(* ... oc.conn.Close() ...                                                 *)
CloseOld(w, g) ==
  /\ pc[w][g] = "close"
  /\ \/ /\ Nils(w) /\ Panic(w)
     \/ /\ ~Nils(w) /\ Close(w, g)
        /\ Goto(w, g, "forget")
        /\ UNCHANGED <<ovars, proc, listen, home, conn, client, connected,
                       new, failures, raced, accepted, bounds>>

(* ... oc.conn = nil.                                                      *)
ForgetOld(w, g) ==
  /\ pc[w][g] = "forget"
  /\ conn' = [conn EXCEPT ![w] = NoConn]
  /\ Goto(w, g, IF g = "redirect" THEN "disconnect" ELSE "dial")
  /\ UNCHANGED <<ovars, proc, listen, home, client, connected, open, new,
                 call, failures, raced, accepted, bounds>>

(* NewClient: dial the address as it is now.                               *)
Dial(w, g) ==
  /\ pc[w][g] \in {"boot", "dial"}
  /\ \E c \in Links :
       /\ IsFresh(w, c)
       /\ new' = [new EXCEPT ![w][g] = [id |-> c, to |-> home[w]]]
       /\ open' = [open EXCEPT ![w] = (@ \cap InUse(w)) \cup {c}]
  /\ raced' = [raced EXCEPT ![w] =
       IF g = "connect" THEN pc[w]["redirect"] # "off" ELSE @]
  /\ Goto(w, g, "store")
  /\ UNCHANGED <<ovars, proc, listen, home, conn, client, connected, call,
                 failures, accepted, bounds>>

(* Mutant: the new connection is used, but not stored in the client.       *)
StoreConn_Not(w, g) ==
  /\ pc[w][g] = "store"
  /\ Goto(w, g, "bind")
  /\ UNCHANGED <<ovars, proc, listen, cvars, new, call, failures, raced,
                 accepted, bounds>>

(* oc.conn = conn: one another goroutine stored meanwhile is overwritten,  *)
(* not closed.                                                             *)
StoreConn(w, g) ==
  /\ pc[w][g] = "store"
  /\ conn' = [conn EXCEPT ![w] = new[w][g]]
  /\ Goto(w, g, "bind")
  /\ UNCHANGED <<ovars, proc, listen, home, client, connected, open, new,
                 call, failures, raced, accepted, bounds>>

(* oc.client = NewAgentServiceClient(conn).                                *)
StoreClient(w, g) ==
  /\ pc[w][g] = "bind"
  /\ client' = [client EXCEPT ![w] = new[w][g]]
  /\ new' = [new EXCEPT ![w][g] = NoConn]
  /\ Goto(w, g, "send")
  /\ UNCHANGED <<ovars, proc, listen, home, conn, connected, open, call,
                 failures, raced, accepted, bounds>>

(* oc.client.Register: on the client as it is now.                         *)
SendRegister(w, g) ==
  /\ pc[w][g] = "send"
  /\ Invoke(w, g)
  /\ Goto(w, g, "register")
  /\ UNCHANGED <<ovars, proc, listen, cvars, new, failures, raced, accepted,
                 bounds>>

(* Registered: only a successful Connect starts the heartbeat goroutine.   *)
RegisterOk(w, g) ==
  /\ pc[w][g] = "register" /\ call[w][g].ans = "ok"
  /\ connected' = [connected EXCEPT ![w] = TRUE]
  /\ Returned(w, g)
  /\ pc' = [pc EXCEPT ![w] =
       CASE g = "connect"   -> [@ EXCEPT !["connect"] = "done", !["heartbeat"] = "wait"]
         [] g = "heartbeat" -> [@ EXCEPT !["heartbeat"] = "wait"]
         [] g = "redirect"  -> [@ EXCEPT !["redirect"] = "off"]]
  /\ UNCHANGED <<ovars, proc, listen, home, conn, client, open, new, failures,
                 raced, accepted, bounds>>

(* Not registered: oc.conn.Close(), whichever connection that is now ...   *)
RegisterFailed(w, g) ==
  /\ pc[w][g] = "register" /\ call[w][g].ans = "err"
  /\ \/ /\ Nils(w) /\ Panic(w)
     \/ /\ ~Nils(w) /\ Close(w, g)
        /\ Goto(w, g, IF g = "connect" THEN "failed" ELSE "clear")
        /\ UNCHANGED <<ovars, proc, listen, home, conn, client, connected,
                       new, failures, raced, accepted, bounds>>

(* ... and, but for Connect, oc.conn = nil.                                *)
ClearConn(w, g) ==
  /\ pc[w][g] = "clear"
  /\ conn' = [conn EXCEPT ![w] = NoConn]
  /\ Goto(w, g, IF g = "heartbeat" THEN "wait" ELSE "off")
  /\ UNCHANGED <<ovars, proc, listen, home, client, connected, open, new,
                 call, failures, raced, accepted, bounds>>

(* The heartbeat ticker: with a connected client the health is looked up,  *)
(* else reconnect begins.                                                  *)
Tick(w) ==
  /\ pc[w]["heartbeat"] = "wait"
  /\ Goto(w, "heartbeat", IF connected[w] THEN "probe" ELSE "check")
  /\ raced' = [raced EXCEPT ![w] =
       IF connected[w] THEN @ ELSE pc[w]["redirect"] # "off"]
  /\ UNCHANGED <<ovars, proc, listen, cvars, new, call, failures, accepted,
                 bounds>>

SendHeartbeat(w) ==
  /\ pc[w]["heartbeat"] = "probe"
  /\ Invoke(w, "heartbeat")
  /\ Goto(w, "heartbeat", "beat")
  /\ UNCHANGED <<ovars, proc, listen, cvars, new, failures, raced, accepted,
                 bounds>>

HeartbeatOk(w) ==
  /\ pc[w]["heartbeat"] = "beat" /\ call[w]["heartbeat"].ans = "ok"
  /\ failures' = [failures EXCEPT ![w] = 0]
  /\ Returned(w, "heartbeat")
  /\ Goto(w, "heartbeat", "wait")
  /\ UNCHANGED <<ovars, proc, listen, cvars, new, raced, accepted, bounds>>

(* Does the next failure after n in a row give the link up?                *)
GivesUp(n) == n + 1 >= MaxFailures

(* A failed heartbeat: the MaxFailures-th in a row gives the link up.      *)
HeartbeatFailed(w) ==
  /\ pc[w]["heartbeat"] = "beat" /\ call[w]["heartbeat"].ans = "err"
  /\ IF GivesUp(failures[w])
     THEN /\ connected' = [connected EXCEPT ![w] = FALSE]
          /\ failures' = [failures EXCEPT ![w] = 0]
     ELSE /\ failures' = [failures EXCEPT ![w] = @ + 1]
          /\ UNCHANGED connected
  /\ Returned(w, "heartbeat")
  /\ Goto(w, "heartbeat", "wait")
  /\ UNCHANGED <<ovars, proc, listen, home, conn, client, open, new, raced,
                 accepted, bounds>>

(* Does g hold steps of a connection that is being made?                   *)
Linking(w, g) ==
  pc[w][g] \notin {"off", "boot", "done", "failed", "wait", "probe", "beat"}

(* RedirectTo begins, called by the gRPC handler for Cerebrate's           *)
(* RedirectWorker (one at a time) ...                                      *)
RedirectTo(w) ==
  /\ Alive(w) /\ pc[w]["redirect"] = "off" /\ listen[w] # NoAddr
  /\ redirects[w] < MaxRedirects
  /\ redirects' = [redirects EXCEPT ![w] = @ + 1]
  /\ Goto(w, "redirect", "check")
  /\ raced' = [raced EXCEPT ![w] = Linking(w, "connect") \/ Linking(w, "heartbeat")]
  /\ UNCHANGED <<ovars, proc, listen, cvars, new, call, failures, accepted,
                 crashes, losses>>

(* ... when the old connection is gone: oc.connected = false ...           *)
Disconnect(w) ==
  /\ pc[w]["redirect"] = "disconnect"
  /\ connected' = [connected EXCEPT ![w] = FALSE]
  /\ Goto(w, "redirect", "readdress")
  /\ UNCHANGED <<ovars, proc, listen, home, conn, client, open, new, call,
                 failures, raced, accepted, bounds>>

(* ... and oc.overlordAddr = newAddr, whichever Cerebrate named; nobody    *)
(* else writes it before NewClient(newAddr).                               *)
Readdress(w) ==
  /\ pc[w]["redirect"] = "readdress"
  /\ \E o \in Overlords : home' = [home EXCEPT ![w] = o]
  /\ Goto(w, "redirect", "dial")
  /\ UNCHANGED <<ovars, proc, listen, conn, client, connected, open, new,
                 call, failures, raced, accepted, bounds>>

-----------------------------------------------------------------------------
(* The calls reach the Overlord, or fail.                                  *)

(* o serves the registration g waits for.                                  *)
ServeRegister(o, w, g) ==
  /\ pc[w][g] = "register"
  /\ call[w][g].ans = "pending" /\ call[w][g].on.to = o /\ oup[o]
  /\ Register(o, w)
  /\ \E ans \in {"ok", "err"} :
       /\ Reply(~TokenRequired, ans)
       /\ call' = [call EXCEPT ![w][g].ans = ans]
       /\ accepted' = IF ans = "ok"
            THEN [accepted EXCEPT ![w] = [o |-> o, e |-> epoch[o]]] ELSE accepted
  /\ UNCHANGED <<oup, epoch, poll, proc, listen, cvars, pc, new, failures,
                 raced, crashes, redirects>>

(* o serves the heartbeat the loop waits for.                              *)
ServeHeartbeat(o, w) ==
  /\ pc[w]["heartbeat"] = "beat"
  /\ call[w]["heartbeat"].ans = "pending" /\ call[w]["heartbeat"].on.to = o
  /\ oup[o]
  /\ Heartbeat(o, w)
  /\ \E ans \in {"ok", "err"} :
       /\ Reply(Acknowledges(o, w), ans)
       /\ call' = [call EXCEPT ![w]["heartbeat"].ans = ans]
  /\ UNCHANGED <<oup, epoch, poll, proc, listen, cvars, pc, new, failures,
                 raced, accepted, crashes, redirects>>

CallFails(w, g) ==
  /\ call[w][g].ans = "pending" /\ Unreached(call[w][g].on.to)
  /\ call' = [call EXCEPT ![w][g].ans = "err"]
  /\ UNCHANGED <<ovars, proc, listen, cvars, pc, new, failures, raced,
                 accepted, crashes, redirects>>

-----------------------------------------------------------------------------
(* The Overlord's status poller.                                           *)

(* More than HeartbeatTimeout has passed since LastSeen of the entry.      *)
Expire(o, w) ==
  /\ reg[o][w].fresh
  /\ reg' = [reg EXCEPT ![o][w].fresh = FALSE]
  /\ UNCHANGED <<oup, epoch, poll, proc, listen, cvars, gvars, accepted, bounds>>

TimedOut(o, w) == reg[o][w].state = "RUNNING" /\ ~reg[o][w].fresh

(* The ticker: CheckHeartbeatTimeouts, then the ids to poll are copied.    *)
PollTick(o) ==
  /\ oup[o] /\ poll[o] = IdlePoll
  /\ reg' = [reg EXCEPT ![o] =
       [w \in Workers |-> IF TimedOut(o, w)
                          THEN [@[w] EXCEPT !.state = "OFFLINE"] ELSE @[w]]]
  /\ poll' = [poll EXCEPT ![o] =
       [IdlePoll EXCEPT !.todo = {w \in Workers : reg[o][w] # NoEntry}]]
  /\ UNCHANGED <<oup, epoch, proc, listen, cvars, gvars, accepted, bounds>>

(* GetWorkerStatus of w: GetStatus is answered by whichever process has    *)
(* the address of the entry, or fails.  The answer is applied later.       *)
PollAsk(o, w) ==
  /\ oup[o] /\ w \in poll[o].todo /\ poll[o].cur = Idle
  /\ \/ /\ \E v \in Workers : Alive(v) /\ listen[v] = reg[o][w].addr
        /\ poll' = [poll EXCEPT ![o] =
             [todo |-> @.todo \ {w}, cur |-> w, ans |-> "ok"]]
        /\ UNCHANGED losses
     \/ /\ \/ /\ \A v \in Workers : ~(Alive(v) /\ listen[v] = reg[o][w].addr)
              /\ UNCHANGED losses
           \/ losses < MaxLosses /\ losses' = losses + 1
        /\ poll' = [poll EXCEPT ![o] =
             [todo |-> @.todo \ {w}, cur |-> w, ans |-> "err"]]
  /\ UNCHANGED <<oup, epoch, reg, proc, listen, cvars, gvars, accepted, crashes,
                 redirects>>

(* Mutant: an error leaves the entry as it is.                             *)
Polled_IgnoresErrors(e, ans) ==
  IF ans = "ok" THEN Entry(e.addr, "RUNNING") ELSE e

(* Mutant: an error removes the entry.                                     *)
Polled_Removes(e, ans) ==
  IF ans = "ok" THEN Entry(e.addr, "RUNNING") ELSE NoEntry

(* The answer updates the cached entry; an error marks the Worker OFFLINE  *)
(* (markWorkerOffline) and leaves LastSeen alone.                          *)
Polled(e, ans) ==
  IF ans = "ok" THEN Entry(e.addr, "RUNNING") ELSE [e EXCEPT !.state = "OFFLINE"]

PollApply(o) ==
  /\ oup[o] /\ poll[o].cur # Idle
  /\ reg' = [reg EXCEPT ![o][poll[o].cur] = Polled(@, poll[o].ans)]
  /\ poll' = [poll EXCEPT ![o].cur = Idle, ![o].ans = "none"]
  /\ UNCHANGED <<oup, epoch, proc, listen, cvars, gvars, accepted, bounds>>

-----------------------------------------------------------------------------
(* Processes start and die.                                                *)

(* A Worker process starts with the address of its configuration.          *)
StartWorker(w) ==
  /\ proc[w] = "down"
  /\ proc' = [proc EXCEPT ![w] = "up"]
  /\ \E a \in ListenOf[w] : listen' = [listen EXCEPT ![w] = a]
  /\ home' = [home EXCEPT ![w] = HomeOf[w]]
  /\ Goto(w, "connect", "boot")
  /\ UNCHANGED <<ovars, conn, client, connected, open, new, call, failures,
                 raced, accepted, bounds>>

CrashWorker(w) ==
  /\ Alive(w) /\ crashes < MaxCrashes
  /\ crashes' = crashes + 1
  /\ proc' = [proc EXCEPT ![w] = "down"]
  /\ Ends(w)
  /\ UNCHANGED <<ovars, accepted, losses, redirects>>

(* An Overlord keeps its registry in memory only.                          *)
CrashOverlord(o) ==
  /\ oup[o] /\ crashes < MaxCrashes
  /\ crashes' = crashes + 1
  /\ oup' = [oup EXCEPT ![o] = FALSE]
  /\ reg' = [reg EXCEPT ![o] = [w \in Workers |-> NoEntry]]
  /\ poll' = [poll EXCEPT ![o] = IdlePoll]
  /\ UNCHANGED <<epoch, proc, listen, cvars, gvars, accepted, losses, redirects>>

StartOverlord(o) ==
  /\ ~oup[o]
  /\ oup' = [oup EXCEPT ![o] = TRUE]
  /\ epoch' = [epoch EXCEPT ![o] = @ + 1]
  /\ UNCHANGED <<reg, poll, proc, listen, cvars, gvars, accepted, bounds>>

-----------------------------------------------------------------------------
Init ==
  /\ oup \in [Overlords -> BOOLEAN]
  /\ epoch = [o \in Overlords |-> 0]
  /\ reg = [o \in Overlords |-> [w \in Workers |-> NoEntry]]
  /\ poll = [o \in Overlords |-> IdlePoll]
  /\ proc = [w \in Workers |-> "down"]
  /\ listen \in [Workers -> Addrs \cup {NoAddr}]
  /\ \A w \in Workers : listen[w] \in ListenOf[w]
  /\ home = HomeOf
  /\ conn = [w \in Workers |-> NoConn] /\ client = [w \in Workers |-> NoConn]
  /\ connected = [w \in Workers |-> FALSE]
  /\ open = [w \in Workers |-> {}]
  /\ pc = [w \in Workers |-> [g \in Goroutines |-> "off"]]
  /\ new = [w \in Workers |-> [g \in Goroutines |-> NoConn]]
  /\ call = [w \in Workers |-> [g \in Goroutines |-> NoCall]]
  /\ failures = [w \in Workers |-> 0]
  /\ raced = [w \in Workers |-> FALSE]
  /\ accepted = [w \in Workers |-> NoReg]
  /\ crashes = 0 /\ losses = 0
  /\ redirects = [w \in Workers |-> 0]

LinkStep(w, g) ==
  \/ CheckOld(w, g) \/ CloseOld(w, g) \/ ForgetOld(w, g) \/ Dial(w, g)
  \/ StoreConn(w, g) \/ StoreClient(w, g) \/ SendRegister(w, g)
  \/ RegisterOk(w, g) \/ RegisterFailed(w, g) \/ ClearConn(w, g)

HeartbeatStep(w) ==
  Tick(w) \/ SendHeartbeat(w) \/ HeartbeatOk(w) \/ HeartbeatFailed(w)

(* A step of goroutine g of the Worker.                                    *)
Step(w, g) ==
  \/ LinkStep(w, g)
  \/ g = "heartbeat" /\ HeartbeatStep(w)
  \/ g = "redirect" /\ (Disconnect(w) \/ Readdress(w))

CallEnds(w, g) ==
  \/ CallFails(w, g)
  \/ \E o \in Overlords : ServeRegister(o, w, g)
  \/ g = "heartbeat" /\ \E o \in Overlords : ServeHeartbeat(o, w)

PollStep(o) ==
  PollTick(o) \/ PollApply(o) \/ \E w \in Workers : PollAsk(o, w)

Next ==
  \/ \E w \in Workers :
       \/ \E g \in Goroutines : Step(w, g) \/ CallEnds(w, g)
       \/ StartWorker(w) \/ CrashWorker(w) \/ RedirectTo(w)
       \/ \E o \in Overlords : Expire(o, w)
  \/ \E o \in Overlords : PollStep(o) \/ CrashOverlord(o) \/ StartOverlord(o)

(* Goroutines that can run do run and calls end; nothing forces a process  *)
(* to start, to die, to be redirected, or a heartbeat to be late.          *)
Fairness ==
  /\ \A w \in Workers : \A g \in Goroutines :
       WF_vars(Step(w, g)) /\ WF_vars(CallEnds(w, g))
  /\ \A o \in Overlords : WF_vars(PollStep(o))

Spec == Init /\ [][Next]_vars
FairSpec == Spec /\ Fairness

-----------------------------------------------------------------------------
(* Safety.                                                                 *)

(* Without a redirect the unsynchronised client stays consistent: a        *)
(* connected client calls on the connection it will close, which is open,  *)
(* and no goroutine of the Worker closes a nil connection                  *)
(* (overlord_client.go:85, 145, 167, 235).                                 *)
OnlyRedirectsBreakClient ==
  \A w \in Workers : redirects[w] = 0 =>
    /\ connected[w] => client[w] = conn[w] /\ conn[w].id \in open[w]
    /\ proc[w] # "panicked"

(* A Worker that was told "accepted" stays in that Overlord's registry     *)
(* until the Overlord restarts, so that only a restart makes a heartbeat   *)
(* be refused as coming from an unknown Worker (agent_service.go:123).     *)
AcceptedStaysKnown ==
  \A w \in Workers : \A o \in Overlords :
    accepted[w] = [o |-> o, e |-> epoch[o]] /\ oup[o] => reg[o][w] # NoEntry

-----------------------------------------------------------------------------
(* Liveness.                                                               *)

Joining(w) == Alive(w) /\ pc[w]["connect"] # "failed"

(* Once its heartbeat goroutine runs, a Worker that stays up and whose     *)
(* Overlord stays up is, again and again, RUNNING in that Overlord's       *)
(* registry, whatever restarts and losses came before (ISSUE-006, -012).   *)
(* Where a redirect overlapped its last connection that is the Overlord    *)
(* the client calls, which need not be the one it was sent to: Connect and *)
(* reconnect may have read the old address before RedirectTo wrote the new *)
(* one, and have stored their connection after it (overlord_client.go:68   *)
(* and :150 against :218-227).                                             *)
Rejoins ==
  \A w \in Workers :
    <>[](Joining(w) /\ listen[w] # NoAddr /\ oup[home[w]])
    => []<>(\E o \in Overlords :
              /\ o = IF raced[w] THEN client[w].to ELSE home[w]
              /\ reg[o][w].state = "RUNNING")

(* A Worker that stays dead does not stay RUNNING in any registry          *)
(* (worker_conn.go:148: "Workers that fail to respond are marked offline"),*)
(* unless another process answers at the address the registry has of it:   *)
(* the poller takes any answer there for the Worker's (worker_conn.go:130).*)
Unanswered(o, w) ==
  ~Alive(w) /\ \A v \in Workers : ~(Alive(v) /\ listen[v] = reg[o][w].addr)

DeadIsNoticed ==
  \A w \in Workers : \A o \in Overlords :
    <>[]Unanswered(o, w) => <>[](reg[o][w].state # "RUNNING" \/ ~oup[o])

-----------------------------------------------------------------------------
(* Refinement.                                                             *)

Members == [o \in Overlords |-> {w \in Workers : reg[o][w].state # "NONE"}]

Registry == INSTANCE Membership WITH up <- oup, member <- Members

(* Handlers, heartbeats, timeouts and polls, in every order, only admit    *)
(* Workers to a registry: an Overlord forgets one only by restarting       *)
(* (worker_conn.go:71-200 against agent_service.go:69-131).                *)
RegistryOnlyAdmits == Registry!Spec
=============================================================================
