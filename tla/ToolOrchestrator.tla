-------------------------- MODULE ToolOrchestrator --------------------------
(***************************************************************************)
(* How the tool calls of the model's answers are executed:                 *)
(* Orchestrator in engine/tool/orchestrator.go, for the rounds of one run. *)
(* In a round the read-only calls run in goroutines, at most               *)
(* MaxConcurrency at a time; when all have ended the writing calls run one *)
(* after the other.  Successful reads are cached for the run, by tool and  *)
(* arguments, which together are a key here.                               *)
(*                                                                         *)
(* Of the database only the number of writes done so far counts, version;  *)
(* the value of a read is the version it saw.                              *)
(***************************************************************************)
EXTENDS Integers, FiniteSets

CONSTANTS
  Rounds,           \* bound: answers with tool calls in the run
  Calls,            \* the calls of the run, numbered in order
  RoundOf,          \* RoundOf[c]: the round of the call
  Keys, KeyOf,      \* KeyOf[c]: its tool and arguments
  WriteKeys,        \* the keys whose tool has a SecurityLevel above 0
  MaxConcurrency

ASSUME OrchestratorAssumption ==
  /\ Rounds \in Nat
  /\ Calls \subseteq Nat
  /\ IsFiniteSet(Calls)
  /\ RoundOf \in [Calls -> 1..Rounds]
  /\ KeyOf \in [Calls -> Keys]
  /\ WriteKeys \subseteq Keys
  /\ MaxConcurrency \in Nat \ {0}

VARIABLES
  round,      \* the number of Execute calls made
  phase,      \* where the last of them is
  st,         \* what became of each call
  val,        \* the value of its result, -1 without one
  cache,      \* dedupCache, -1 without an entry
  version,    \* writes done
  seen,       \* history: the version when the round began
  ran         \* history: the reads the executor was asked for

toolsVars == <<round, phase, st, val, cache, version, seen, ran>>

IsRead(c)  == KeyOf[c] \notin WriteKeys
InRound    == {c \in Calls : RoundOf[c] = round}
Reads      == {c \in InRound : IsRead(c)}
Writes     == InRound \ Reads
Holding    == {c \in Reads : st[c] \in {"running", "read"}}
Over       == {"answered", "failed", "panicked"}

ToolsInit ==
  /\ round = 0 /\ phase = "idle"
  /\ st = [c \in Calls |-> "new"]
  /\ val = [c \in Calls |-> -1]
  /\ cache = [k \in Keys |-> -1]
  /\ version = 0 /\ seen = 0 /\ ran = {}

(* Execute: the calls are partitioned and a goroutine starts for each read.*)
Execute ==
  /\ phase = "idle" /\ round < Rounds
  /\ round' = round + 1
  /\ phase' = "reads"
  /\ seen' = version
  /\ UNCHANGED <<st, val, cache, version, ran>>

(* Mutant: the semaphore has a slot too many.                              *)
SlotFree_OneMore == Cardinality(Holding) <= MaxConcurrency

(* A goroutine gets a slot of the semaphore and looks into the cache; a    *)
(* hit ends it.                                                            *)
SlotFree == Cardinality(Holding) < MaxConcurrency

Begin(c) ==
  /\ phase = "reads" /\ c \in Reads /\ st[c] = "new"
  /\ SlotFree
  /\ IF cache[KeyOf[c]] # -1
       THEN /\ st' = [st EXCEPT ![c] = "answered"]
            /\ val' = [val EXCEPT ![c] = cache[KeyOf[c]]]
            /\ UNCHANGED ran
       ELSE /\ st' = [st EXCEPT ![c] = "running"]
            /\ ran' = ran \cup {c}
            /\ UNCHANGED val
  /\ UNCHANGED <<round, phase, cache, version, seen>>

(* The executor returns a result; an error, which is not cached; or        *)
(* panics, which SafeGo recovers from: the deferred functions give back    *)
(* the slot and count the goroutine as ended.                              *)
AfterPanic == "panicked"

Read(c) ==
  /\ phase = "reads" /\ c \in Reads /\ st[c] = "running"
  /\ \/ /\ st' = [st EXCEPT ![c] = "read"]
        /\ val' = [val EXCEPT ![c] = version]
     \/ /\ st' = [st EXCEPT ![c] = "failed"]
        /\ UNCHANGED val
     \/ /\ st' = [st EXCEPT ![c] = AfterPanic]
        /\ UNCHANGED val
  /\ UNCHANGED <<round, phase, cache, version, seen, ran>>

(* Mutant: all reads share one entry.                                      *)
CacheKey_Tool(c) == CHOOSE k \in Keys : k \notin WriteKeys

(* The result is cached and sent.                                          *)
CacheKey(c) == KeyOf[c]

Store(c) ==
  /\ phase = "reads" /\ c \in Reads /\ st[c] = "read"
  /\ cache' = [cache EXCEPT ![CacheKey(c)] = val[c]]
  /\ st' = [st EXCEPT ![c] = "answered"]
  /\ UNCHANGED <<round, phase, val, version, seen, ran>>

(* Mutant: a panicked goroutine is not counted as ended.                   *)
AllEnded_NoPanics == \A c \in Reads : st[c] \in {"answered", "failed"}

(* wg.Wait: all goroutines have ended.                                     *)
AllEnded == \A c \in Reads : st[c] \in Over

Wait ==
  /\ phase = "reads" /\ AllEnded
  /\ phase' = "writes"
  /\ UNCHANGED <<round, st, val, cache, version, seen, ran>>

(* The writing calls in their order, each started after the one before.    *)
NextWrite(c) == /\ \A d \in Writes : d < c => st[d] \in Over
                /\ st[c] = "new"

StartWrite(c) ==
  /\ phase = "writes" /\ c \in Writes /\ NextWrite(c)
  /\ st' = [st EXCEPT ![c] = "running"]
  /\ UNCHANGED <<round, phase, val, cache, version, seen, ran>>

(* A write is done or fails; a panic of it is not recovered from and ends  *)
(* the run.                                                                *)
EndWrite(c) ==
  /\ phase = "writes" /\ c \in Writes /\ st[c] = "running"
  /\ \/ /\ version' = version + 1
        /\ st' = [st EXCEPT ![c] = "answered"]
        /\ val' = [val EXCEPT ![c] = version + 1]
        /\ UNCHANGED phase
     \/ /\ st' = [st EXCEPT ![c] = "failed"]
        /\ UNCHANGED <<version, val, phase>>
     \/ /\ st' = [st EXCEPT ![c] = "panicked"]
        /\ phase' = "crashed"
        /\ UNCHANGED <<version, val>>
  /\ UNCHANGED <<round, cache, seen, ran>>

(* Mutant: the caller returns when the writes have started.                *)
WritesEnded_Started == \A c \in Writes : st[c] # "new"

(* Execute returns the results.                                            *)
WritesEnded == \A c \in Writes : st[c] \in Over

ReturnResults ==
  /\ phase = "writes" /\ WritesEnded
  /\ phase' = "idle"
  /\ UNCHANGED <<round, st, val, cache, version, seen, ran>>

Goroutine(c) == Begin(c) \/ Read(c) \/ Store(c)
Caller == \/ Wait \/ ReturnResults
          \/ \E c \in Calls : StartWrite(c) \/ EndWrite(c)

ToolsNext == Execute \/ Caller \/ \E c \in Calls : Goroutine(c)

ToolsSpec == ToolsInit /\ [][ToolsNext]_toolsVars

(* Goroutines and the caller are scheduled and every tool call ends: the   *)
(* run has a deadline.                                                     *)
ToolsFairSpec == /\ ToolsSpec
                 /\ WF_toolsVars(Caller)
                 /\ \A c \in Calls : WF_toolsVars(Goroutine(c))

-----------------------------------------------------------------------------
(* Properties.                                                             *)

(* All variables keep their types.                                         *)
ToolsTypeOK ==
  /\ round \in 0..Rounds
  /\ phase \in {"idle", "reads", "writes", "crashed"}
  /\ st \in [Calls -> {"new", "running", "read"} \cup Over]
  /\ val \in [Calls -> Int]
  /\ cache \in [Keys -> Int]
  /\ version \in Nat /\ seen \in Nat
  /\ ran \subseteq Calls

(* "Write tools run serially after all reads complete"                     *)
(* (orchestrator.go:72): while a write runs, no other call does, and no    *)
(* more than MaxConcurrency reads ever do.                                 *)
WritesAlone ==
  /\ \A c, d \in Calls : ~IsRead(c) /\ st[c] = "running" /\ d # c =>
       st[d] \notin {"running", "read"}
  /\ Cardinality({c \in Calls : IsRead(c) /\ st[c] \in {"running", "read"}})
       <= MaxConcurrency

(* When Execute has returned, every call has a result except the reads     *)
(* that panicked: what the loop appends to the conversation.               *)
EveryCallAnswered ==
  phase = "idle" => \A c \in Calls : RoundOf[c] <= round =>
    st[c] \in {"answered", "failed"} \/ (IsRead(c) /\ st[c] = "panicked")

(* A read sees every write of the earlier rounds, or it repeats a call of  *)
(* an earlier round and is answered from the cache.                        *)
StaleOnlyRepeats ==
  \A c \in Reads : st[c] = "answered" /\ val[c] < seen =>
    \E d \in Calls : /\ RoundOf[d] < round /\ KeyOf[d] = KeyOf[c]
                     /\ st[d] = "answered" /\ val[d] = val[c]

(* A read that was answered in an earlier round is not executed again.     *)
NotExecutedAgain ==
  \A c, d \in ran : KeyOf[c] = KeyOf[d] /\ RoundOf[c] < RoundOf[d] =>
    st[c] # "answered"

(* Execute returns, whatever panics, unless a write panics.                *)
Returns == phase = "reads" ~> phase \in {"idle", "crashed"}

=============================================================================
