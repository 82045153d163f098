----------------------------- MODULE AgentLoop -----------------------------
(***************************************************************************)
(* The diagnosis loop of the agent engine: Engine.Run in engine/engine.go  *)
(* with the context compression of engine/context and the session file of  *)
(* engine/session.  A user asks Runs questions in one session; for each    *)
(* the engine alternates model calls and tool calls until the model        *)
(* answers, the turns are used up, or the model cannot be reached.         *)
(*                                                                         *)
(* The model is an arbitrary environment.  Of a text only its origin is    *)
(* kept: the run, the turn and which part of that turn's answer it is.     *)
(* Token counts are abstracted: the counter may ask for compression before *)
(* any turn but the first.  The reminders that are added to a single       *)
(* request only, usage figures and thinking text are left out.             *)
(***************************************************************************)
EXTENDS Integers, Sequences, FiniteSets

CONSTANTS
  Runs,                 \* bound: questions asked in the session
  TurnLimit,            \* TurnLimit[r]: EngineInput.MaxTurns of question r
  MaxCalls,             \* bound: tool calls in one answer
  Speaks,               \* bound: the turns whose texts are kept apart
  MaxOutputRecoveries,  \* EngineConfig.MaxOutputRecoveries
  MaxParseRetries       \* maxParseRetries

ASSUME LoopAssumption ==
  /\ Runs \in Nat
  /\ TurnLimit \in [1..Runs -> Nat \ {0}]
  /\ MaxCalls \in Nat
  /\ Speaks \subseteq Nat
  /\ MaxOutputRecoveries \in Nat
  /\ MaxParseRetries \in Nat

VARIABLES
  pc,             \* where Run is; "idle" between runs
  run,            \* the number of the question
  turn,
  messages,       \* the conversation
  recoveries,     \* outputRecoveries
  parseRetries,
  streamDisabled,
  dedup,          \* is dedupWarning set?
  resp,           \* the answer being worked on
  via,            \* the path it came by
  deliverable,    \* deliverableContent
  invoked,        \* is ToolsInvoked non-empty?
  content,        \* EngineResult.Content
  hit,            \* EngineResult.MaxTurnsHit
  shown, again,   \* texts given to OnStream, and those given twice
  session,        \* the messages of the saved session
  resumed,        \* history: did this run start from a saved session?
  cut,            \* history: was a conversation ever truncated?
  missing,        \* history: did a tool call ever end without a result?
  mixed           \* history: was a text captured that ghost calls kept back?

counters == <<recoveries, parseRetries>>
result   == <<deliverable, invoked, content, hit>>
screen   == <<shown, again>>
answer   == <<resp, via>>
history  == <<resumed, cut, missing, mixed>>
vars     == <<pc, run, turn, messages, counters, streamDisabled,
              dedup, answer, result, screen, session, history>>

-----------------------------------------------------------------------------
(* Texts and messages.                                                     *)

Part == [run : 1..Runs, turn : Nat,
         part : {"ask", "head", "tail", "report", "summary"}]
Message == [role : {"user", "assistant", "tool"}, meta : BOOLEAN,
            text : SUBSET Part, calls : 0..MaxCalls, id : 0..MaxCalls]

Said(part)     == [run |-> run, turn |-> turn, part |-> part]
Meta           == [role |-> "user", meta |-> TRUE, text |-> {}, calls |-> 0, id |-> 0]
Ask(r)         == [Meta EXCEPT !.meta = FALSE,
                               !.text = {[run |-> r, turn |-> 0, part |-> "ask"]}]
Assistant(t, n) == [role |-> "assistant", meta |-> FALSE, text |-> t,
                    calls |-> n, id |-> 0]
Tool(i)        == [role |-> "tool", meta |-> FALSE, text |-> {}, calls |-> 0, id |-> i]

(* The text of an answer; outside of Speaks there may be one that does not *)
(* count.                                                                  *)
Texts == IF turn \in Speaks THEN {{}, {Said("head")}} ELSE {{}}
HasText(r) == turn \in Speaks => r.text # {}
(* An answer: its text, the number of its usable tool calls, whether these *)
(* are all memory writes, whether calls without a name come with them,     *)
(* whether it needs a parse retry, whether it was cut at the token limit.  *)
(* Without a text it makes no difference what the calls write.             *)
Answers ==
  {r \in [text : Texts, calls : 0..MaxCalls, memory : BOOLEAN,
          ghosts : BOOLEAN, retry : BOOLEAN, truncated : BOOLEAN] :
     /\ r.memory => r.calls > 0 /\ r.text # {}
     /\ r.retry => r.calls = 0 /\ ~r.ghosts /\ HasText(r)}
NoAnswer == [text |-> {}, calls |-> 0, memory |-> FALSE, ghosts |-> FALSE,
             retry |-> FALSE, truncated |-> FALSE]

(* Mutant: a text beside memory writes is not shown.                       *)
Flushes_AnswerOnly(r) == ~r.ghosts /\ r.calls = 0

(* shouldFlushContent: no tool calls, or only memory writes.               *)
Flushes(r) == ~r.ghosts /\ (r.calls = 0 \/ r.memory)

Show(t) == /\ shown' = shown \cup t
           /\ again' = again \cup (shown \cap t)

-----------------------------------------------------------------------------
(* Compression.                                                            *)

(* SplitIntoTurns: where the turns of m start.                             *)
TurnStarts(m) == {i \in DOMAIN m : i = 1 \/ m[i].role = "assistant"}

(* The i-th smallest element of a set of numbers.                          *)
Nth(S, i) == CHOOSE x \in S : Cardinality({y \in S : y <= x}) = i

(* Mutant: the kept tail starts after the assistant message that opens it. *)
CollapseTurns_Early(m) ==
  LET starts == TurnStarts(m)
      n      == Cardinality(starts)
  IN  IF n <= 4 THEN m
      ELSE SubSeq(m, 1, Nth(starts, 2) - 1) \o <<Meta>>
           \o SubSeq(m, Nth(starts, n - 2) + 1, Len(m))

(* Mutant: only the last turn is kept.                                     *)
CollapseTurns_LastTurn(m) ==
  LET starts == TurnStarts(m)
      n      == Cardinality(starts)
  IN  IF n <= 4 THEN m
      ELSE SubSeq(m, 1, Nth(starts, 2) - 1) \o <<Meta>>
           \o SubSeq(m, Nth(starts, n), Len(m))

(* CollapseTurns: the first turn, a summary, the last three turns.         *)
CollapseTurns(m) ==
  LET starts == TurnStarts(m)
      n      == Cardinality(starts)
  IN  IF n <= 4 THEN m
      ELSE SubSeq(m, 1, Nth(starts, 2) - 1) \o <<Meta>>
           \o SubSeq(m, Nth(starts, n - 2), Len(m))

(* EmergencyTruncate: the first message, a notice, the last three.         *)
EmergencyTruncate(m) ==
  IF Len(m) <= 4 THEN m
  ELSE <<m[1], Meta>> \o SubSeq(m, Len(m) - 2, Len(m))

(* The session keeps what is not meta, in its order.                       *)
Kept(m) == {i \in DOMAIN m : ~m[i].meta}
Persisted(m) == [k \in 1..Cardinality(Kept(m)) |-> m[Nth(Kept(m), k)]]

-----------------------------------------------------------------------------
Init ==
  /\ pc = "idle" /\ run = 0 /\ turn = 0 /\ messages = <<>>
  /\ recoveries = 0 /\ parseRetries = 0 /\ streamDisabled = FALSE
  /\ dedup = FALSE /\ resp = NoAnswer /\ via = "none"
  /\ deliverable = {} /\ invoked = FALSE /\ content = {} /\ hit = FALSE
  /\ shown = {} /\ again = {} /\ session = <<>>
  /\ resumed = FALSE /\ cut = FALSE /\ missing = FALSE /\ mixed = FALSE

(* Run returns: its local variables, and the engine's, are gone.           *)
Return ==
  /\ pc' = "idle" /\ turn' = 0 /\ messages' = <<>>
  /\ recoveries' = 0 /\ parseRetries' = 0 /\ streamDisabled' = FALSE
  /\ dedup' = FALSE /\ resp' = NoAnswer /\ via' = "none"
  /\ deliverable' = {} /\ invoked' = FALSE /\ content' = {} /\ hit' = FALSE
  /\ shown' = {} /\ again' = {} /\ resumed' = FALSE /\ mixed' = FALSE
  /\ UNCHANGED <<run, cut, missing>>

(* The loop goes on with the next turn; the answer is used up.             *)
Continue ==
  /\ turn' = turn + 1
  /\ resp' = NoAnswer /\ via' = "none"
  /\ pc' = "turn"

(* A new engine takes the next question; a session that cannot be read     *)
(* counts as none.                                                         *)
Start ==
  /\ pc = "idle" /\ run < Runs
  /\ \E saved \in {session, <<>>} :
       /\ messages' = saved \o <<Meta, Ask(run + 1)>>
       /\ resumed' = (saved # <<>>)
  /\ run' = run + 1
  /\ pc' = "turn"
  /\ UNCHANGED <<turn, counters, streamDisabled, dedup, answer, result, screen,
                 session, cut, missing, mixed>>

(* The top of the loop: the warning about repeated calls, compression.     *)
Compress(m) ==
  \/ messages' = m /\ UNCHANGED cut
  \/ turn > 0 /\ messages' = CollapseTurns(m) /\ UNCHANGED cut
  \/ turn > 0 /\ Len(m) > 4 /\ messages' = EmergencyTruncate(m) /\ cut' = TRUE

NextTurn ==
  /\ pc = "turn" /\ turn < TurnLimit[run]
  /\ Compress(IF dedup THEN Append(messages, Meta) ELSE messages)
  /\ dedup' = FALSE
  /\ pc' = "call"
  /\ UNCHANGED <<run, turn, counters, streamDisabled, answer, result,
                 screen, session, resumed, missing, mixed>>

(* The model answers: from the stream; from Chat when the stream gave      *)
(* nothing; after both failed, from a retry; or, with streaming disabled,  *)
(* from Chat at once.  Only the prompt adapter's Chat asks for a retry.    *)
Paths == IF streamDisabled THEN {"chat"} ELSE {"stream", "fallback", "retried"}

Respond(r, path) ==
  /\ pc = "call" /\ path \in Paths
  /\ path = "stream" => ~r.retry
  /\ resp' = [r EXCEPT !.truncated = FALSE] /\ via' = path
  /\ streamDisabled' = (path # "stream")
  /\ IF path \in {"stream", "fallback"} /\ Flushes(r)
       THEN Show(r.text) ELSE UNCHANGED screen
  /\ pc' = IF r.truncated /\ recoveries < MaxOutputRecoveries
             THEN "recover" ELSE "decide"
  /\ UNCHANGED <<run, turn, messages, counters, dedup, result,
                 session, history>>

(* The model cannot be reached: Run returns the error, nothing is saved.   *)
Fail ==
  /\ pc = "call"
  /\ Return
  /\ UNCHANGED session

(* recoverTruncatedOutput: one more call continues the text; its tool      *)
(* calls replace those of the truncated answer.                            *)
Recover ==
  /\ pc = "recover"
  /\ recoveries' = recoveries + 1
  /\ \/ UNCHANGED <<resp, screen>>
     \/ \E r \in Answers :
          LET more == IF r.text = {} THEN {} ELSE {Said("tail")}
          IN  /\ resp' = [r EXCEPT !.text = resp.text \cup more, !.truncated = FALSE]
              /\ Show(more)
  /\ pc' = "decide"
  /\ UNCHANGED <<run, turn, messages, parseRetries, streamDisabled,
                 dedup, via, result, session, history>>

(* A malformed tool call is sent back to the model, and so is an answer    *)
(* that announces a call it does not make.                                 *)
Retries == resp.retry /\ parseRetries < MaxParseRetries

Corrected ==
  /\ messages' = messages \o <<Assistant(resp.text, 0), Meta>>
  /\ Continue
  /\ UNCHANGED <<run, recoveries, streamDisabled, dedup, result, screen,
                 session, history>>

ParseRetry ==
  /\ pc = "decide" /\ Retries
  /\ parseRetries' = parseRetries + 1
  /\ Corrected

Nudge ==
  /\ pc = "decide" /\ ~Retries /\ resp.calls = 0 /\ resp.ghosts /\ HasText(resp)
  /\ turn < TurnLimit[run] - 1
  /\ parseRetries' = parseRetries
  /\ Corrected

(* The result, or what was tried when the model said nothing.              *)
OrSummary(t) == IF t = {} /\ invoked THEN {Said("summary")} ELSE t

(* Mutant: calls without a name count.                                     *)
IsFinal_Named == ~Retries /\ resp.calls = 0 /\ ~resp.ghosts

IsFinal == ~Retries /\ resp.calls = 0

(* Mutant: an answer by way of Chat is shown again.                        *)
UsedStreamRound_NoFallback == via = "stream"

UsedStreamRound == via # "chat"

FinalRound ==
  /\ pc = "decide" /\ IsFinal
  /\ deliverable' = deliverable \cup resp.text
  /\ content' = OrSummary(deliverable')
  /\ IF UsedStreamRound THEN UNCHANGED screen ELSE Show(resp.text)
  /\ messages' = Append(messages, Assistant(resp.text, 0))
  /\ pc' = "save"
  /\ UNCHANGED <<run, turn, counters, streamDisabled, dedup, answer,
                 invoked, hit, session, history>>

CallTools ==
  /\ pc = "decide" /\ resp.calls > 0
  /\ deliverable' = IF resp.memory THEN deliverable \cup resp.text
                                   ELSE deliverable
  /\ mixed' = (mixed \/ (resp.memory /\ resp.ghosts))
  /\ messages' = Append(messages, Assistant(resp.text, resp.calls))
  /\ dedup' \in (IF turn > 0 \/ resp.calls > 1 THEN BOOLEAN ELSE {FALSE})
  /\ pc' = "tools"
  /\ UNCHANGED <<run, turn, counters, streamDisabled, answer, invoked,
                 content, hit, screen, session, resumed, cut, missing>>

(* What Orchestrator.Execute returns for n calls: a result for each, or,   *)
(* when the k-th panicked, for all the others (bound: one in a round).     *)
ToolMessages(n, k) ==
  [i \in 1..(IF k = 0 THEN n ELSE n - 1) |->
     Tool(IF k = 0 \/ i < k THEN i ELSE i + 1)]

ExecuteTools(k) ==
  /\ pc = "tools"
  /\ messages' = messages \o ToolMessages(resp.calls, k)
  /\ missing' = (missing \/ k # 0)
  /\ invoked' = (invoked \/ ToolMessages(resp.calls, k) # <<>>)

ToolsDone ==
  /\ \E k \in 0..resp.calls : ExecuteTools(k)
  /\ Continue
  /\ UNCHANGED <<run, counters, streamDisabled, dedup, deliverable,
                 content, hit, screen, session, resumed, cut, mixed>>

(* A report is passed through to the user and ends the run.                *)
Passthrough ==
  /\ \E k \in 0..resp.calls :
       ExecuteTools(k) /\ ToolMessages(resp.calls, k) # <<>>
  /\ content' = {Said("report")}
  /\ Show(content')
  /\ pc' = "save"
  /\ UNCHANGED <<run, turn, counters, streamDisabled, dedup, answer,
                 deliverable, hit, session, resumed, cut, mixed>>

(* The turns are used up: the last thing the assistant said is the result. *)
LastSaid(m) ==
  LET said == {i \in DOMAIN m : m[i].role = "assistant" /\ m[i].text # {}}
  IN  IF said = {} THEN {}
      ELSE m[CHOOSE i \in said : \A j \in said : j <= i].text

TurnsUsedUp ==
  /\ pc = "turn" /\ turn = TurnLimit[run]
  /\ hit' = TRUE
  /\ content' = OrSummary(LastSaid(messages))
  /\ pc' = "save"
  /\ UNCHANGED <<run, turn, messages, counters, streamDisabled, dedup,
                 answer, deliverable, invoked, screen, session, history>>

(* The memory round leaves the conversation alone; saving is best-effort.  *)
SaveSession ==
  /\ pc = "save"
  /\ session' \in {session, Persisted(messages)}
  /\ Return

CallModel == \E r \in Answers, path \in Paths : Respond(r, path)

Step ==     \/ NextTurn \/ CallModel \/ Fail \/ Recover \/ ParseRetry \/ Nudge
            \/ FinalRound \/ CallTools \/ ToolsDone \/ Passthrough
            \/ TurnsUsedUp \/ SaveSession

Next == Start \/ Step

Spec == Init /\ [][Next]_vars

(* A run goes on by itself; the user asks or does not.  Every model call   *)
(* ends: it has a deadline.                                                *)
FairSpec == Spec /\ WF_vars(Step)

-----------------------------------------------------------------------------
(* Properties.                                                             *)

(* All variables keep their types.                                         *)
TypeOK ==
  /\ pc \in {"idle", "turn", "call", "recover", "decide", "tools", "save"}
  /\ run \in 0..Runs /\ turn \in Nat
  /\ messages \in Seq(Message) /\ session \in Seq(Message)
  /\ recoveries \in 0..MaxOutputRecoveries
  /\ parseRetries \in 0..MaxParseRetries
  /\ resp \in [text : SUBSET Part, calls : 0..MaxCalls, memory : BOOLEAN,
               ghosts : BOOLEAN, retry : BOOLEAN, truncated : BOOLEAN]
  /\ via \in {"none", "stream", "fallback", "retried", "chat"}
  /\ {streamDisabled, dedup, invoked, hit, resumed, cut, missing, mixed} \subseteq BOOLEAN
  /\ {deliverable, content, shown, again} \subseteq SUBSET Part

(* In m the results of an assistant's tool calls follow it at once, one    *)
(* for each call, and there are no others: what the providers demand.      *)
ResultsOf(m, j) == {i \in j+1..Len(m) : \A k \in j+1..i : m[k].role = "tool"}
Paired(m) ==
  /\ \A j \in DOMAIN m : m[j].role # "tool" =>
       /\ {m[i].id : i \in ResultsOf(m, j)} = 1..m[j].calls
       /\ Cardinality(ResultsOf(m, j)) = m[j].calls
  /\ m # <<>> => m[1].role # "tool"

(* Retries, nudges, warnings, collapsed turns and a saved and resumed      *)
(* session never separate a tool call from its result: only an emergency   *)
(* truncation and a panic in a tool do.                                    *)
RequestsPaired ==
  ~cut /\ ~missing => Paired(session) /\ (pc = "call" => Paired(messages))

(* The user's question is in every request of a new session, and in those *)
(* of the first three turns of a resumed one, whatever was collapsed: only *)
(* an emergency truncation drops it.                                       *)
QuestionKept ==
  pc = "call" /\ ~cut /\ (resumed => turn <= 2) =>
    \E i \in DOMAIN messages : messages[i] = Ask(run)

(* A report written beside memory writes is not lost with the turn it was  *)
(* written in (engine.go:199, 407): at any time, however the run goes on   *)
(* or ends, the user has read what was captured or it is in the result.    *)
(* The exceptions are runs in which streaming was given up, a truncated    *)
(* answer was continued, or calls without a name came with the report.     *)
ReportReaches ==
  ~streamDisabled /\ recoveries = 0 /\ ~mixed => deliverable \subseteq shown \cup content

(* No text is given to the user twice, unless a truncated answer was       *)
(* continued after streaming had been given up.                            *)
RepeatsOnlyRecovered ==
  again # {} => recoveries > 0 /\ streamDisabled

(* Every run comes to an end.                                              *)
Ends == pc = "turn" ~> pc = "idle"

=============================================================================
