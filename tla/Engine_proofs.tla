-------------------------- MODULE Engine_proofs --------------------------
(***************************************************************************)
(* Proofs about the engine.  First AgentLoop: what is said once is shown   *)
(* once and a captured report is kept; neither depends on the shape of the *)
(* conversation.  Then the conversation: its type, the pairing of tool     *)
(* calls with their results, and the user's question, through compression, *)
(* saving and resuming.  Then ToolOrchestrator, for any calls, keys,       *)
(* rounds and number of slots: all its safety properties.  At the end the  *)
(* two together: what the loop appends for an answer's tool calls is what  *)
(* the orchestrator returns.                                               *)
(***************************************************************************)
EXTENDS AgentLoop, ToolOrchestrator, TLAPS, FiniteSetTheorems, SequenceTheorems

(* Where Run can be.                                                       *)
Labels == {"idle", "turn", "call", "recover", "decide", "tools", "save"}

Counting == pc \in Labels /\ turn \in Nat /\ recoveries \in Nat

(* What was shown was said in this turn or before, in this turn only after *)
(* the model answered; a report is shown last.                             *)
ShownEarlier ==
  \A p \in shown : /\ p.turn \in Nat /\ p.turn <= turn
                   /\ pc \in {"idle", "turn", "call"} => p.turn < turn
                   /\ pc = "recover" /\ p.turn = turn => p.part = "head"
                   /\ pc # "save" => p.part # "report"

NothingShownIdle == pc = "idle" => shown = {}

(* The answer at hand is of this turn.                                     *)
AnswerOfTurn == \A p \in resp.text : p.turn = turn

(* Chat is used when streaming was given up, and shows nothing itself.     *)
ChatSilent ==
  via = "chat" =>
    /\ streamDisabled
    /\ pc \in {"recover", "decide"} /\ recoveries = 0 =>
         \A p \in shown : p.turn # turn

ShowInv == /\ Counting /\ ShownEarlier /\ NothingShownIdle
           /\ AnswerOfTurn /\ ChatSilent /\ RepeatsOnlyRecovered

LEMMA ShowInit == Init => ShowInv
BY LoopAssumption DEF Init, ShowInv, Counting, Labels, ShownEarlier, NothingShownIdle,
   AnswerOfTurn, NoAnswer, ChatSilent, RepeatsOnlyRecovered

LEMMA ReturnShow == ASSUME Return PROVE ShowInv'
BY DEF Return, ShowInv, Counting, Labels, ShownEarlier, NothingShownIdle, AnswerOfTurn,
   NoAnswer, ChatSilent, RepeatsOnlyRecovered

(* A step that shows nothing and ends in a later label of the same turn.   *)
LEMMA QuietShow ==
  ASSUME ShowInv, UNCHANGED <<turn, recoveries, streamDisabled, answer, screen>>,
         pc' \in Labels \ {"idle", "turn", "recover"}, pc' = "call" => pc = "turn",
         pc # "idle", pc = "save" => pc' = "save",
         pc' = "decide" => pc \in {"recover", "decide"}
  PROVE  ShowInv'
BY DEF ShowInv, Counting, Labels, ShownEarlier, NothingShownIdle, AnswerOfTurn,
   ChatSilent, RepeatsOnlyRecovered, answer, screen

(* The next turn begins.                                                   *)
LEMMA ContinueShow ==
  ASSUME ShowInv, Continue, UNCHANGED <<recoveries, streamDisabled, screen>>,
         pc # "save"
  PROVE  ShowInv'
BY DEF ShowInv, Continue, Counting, Labels, ShownEarlier, NothingShownIdle,
   AnswerOfTurn, NoAnswer, ChatSilent, RepeatsOnlyRecovered, screen

LEMMA RespondShow ==
  ASSUME ShowInv, NEW r \in Answers, NEW path \in Paths, Respond(r, path)
  PROVE  ShowInv'
<1>1. \A p \in r.text : p.turn = turn /\ p.part = "head"
  BY DEF Answers, Texts, Said
<1>2. resp'.text = r.text
  BY DEF Respond, Answers
<1>3. pc = "call" /\ pc' \in {"recover", "decide"} /\ turn' = turn
      /\ recoveries' = recoveries /\ via' = path
  BY DEF Respond, counters
<1>4. CASE UNCHANGED screen
  <2>1. ShownEarlier' /\ NothingShownIdle' /\ Counting'
    BY <1>3, <1>4 DEF ShowInv, ShownEarlier, NothingShownIdle, Counting, Labels, screen
  <2>2. AnswerOfTurn'
    BY <1>1, <1>2, <1>3 DEF AnswerOfTurn
  <2>3. \A p \in shown' : p.turn # turn'
    BY <1>3, <1>4 DEF ShowInv, ShownEarlier, Counting, screen
  <2>4. path = "chat" => streamDisabled'
    BY DEF Respond
  <2>5. again # {} => path # "stream"
    BY DEF ShowInv, RepeatsOnlyRecovered, Respond, Paths
  <2>6. RepeatsOnlyRecovered'
    BY <1>3, <1>4, <2>5 DEF ShowInv, RepeatsOnlyRecovered, Respond, screen
  <2>7. ChatSilent'
    BY <1>3, <2>3, <2>4 DEF ChatSilent
  <2>. QED  BY <2>1, <2>2, <2>6, <2>7 DEF ShowInv
<1>5. CASE Show(r.text) /\ path # "chat"
  <2>1. shown \cap r.text = {}
    BY <1>1, <1>3 DEF ShowInv, ShownEarlier, Counting
  <2>2. \A p \in shown' : p \in shown \/ (p.turn = turn /\ p.part = "head")
    BY <1>1, <1>5 DEF Show
  <2>3. ShownEarlier' /\ NothingShownIdle' /\ Counting'
    BY <1>3, <2>2 DEF ShowInv, ShownEarlier, NothingShownIdle, Counting, Labels
  <2>4. AnswerOfTurn' /\ ChatSilent'
    BY <1>1, <1>2, <1>3, <1>5 DEF AnswerOfTurn, ChatSilent
  <2>5. RepeatsOnlyRecovered'
    BY <1>3, <1>5, <2>1 DEF ShowInv, RepeatsOnlyRecovered, Show, Respond, Paths
  <2>. QED  BY <2>3, <2>4, <2>5 DEF ShowInv
<1>. QED
  BY <1>4, <1>5 DEF Respond

LEMMA RecoverShow == ASSUME ShowInv, Recover PROVE ShowInv'
<1>1. pc = "recover" /\ pc' = "decide" /\ turn' = turn /\ via' = via
      /\ recoveries' = recoveries + 1 /\ streamDisabled' = streamDisabled
  BY DEF Recover
<1>2. CASE UNCHANGED <<resp, screen>>
  BY <1>1, <1>2 DEF ShowInv, Counting, Labels, ShownEarlier, NothingShownIdle,
     AnswerOfTurn, ChatSilent, RepeatsOnlyRecovered, screen
<1>3. ASSUME NEW r \in Answers, NEW more \in {{}, {Said("tail")}},
             resp'.text = resp.text \cup more, Show(more)
      PROVE  ShowInv'
  <2>1. \A p \in more : p.turn = turn /\ p.part = "tail"
    BY DEF Said
  <2>2. shown \cap more = {}
    BY <1>1, <2>1 DEF ShowInv, ShownEarlier
  <2>3. \A p \in shown' : p \in shown \/ (p.turn = turn /\ p.part = "tail")
    BY <1>3, <2>1 DEF Show
  <2>4. ShownEarlier' /\ NothingShownIdle' /\ Counting'
    BY <1>1, <2>3 DEF ShowInv, ShownEarlier, NothingShownIdle, Counting, Labels
  <2>5. AnswerOfTurn' /\ ChatSilent'
    BY <1>1, <1>3, <2>1 DEF ShowInv, Counting, AnswerOfTurn, ChatSilent
  <2>6. RepeatsOnlyRecovered'
    BY <1>1, <1>3, <2>2 DEF ShowInv, Counting, RepeatsOnlyRecovered, Show
  <2>. QED  BY <2>4, <2>5, <2>6 DEF ShowInv
<1>4. \A r \in Answers : \A t : [r EXCEPT !.text = t, !.truncated = FALSE].text = t
  BY DEF Answers
<1>. QED
  BY <1>2, <1>3, <1>4 DEF Recover

LEMMA FinalShow == ASSUME ShowInv, FinalRound PROVE ShowInv'
<1>1. pc = "decide" /\ pc' = "save" /\ turn' = turn /\ recoveries' = recoveries
      /\ UNCHANGED <<streamDisabled, answer>>
  BY DEF FinalRound, counters
<1>2. CASE UNCHANGED screen
  BY <1>1, <1>2, QuietShow DEF Labels, screen, answer
<1>3. CASE via = "chat" /\ Show(resp.text)
  <2>1. \A p \in shown' : p \in shown \/ p.turn = turn
    BY <1>3 DEF Show, ShowInv, AnswerOfTurn
  <2>2. ShownEarlier' /\ NothingShownIdle' /\ Counting' /\ AnswerOfTurn' /\ ChatSilent'
    BY <1>1, <2>1 DEF ShowInv, ShownEarlier, NothingShownIdle, Counting, Labels,
       AnswerOfTurn, ChatSilent, answer
  <2>3. recoveries = 0 => shown \cap resp.text = {}
    BY <1>1, <1>3 DEF ShowInv, ChatSilent, AnswerOfTurn
  <2>4. RepeatsOnlyRecovered'
    BY <1>1, <1>3, <2>3 DEF ShowInv, Counting, ChatSilent, RepeatsOnlyRecovered, Show
  <2>. QED  BY <2>2, <2>4 DEF ShowInv
<1>. QED
  BY <1>2, <1>3 DEF FinalRound, UsedStreamRound

LEMMA PassthroughShow == ASSUME ShowInv, Passthrough PROVE ShowInv'
<1>1. pc = "tools" /\ pc' = "save" /\ turn' = turn /\ recoveries' = recoveries
      /\ UNCHANGED <<streamDisabled, answer>> /\ Show({Said("report")})
  BY DEF Passthrough, ExecuteTools, counters
<1>2. Said("report").turn = turn /\ Said("report").part = "report"
  BY DEF Said
<1>3. Said("report") \notin shown
  BY <1>1, <1>2 DEF ShowInv, ShownEarlier
<1>4. ShownEarlier' /\ NothingShownIdle' /\ Counting' /\ AnswerOfTurn' /\ ChatSilent'
  BY <1>1, <1>2 DEF ShowInv, ShownEarlier, NothingShownIdle, Counting, Labels, Show,
     AnswerOfTurn, ChatSilent, answer
<1>5. RepeatsOnlyRecovered'
  BY <1>1, <1>3 DEF ShowInv, RepeatsOnlyRecovered, Show
<1>. QED
  BY <1>4, <1>5 DEF ShowInv

LEMMA ShowNext == ShowInv /\ [Next]_vars => ShowInv'
<1>. SUFFICES ASSUME ShowInv, [Next]_vars PROVE ShowInv'
  OBVIOUS
<1>1. CASE Start
  BY <1>1 DEF Start, ShowInv, Counting, Labels, ShownEarlier, NothingShownIdle,
     AnswerOfTurn, ChatSilent, RepeatsOnlyRecovered, answer, screen, counters
<1>2. CASE NextTurn
  BY <1>2, QuietShow DEF NextTurn, Labels, counters, answer, screen
<1>3. CASE CallModel
  BY <1>3, RespondShow DEF CallModel
<1>4. CASE Fail
  BY <1>4, ReturnShow DEF Fail
<1>5. CASE Recover
  BY <1>5, RecoverShow
<1>6. CASE ParseRetry
  BY <1>6, ContinueShow DEF ParseRetry, Corrected
<1>7. CASE Nudge
  BY <1>7, ContinueShow DEF Nudge, Corrected
<1>8. CASE FinalRound
  BY <1>8, FinalShow
<1>9. CASE CallTools
  BY <1>9, QuietShow DEF CallTools, Labels, counters, answer, screen
<1>10. CASE ToolsDone
  BY <1>10, ContinueShow DEF ToolsDone, ExecuteTools, counters, screen
<1>11. CASE Passthrough
  BY <1>11, PassthroughShow
<1>12. CASE TurnsUsedUp
  BY <1>12, QuietShow DEF TurnsUsedUp, Labels, counters, answer, screen
<1>13. CASE SaveSession
  BY <1>13, ReturnShow DEF SaveSession
<1>14. CASE UNCHANGED vars
  BY <1>14 DEF vars, ShowInv, Counting, ShownEarlier, NothingShownIdle, AnswerOfTurn,
     ChatSilent, RepeatsOnlyRecovered, answer, screen, counters
<1>. QED
  BY <1>1, <1>2, <1>3, <1>4, <1>5, <1>6, <1>7, <1>8, <1>9, <1>10, <1>11, <1>12,
     <1>13, <1>14 DEF Next, Step

(* No text is given to the user twice unless a truncated answer was        *)
(* continued after streaming had been given up (engine.go:292, 343).       *)
THEOREM RepeatsRecovered == Spec => []RepeatsOnlyRecovered
<1>1. ShowInv => RepeatsOnlyRecovered
  BY DEF ShowInv
<1>. QED
  BY <1>1, ShowInit, ShowNext, PTL DEF Spec

-----------------------------------------------------------------------------

(* No answer of this run came otherwise than whole and by the stream.      *)
Streamed == ~streamDisabled /\ recoveries = 0 /\ ~mixed

(* There is no result before the end; in a run that streams the user has   *)
(* read what was captured, and what the next memory writes will capture.   *)
ReadInv ==
  /\ pc # "save" => content = {}
  /\ Streamed => deliverable \subseteq shown \cup content
  /\ Streamed /\ pc = "decide" /\ resp.memory /\ ~resp.ghosts => resp.text \subseteq shown

LEMMA ReadInit == Init => ReadInv
BY DEF Init, ReadInv

LEMMA ReturnRead == ASSUME Return PROVE ReadInv'
BY DEF Return, ReadInv

(* A step that captures nothing, shows nothing and ends elsewhere than in  *)
(* "decide" or "save".                                                     *)
LEMMA QuietRead ==
  ASSUME ReadInv, pc # "save", pc' \notin {"decide", "save"},
         UNCHANGED <<streamDisabled, recoveries, mixed, deliverable, content, shown>>
  PROVE  ReadInv'
BY DEF ReadInv, Streamed

LEMMA RespondRead ==
  ASSUME ReadInv, NEW r \in Answers, NEW path \in Paths, Respond(r, path)
  PROVE  ReadInv'
<1>1. /\ pc = "call" /\ pc' \in {"recover", "decide"}
      /\ UNCHANGED <<recoveries, mixed, deliverable, content>>
  BY DEF Respond, counters, result, history
<1>2. /\ resp'.text = r.text /\ resp'.memory = r.memory /\ resp'.ghosts = r.ghosts
      /\ shown \subseteq shown'
  BY DEF Respond, Answers, Show, screen
<1>3. ASSUME Streamed' PROVE Streamed /\ path = "stream"
  <2>1. path = "stream"
    BY <1>3 DEF Streamed, Respond
  <2>2. ~streamDisabled
    BY <2>1 DEF Paths
  <2>. QED  BY <1>1, <1>3, <2>1, <2>2 DEF Streamed
<1>4. Streamed' => deliverable' \subseteq shown' \cup content'
  BY <1>1, <1>2, <1>3 DEF ReadInv
<1>5. ASSUME Streamed', r.memory, ~r.ghosts PROVE r.text \subseteq shown'
  BY <1>3, <1>5 DEF Respond, Flushes, Show
<1>. QED  BY <1>1, <1>2, <1>4, <1>5 DEF ReadInv

LEMMA RecoverRead == ASSUME ReadInv, ShowInv, Recover PROVE ReadInv'
<1>1. /\ pc = "recover" /\ pc' = "decide" /\ recoveries' = recoveries + 1
      /\ content' = content /\ recoveries \in Nat
  BY DEF Recover, result, ShowInv, Counting
<1>2. ~Streamed'
  BY <1>1 DEF Streamed
<1>. QED  BY <1>1, <1>2 DEF ReadInv

LEMMA CallToolsRead == ASSUME ReadInv, CallTools PROVE ReadInv'
<1>1. /\ pc = "decide" /\ pc' = "tools"
      /\ UNCHANGED <<streamDisabled, recoveries, content, shown>>
      /\ mixed' = (mixed \/ (resp.memory /\ resp.ghosts))
      /\ deliverable' = IF resp.memory THEN deliverable \cup resp.text ELSE deliverable
  BY DEF CallTools, counters, screen
<1>2. Streamed' => Streamed /\ (resp.memory => ~resp.ghosts)
  BY <1>1 DEF Streamed
<1>. QED  BY <1>1, <1>2 DEF ReadInv

LEMMA ReadNext == ASSUME ReadInv, ShowInv, [Next]_vars PROVE ReadInv'
<1>1. CASE Start
  BY <1>1, QuietRead DEF Start, counters, result, screen
<1>2. CASE NextTurn
  BY <1>2, QuietRead DEF NextTurn, counters, result, screen
<1>3. CASE CallModel
  BY <1>3, RespondRead DEF CallModel
<1>4. CASE Fail
  BY <1>4, ReturnRead DEF Fail
<1>5. CASE Recover
  BY <1>5, RecoverRead
<1>6. CASE ParseRetry
  BY <1>6, QuietRead DEF ParseRetry, Corrected, Continue, result, screen, history
<1>7. CASE Nudge
  BY <1>7, QuietRead DEF Nudge, Corrected, Continue, result, screen, history
<1>8. CASE FinalRound
  <2>1. pc' = "save" /\ deliverable' \subseteq content'
    BY <1>8 DEF FinalRound, OrSummary
  <2>. QED  BY <2>1 DEF ReadInv
<1>9. CASE CallTools
  BY <1>9, CallToolsRead
<1>10. CASE ToolsDone
  BY <1>10, QuietRead DEF ToolsDone, ExecuteTools, Continue, counters, screen
<1>11. CASE Passthrough
  <2>1. /\ pc = "tools" /\ pc' = "save" /\ shown \subseteq shown'
        /\ UNCHANGED <<streamDisabled, recoveries, mixed, deliverable>>
    BY <1>11 DEF Passthrough, ExecuteTools, counters, Show
  <2>. QED  BY <2>1 DEF ReadInv, Streamed
<1>12. CASE TurnsUsedUp
  <2>1. /\ pc = "turn" /\ pc' = "save"
        /\ UNCHANGED <<streamDisabled, recoveries, mixed, deliverable, shown>>
    BY <1>12 DEF TurnsUsedUp, counters, screen, history
  <2>. QED  BY <2>1 DEF ReadInv, Streamed
<1>13. CASE SaveSession
  BY <1>13, ReturnRead DEF SaveSession
<1>14. CASE UNCHANGED vars
  BY <1>14 DEF vars, ReadInv, Streamed, counters, answer, result, screen, history
<1>. QED
  BY <1>1, <1>2, <1>3, <1>4, <1>5, <1>6, <1>7, <1>8, <1>9, <1>10, <1>11, <1>12,
     <1>13, <1>14 DEF Next, Step

(* For any number of turns and calls a report captured beside memory       *)
(* writes has been read by the user or is in the result, in every run that *)
(* streams its answers whole (engine.go:199, 407).                         *)
THEOREM ReportStays == Spec => []ReportReaches
<1>1. ReadInv => ReportReaches
  BY DEF ReadInv, Streamed, ReportReaches
<1>. QED
  BY <1>1, ReadInit, ReadNext, ShowInit, ShowNext, PTL DEF Spec

-----------------------------------------------------------------------------

(* Ranks: the place of an element in a set of numbers, and the element at  *)
(* a place.  Compression and saving choose messages by their place.        *)

(* The elements of S up to x; their number is the rank of x in S.          *)
Upto(S, x) == {y \in S : y <= x}
Rank(S, x) == Cardinality(Upto(S, x))

LEMMA UptoFinite ==
  ASSUME NEW S, IsFiniteSet(S), NEW x
  PROVE  IsFiniteSet(Upto(S, x)) /\ Upto(S, x) \in SUBSET S
<1>1. Upto(S, x) \in SUBSET S
  BY DEF Upto
<1>. QED
  BY <1>1, FS_Subset

LEMMA RankLess ==
  ASSUME NEW S, IsFiniteSet(S), S \subseteq Nat, NEW x \in S, NEW y \in S, x < y
  PROVE  Rank(S, x) < Rank(S, y)
<1>1. IsFiniteSet(Upto(S, x)) /\ IsFiniteSet(Upto(S, y))
  BY UptoFinite
<1>2. Upto(S, x) \in SUBSET Upto(S, y) /\ Upto(S, y) # Upto(S, x)
  <2>1. \A z \in S : z <= x => z <= y
    OBVIOUS
  <2>2. y \in Upto(S, y) /\ y \notin Upto(S, x)
    BY DEF Upto
  <2>. QED
    BY <2>1, <2>2 DEF Upto
<1>. DEFINE A == Upto(S, x)  B == Upto(S, y)
<1>. HIDE DEF A, B
<1>3. A \in SUBSET B /\ B # A /\ IsFiniteSet(A) /\ IsFiniteSet(B)
  BY <1>1, <1>2 DEF A, B
<1>4. Cardinality(A) <= Cardinality(B) /\ Cardinality(B) # Cardinality(A)
  BY <1>3, FS_Subset
<1>5. Cardinality(A) \in Nat /\ Cardinality(B) \in Nat
  BY <1>3, FS_CardinalityType
<1>. QED
  BY <1>4, <1>5 DEF Rank, A, B

LEMMA RankType ==
  ASSUME NEW S, IsFiniteSet(S), S \subseteq Nat, NEW x \in S
  PROVE  Rank(S, x) \in 1..Cardinality(S)
<1>1. Upto(S, x) \in SUBSET S /\ x \in Upto(S, x)
  BY DEF Upto
<1>2. IsFiniteSet(Upto(S, x)) /\ Rank(S, x) <= Cardinality(S)
  BY <1>1, FS_Subset DEF Rank
<1>3. Rank(S, x) \in Nat /\ Cardinality(S) \in Nat
  BY <1>2, FS_CardinalityType DEF Rank
<1>4. Rank(S, x) # 0
  BY <1>1, <1>2, FS_EmptySet DEF Rank
<1>. QED
  BY <1>2, <1>3, <1>4

LEMMA NthWorks ==
  ASSUME NEW S, IsFiniteSet(S), S \subseteq Nat, NEW i \in 1..Cardinality(S)
  PROVE  Nth(S, i) \in S /\ Rank(S, Nth(S, i)) = i
<1>. DEFINE f == [x \in S |-> Rank(S, x)]
<1>. DEFINE T == 1..Cardinality(S)
<1>1. Cardinality(S) \in Nat
  BY FS_CardinalityType
<1>2. IsFiniteSet(T) /\ Cardinality(T) = Cardinality(S)
  BY <1>1, FS_Interval
<1>3. f \in [S -> T]
  BY RankType
<1>4. \A x \in S, y \in S : x < y => Rank(S, x) < Rank(S, y)
  BY RankLess
<1>5. \A x \in S, y \in S : Rank(S, x) = Rank(S, y) => x = y
  <2>1. SUFFICES ASSUME NEW x \in S, NEW y \in S, x # y PROVE Rank(S, x) # Rank(S, y)
    OBVIOUS
  <2>2. x \in Nat /\ y \in Nat
    OBVIOUS
  <2>3. Rank(S, x) \in 1..Cardinality(S) /\ Rank(S, y) \in 1..Cardinality(S)
    BY RankType
  <2>4. x < y \/ y < x
    BY <2>1, <2>2
  <2>. QED
    BY <2>2, <2>3, <1>4, <2>4
<1>6. f \in Injection(S, T)
  BY <1>3, <1>5 DEF Injection, IsInjective
<1>7. f \in Surjection(S, T)
  BY <1>2, <1>6, FS_Injection
<1>8. \E x \in S : Rank(S, x) = i
  BY <1>7 DEF Surjection
<1>. QED
  BY <1>8 DEF Nth, Rank, Upto

LEMMA NthRank ==
  ASSUME NEW S, IsFiniteSet(S), S \subseteq Nat, NEW x \in S
  PROVE  Nth(S, Rank(S, x)) = x
<1>1. Rank(S, x) \in 1..Cardinality(S)
  BY RankType
<1>. DEFINE y == Nth(S, Rank(S, x))
<1>2. y \in S /\ Rank(S, y) = Rank(S, x)
  BY <1>1, NthWorks
<1>. HIDE DEF y
<1>3. Rank(S, x) \in Nat /\ x \in Nat /\ y \in Nat
  BY <1>1, <1>2
<1>4. ~(x < y) /\ ~(y < x)
  <2>1. x < y => Rank(S, x) < Rank(S, y)
    BY <1>2, RankLess
  <2>2. y < x => Rank(S, y) < Rank(S, x)
    BY <1>2, RankLess
  <2>. QED
    BY <1>2, <1>3, <2>1, <2>2
<1>5. x = y
  BY <1>3, <1>4
<1>. QED
  BY <1>5 DEF y

LEMMA NthLess ==
  ASSUME NEW S, IsFiniteSet(S), S \subseteq Nat,
         NEW i \in 1..Cardinality(S), NEW j \in 1..Cardinality(S), i < j
  PROVE  Nth(S, i) < Nth(S, j)
<1>. DEFINE x == Nth(S, i)  y == Nth(S, j)
<1>1. x \in S /\ y \in S /\ Rank(S, x) = i /\ Rank(S, y) = j
  BY NthWorks
<1>. HIDE DEF x, y
<1>2. x \in Nat /\ y \in Nat /\ x # y
  BY <1>1
<1>3. ~(y < x)
  <2>1. y < x => Rank(S, y) < Rank(S, x)
    BY <1>1, RankLess
  <2>. QED
    BY <1>1, <2>1
<1>4. x < y
  BY <1>2, <1>3
<1>. QED
  BY <1>4 DEF x, y

(* The rank counts one for each of a run of consecutive elements.          *)
LEMMA RankRun ==
  ASSUME NEW S, IsFiniteSet(S), S \subseteq Nat, NEW x \in S, NEW c \in Nat,
         (x+1)..(x+c) \subseteq S
  PROVE  Rank(S, x + c) = Rank(S, x) + c
<1>. DEFINE A == Upto(S, x)  B == (x+1)..(x+c)
<1>1. x \in Nat
  OBVIOUS
<1>2. Upto(S, x + c) = A \cup B /\ A \cap B = {}
  <2>1. \A y \in S : y \in Nat /\ (y <= x + c <=> (y <= x \/ y \in B))
    BY <1>1
  <2>2. \A y \in B : y <= x + c /\ ~(y <= x)
    BY <1>1
  <2>. QED
    BY <2>1, <2>2 DEF Upto
<1>3. IsFiniteSet(A)
  BY UptoFinite
<1>4. IsFiniteSet(B) /\ Cardinality(B) = c
  BY <1>1, FS_Interval
<1>5. Cardinality(A) \in Nat
  BY <1>3, FS_CardinalityType
<1>. HIDE DEF A, B
<1>6. Cardinality(A \cup B) = Cardinality(A) + Cardinality(B) - Cardinality(A \cap B)
  BY <1>3, <1>4, FS_Union
<1>7. Cardinality(A \cap B) = 0
  BY <1>2, FS_EmptySet
<1>. QED
  BY <1>2, <1>4, <1>5, <1>6, <1>7 DEF Rank, A

-----------------------------------------------------------------------------

(* Well-paired conversations.                                              *)

(* A message that is not of the assistant calls no tool, and what is not   *)
(* saved is of the user.                                                   *)
Plain(x) == (x.role # "assistant" => x.calls = 0) /\ (x.meta => x.role = "user")

(* The calls of message j are answered by the messages after it, in order. *)
Grouped(m, j) ==
  /\ j + m[j].calls <= Len(m)
  /\ \A i \in 1..m[j].calls : m[j + i].role = "tool" /\ m[j + i].id = i
  /\ j + m[j].calls < Len(m) => m[j + m[j].calls + 1].role # "tool"

WellPaired(m) ==
  /\ m \in Seq(Message)
  /\ m # <<>> => m[1].role # "tool"
  /\ \A j \in DOMAIN m : Plain(m[j]) /\ (m[j].role # "tool" => Grouped(m, j))

LEMMA SeqMessage ==
  ASSUME NEW m \in Seq(Message)
  PROVE  /\ Len(m) \in Nat /\ DOMAIN m = 1..Len(m)
         /\ \A i \in 1..Len(m) : m[i] \in Message /\ m[i].calls \in Nat
         /\ m # <<>> <=> Len(m) > 0
<1>1. Len(m) \in Nat /\ DOMAIN m = 1..Len(m)
  BY LenProperties
<1>2. \A i \in 1..Len(m) : m[i] \in Message
  BY ElementOfSeq
<1>3. \A x \in Message : x.calls \in Nat
  BY LoopAssumption DEF Message
<1>4. m # <<>> <=> Len(m) > 0
  BY <1>1, EmptySeq
<1>. QED
  BY <1>1, <1>2, <1>3, <1>4

LEMMA PairedIf == ASSUME NEW m, WellPaired(m) PROVE Paired(m)
<1>1. m \in Seq(Message)
  BY DEF WellPaired
<1>2. ASSUME NEW j \in DOMAIN m, m[j].role # "tool"
      PROVE  /\ {m[i].id : i \in ResultsOf(m, j)} = 1..m[j].calls
             /\ Cardinality(ResultsOf(m, j)) = m[j].calls
  <2>. DEFINE c == m[j].calls
  <2>1. j \in Nat /\ j \in 1..Len(m) /\ Len(m) \in Nat /\ c \in Nat
    BY <1>1, SeqMessage
  <2>2. Grouped(m, j)
    BY <1>2 DEF WellPaired
  <2>3. j + c <= Len(m)
    BY <2>2 DEF Grouped
  <2>4. \A i \in (j + 1)..(j + c) : m[i].role = "tool" /\ m[i].id = i - j
    <3>1. SUFFICES ASSUME NEW i \in (j + 1)..(j + c)
                   PROVE  m[i].role = "tool" /\ m[i].id = i - j
      OBVIOUS
    <3>2. (i - j) \in 1..c /\ j + (i - j) = i
      BY <2>1
    <3>. QED
      BY <2>2, <3>2 DEF Grouped
  <2>5. j + c < Len(m) => m[j + c + 1].role # "tool"
    BY <2>2 DEF Grouped
  <2>. HIDE DEF c
  <2>6. ASSUME NEW i \in (j + 1)..Len(m), i > j + c
        PROVE  i \notin ResultsOf(m, j)
    <3>1. j + c < Len(m) /\ (j + c + 1) \in (j + 1)..i
      BY <2>1, <2>6
    <3>. QED
      BY <2>5, <3>1 DEF ResultsOf
  <2>7. ASSUME NEW i \in (j + 1)..(j + c)
        PROVE  i \in ResultsOf(m, j)
    <3>1. i \in (j + 1)..Len(m)
      BY <2>1, <2>3
    <3>2. \A k \in (j + 1)..i : k \in (j + 1)..(j + c)
      BY <2>1
    <3>. QED
      BY <2>4, <3>1, <3>2 DEF ResultsOf
  <2>8. ResultsOf(m, j) = (j + 1)..(j + c)
    <3>1. \A i \in ResultsOf(m, j) : i \in (j + 1)..Len(m)
      BY DEF ResultsOf
    <3>2. \A i \in (j + 1)..Len(m) : i <= j + c => i \in (j + 1)..(j + c)
      BY <2>1
    <3>3. \A i \in (j + 1)..Len(m) : i <= j + c \/ i > j + c
      BY <2>1
    <3>. QED
      BY <2>6, <2>7, <3>1, <3>2, <3>3
  <2>9. Cardinality(ResultsOf(m, j)) = c
    BY <2>1, <2>8, FS_Interval
  <2>10. {m[i].id : i \in (j + 1)..(j + c)} = 1..c
    <3>1. \A i \in (j + 1)..(j + c) : m[i].id \in 1..c
      BY <2>1, <2>4
    <3>2. \A k \in 1..c : (j + k) \in (j + 1)..(j + c) /\ (j + k) - j = k
      BY <2>1
    <3>3. \A k \in 1..c : m[j + k].id = k
      BY <2>4, <3>2
    <3>. QED
      BY <3>1, <3>2, <3>3
  <2>. QED
    BY <2>8, <2>9, <2>10 DEF c
<1>. QED
  BY <1>2 DEF Paired, WellPaired

(* A part of m that begins at a message that is not a tool's, and after    *)
(* which there is none.                                                    *)
LEMMA SlicePaired ==
  ASSUME NEW m, WellPaired(m), NEW a \in Nat \ {0}, NEW b \in Nat,
         a <= b + 1, b <= Len(m), a <= Len(m) => m[a].role # "tool",
         b < Len(m) => m[b + 1].role # "tool"
  PROVE  /\ WellPaired(SubSeq(m, a, b))
         /\ Len(SubSeq(m, a, b)) = b - a + 1
         /\ \A i \in 1..(b - a + 1) : SubSeq(m, a, b)[i] = m[a + i - 1]
<1>. DEFINE s == SubSeq(m, a, b)
<1>1. /\ m \in Seq(Message) /\ Len(m) \in Nat /\ DOMAIN m = 1..Len(m)
      /\ \A i \in 1..Len(m) : m[i] \in Message /\ m[i].calls \in Nat
  BY SeqMessage DEF WellPaired
<1>2. \A i \in a..b : m[i] \in Message
  BY <1>1
<1>3. /\ s \in Seq(Message) /\ Len(s) = IF a <= b THEN b - a + 1 ELSE 0
      /\ \A i \in 1..(b - a + 1) : s[i] = m[a + i - 1]
  BY <1>2, SubSeqProperties
<1>. HIDE DEF s
<1>4. Len(s) = b - a + 1
  BY <1>1, <1>3
<1>5. DOMAIN s = 1..Len(s) /\ (s # <<>> <=> Len(s) > 0)
  BY <1>3, SeqMessage
<1>6. s # <<>> => s[1].role # "tool"
  BY <1>1, <1>3, <1>4, <1>5
<1>7. ASSUME NEW j \in DOMAIN s PROVE Plain(s[j]) /\ (s[j].role # "tool" => Grouped(s, j))
  <2>. DEFINE k == a + j - 1
  <2>1. k \in 1..Len(m) /\ k <= b /\ s[j] = m[k] /\ j \in Nat /\ k \in Nat /\ a <= k
    BY <1>1, <1>3, <1>4, <1>5
  <2>. HIDE DEF k
  <2>2. Plain(s[j])
    BY <1>1, <2>1 DEF WellPaired
  <2>3. ASSUME s[j].role # "tool" PROVE Grouped(s, j)
    <3>. DEFINE c == m[k].calls
    <3>1. Grouped(m, k) /\ c \in Nat
      BY <1>1, <2>1, <2>3 DEF WellPaired
    <3>2. /\ k + c <= Len(m)
          /\ \A i \in 1..c : m[k + i].role = "tool" /\ m[k + i].id = i
          /\ k + c < Len(m) => m[k + c + 1].role # "tool"
      BY <3>1 DEF Grouped
    <3>. HIDE DEF c
    <3>3. k + c <= b
      <4>1. SUFFICES ASSUME k + c > b PROVE FALSE
        BY <1>1, <2>1, <3>1
      <4>2. k + c <= Len(m)
        BY <3>2
      <4>3. (b + 1 - k) \in 1..c /\ k + (b + 1 - k) = b + 1 /\ b < Len(m)
        BY <1>1, <2>1, <3>1, <4>1, <4>2
      <4>4. m[k + (b + 1 - k)].role = "tool"
        BY <3>2, <4>3
      <4>. QED
        BY <4>3, <4>4
    <3>a. /\ j \in Nat /\ c \in Nat /\ Len(m) \in Nat /\ j > 0
          /\ k = a + j - 1 /\ Len(s) = b - a + 1
      BY <1>1, <1>4, <1>5, <2>1, <3>1 DEF k
    <3>4. j + c <= Len(s)
      BY <3>3, <3>a
    <3>5. ASSUME NEW i \in 1..c PROVE s[j + i].role = "tool" /\ s[j + i].id = i
      <4>1. (j + i) \in 1..(b - a + 1) /\ a + (j + i) - 1 = k + i
        BY <3>3, <3>a
      <4>2. s[j + i] = m[k + i]
        BY <1>3, <4>1
      <4>. QED
        BY <3>2, <4>2
    <3>6. ASSUME j + c < Len(s) PROVE s[j + c + 1].role # "tool"
      <4>. DEFINE x == j + c  y == b - a + 1
      <4>a. x < y /\ x \in Nat /\ y \in Int
        BY <3>6, <3>a
      <4>b. (j + c + 1) \in 1..(b - a + 1)
        <5>1. x + 1 = j + c + 1 /\ y = b - a + 1
          OBVIOUS
        <5>. HIDE DEF x, y
        <5>2. x + 1 \in 1..y
          BY <4>a
        <5>. QED
          BY <5>1, <5>2
      <4>c. a + (j + c + 1) - 1 = k + c + 1
        BY <3>a
      <4>d. k + c < Len(m)
        BY <3>a, <4>a
      <4>1. (j + c + 1) \in 1..(b - a + 1) /\ a + (j + c + 1) - 1 = k + c + 1
            /\ k + c < Len(m)
        BY <4>b, <4>c, <4>d
      <4>2. s[j + c + 1] = m[k + c + 1]
        BY <1>3, <4>1
      <4>3. m[k + c + 1].role # "tool"
        BY <3>2, <4>1
      <4>. QED
        BY <4>2, <4>3
    <3>. QED
      BY <2>1, <3>4, <3>5, <3>6 DEF Grouped, c
  <2>. QED
    BY <2>2, <2>3
<1>. QED
  BY <1>3, <1>4, <1>6, <1>7 DEF WellPaired, s

LEMMA ConcatPaired ==
  ASSUME NEW s, NEW t, WellPaired(s), WellPaired(t)
  PROVE  /\ WellPaired(s \o t)
         /\ Len(s \o t) = Len(s) + Len(t)
         /\ \A i \in 1..Len(s) : (s \o t)[i] = s[i]
         /\ \A i \in 1..Len(t) : (s \o t)[Len(s) + i] = t[i]
<1>. DEFINE m == s \o t
<1>1. /\ s \in Seq(Message) /\ Len(s) \in Nat /\ DOMAIN s = 1..Len(s)
      /\ t \in Seq(Message) /\ Len(t) \in Nat /\ DOMAIN t = 1..Len(t)
      /\ (s # <<>> <=> Len(s) > 0) /\ (t # <<>> <=> Len(t) > 0)
      /\ \A i \in 1..Len(s) : s[i].calls \in Nat
      /\ \A i \in 1..Len(t) : t[i].calls \in Nat
  BY SeqMessage DEF WellPaired
<1>2. /\ m \in Seq(Message) /\ Len(m) = Len(s) + Len(t)
      /\ \A i \in 1..(Len(s) + Len(t)) : m[i] = IF i <= Len(s) THEN s[i] ELSE t[i - Len(s)]
  BY <1>1, ConcatProperties
<1>. HIDE DEF m
<1>3. \A i \in 1..Len(s) : m[i] = s[i]
  BY <1>1, <1>2
<1>4. \A i \in 1..Len(t) : m[Len(s) + i] = t[i]
  <2>1. \A i \in 1..Len(t) : /\ (Len(s) + i) \in 1..(Len(s) + Len(t))
                             /\ ~(Len(s) + i <= Len(s)) /\ (Len(s) + i) - Len(s) = i
    BY <1>1
  <2>. QED
    BY <1>2, <2>1
<1>5. DOMAIN m = 1..Len(m) /\ (m # <<>> <=> Len(m) > 0)
  BY <1>2, SeqMessage
<1>6. m # <<>> => m[1].role # "tool"
  <2>1. CASE Len(s) > 0
    BY <1>1, <1>3, <2>1 DEF WellPaired
  <2>2. CASE Len(s) = 0 /\ Len(t) > 0
    BY <1>1, <1>4, <2>2 DEF WellPaired
  <2>. QED
    BY <1>1, <1>2, <1>5, <2>1, <2>2
<1>7. ASSUME NEW j \in 1..Len(s) PROVE Plain(m[j]) /\ (m[j].role # "tool" => Grouped(m, j))
  <2>1. m[j] = s[j] /\ Plain(s[j])
    BY <1>1, <1>3 DEF WellPaired
  <2>2. ASSUME s[j].role # "tool" PROVE Grouped(m, j)
    <3>. DEFINE c == s[j].calls
    <3>1. /\ c \in Nat /\ j + c <= Len(s)
          /\ \A i \in 1..c : s[j + i].role = "tool" /\ s[j + i].id = i
          /\ j + c < Len(s) => s[j + c + 1].role # "tool"
      BY <1>1, <2>2 DEF WellPaired, Grouped
    <3>. HIDE DEF c
    <3>2. /\ j \in Nat /\ c \in Nat /\ Len(s) \in Nat /\ j + c <= Len(s)
          /\ j + c <= Len(m) /\ (j + c < Len(s) \/ j + c = Len(s))
      <4>1. c \in Nat /\ j + c <= Len(s)
        BY <3>1
      <4>2. j \in Nat /\ Len(s) \in Nat /\ Len(t) \in Nat /\ Len(m) = Len(s) + Len(t)
        BY <1>1, <1>2
      <4>. QED
        BY <4>1, <4>2
    <3>3. ASSUME NEW i \in 1..c PROVE m[j + i].role = "tool" /\ m[j + i].id = i
      <4>1. (j + i) \in 1..Len(s)
        BY <3>2
      <4>2. m[j + i] = s[j + i]
        BY <1>3, <4>1
      <4>. QED
        BY <3>1, <4>2
    <3>4. ASSUME j + c < Len(m) PROVE m[j + c + 1].role # "tool"
      <4>1. CASE j + c < Len(s)
        <5>1. (j + c + 1) \in 1..Len(s)
          BY <3>2, <4>1
        <5>2. m[j + c + 1] = s[j + c + 1]
          BY <1>3, <5>1
        <5>. QED
          BY <3>1, <4>1, <5>2
      <4>2. CASE j + c = Len(s)
        <5>1. Len(t) > 0 /\ m[Len(s) + 1] = t[1]
          BY <1>1, <1>2, <1>4, <3>4, <4>2
        <5>. QED
          BY <1>1, <4>2, <5>1 DEF WellPaired
      <4>. QED
        BY <3>2, <4>1, <4>2
    <3>. QED
      BY <2>1, <3>2, <3>3, <3>4 DEF Grouped, c
  <2>. QED
    BY <2>1, <2>2
<1>8. ASSUME NEW n \in 1..Len(t)
      PROVE  Plain(m[Len(s) + n]) /\ (m[Len(s) + n].role # "tool" => Grouped(m, Len(s) + n))
  <2>1. m[Len(s) + n] = t[n] /\ Plain(t[n])
    BY <1>1, <1>4 DEF WellPaired
  <2>2. ASSUME t[n].role # "tool" PROVE Grouped(m, Len(s) + n)
    <3>. DEFINE c == t[n].calls
    <3>1. /\ c \in Nat /\ n + c <= Len(t)
          /\ \A i \in 1..c : t[n + i].role = "tool" /\ t[n + i].id = i
          /\ n + c < Len(t) => t[n + c + 1].role # "tool"
      BY <1>1, <2>2 DEF WellPaired, Grouped
    <3>. HIDE DEF c
    <3>2. Len(s) + n + c <= Len(m)
      BY <1>1, <1>2, <3>1
    <3>3. ASSUME NEW i \in 1..c
          PROVE  m[Len(s) + n + i].role = "tool" /\ m[Len(s) + n + i].id = i
      <4>1. (n + i) \in 1..Len(t) /\ Len(s) + n + i = Len(s) + (n + i)
        BY <1>1, <3>1
      <4>2. m[Len(s) + (n + i)] = t[n + i]
        BY <1>4, <4>1
      <4>. QED
        BY <3>1, <4>1, <4>2
    <3>4. ASSUME Len(s) + n + c < Len(m) PROVE m[Len(s) + n + c + 1].role # "tool"
      <4>1. (n + c + 1) \in 1..Len(t) /\ Len(s) + n + c + 1 = Len(s) + (n + c + 1)
            /\ n + c < Len(t)
        BY <1>1, <1>2, <3>1, <3>4
      <4>2. m[Len(s) + (n + c + 1)] = t[n + c + 1]
        BY <1>4, <4>1
      <4>3. t[n + c + 1].role # "tool"
        BY <3>1, <4>1
      <4>. QED
        BY <4>1, <4>2, <4>3
    <3>. QED
      BY <2>1, <3>2, <3>3, <3>4 DEF Grouped, c
  <2>. QED
    BY <2>1, <2>2
<1>9. ASSUME NEW j \in DOMAIN m PROVE Plain(m[j]) /\ (m[j].role # "tool" => Grouped(m, j))
  <2>1. j \in 1..Len(s) \/ \E n \in 1..Len(t) : j = Len(s) + n
    <3>1. j \in 1..(Len(s) + Len(t))
      BY <1>2, <1>5
    <3>2. j > Len(s) => (j - Len(s)) \in 1..Len(t) /\ j = Len(s) + (j - Len(s))
      BY <1>1, <3>1
    <3>3. j <= Len(s) => j \in 1..Len(s)
      BY <1>1, <3>1
    <3>. QED
      BY <1>1, <3>1, <3>2, <3>3
  <2>. QED
    BY <1>7, <1>8, <2>1
<1>. QED
  BY <1>2, <1>3, <1>4, <1>6, <1>9 DEF WellPaired, m

(* What follows a message that is not saved is not a tool's.               *)
LEMMA ToolFollowsKept ==
  ASSUME NEW m, WellPaired(m), NEW x \in DOMAIN m, m[x].role = "tool"
  PROVE  x > 1 /\ (x - 1) \in Kept(m)
<1>1. m \in Seq(Message) /\ Len(m) \in Nat /\ DOMAIN m = 1..Len(m)
  BY SeqMessage DEF WellPaired
<1>2. x > 1 /\ (x - 1) \in 1..Len(m) /\ x \in Nat
  <2>1. m[1].role # "tool"
    BY <1>1, SeqMessage DEF WellPaired
  <2>. QED
    BY <1>1, <2>1
<1>3. ASSUME m[x - 1].meta PROVE FALSE
  <2>1. m[x - 1].role = "user" /\ m[x - 1].calls = 0
    BY <1>1, <1>2, <1>3 DEF WellPaired, Plain
  <2>2. Grouped(m, x - 1)
    BY <1>1, <1>2, <2>1 DEF WellPaired
  <2>3. (x - 1) + m[x - 1].calls < Len(m) /\ (x - 1) + m[x - 1].calls + 1 = x
    BY <1>1, <1>2, <2>1
  <2>4. m[(x - 1) + m[x - 1].calls + 1].role # "tool"
    BY <2>2, <2>3 DEF Grouped
  <2>. QED
    BY <2>3, <2>4
<1>. QED
  BY <1>1, <1>2, <1>3 DEF Kept

LEMMA PersistedSeq ==
  ASSUME NEW m \in Seq(Message)
  PROVE  /\ Kept(m) \in SUBSET (1..Len(m)) /\ IsFiniteSet(Kept(m))
         /\ Persisted(m) \in Seq(Message)
         /\ Len(Persisted(m)) = Cardinality(Kept(m))
<1>. DEFINE K == Kept(m)  n == Cardinality(K)
<1>1. Len(m) \in Nat /\ DOMAIN m = 1..Len(m) /\ \A i \in 1..Len(m) : m[i] \in Message
  BY SeqMessage
<1>2. K \in SUBSET (1..Len(m)) /\ K \subseteq Nat
  BY <1>1 DEF Kept
<1>3. IsFiniteSet(K)
  <2>1. IsFiniteSet(1..Len(m))
    BY <1>1, FS_Interval
  <2>. QED
    BY <1>2, <2>1, FS_Subset
<1>4. n \in Nat
  BY <1>3, FS_CardinalityType
<1>5. \A k \in 1..n : m[Nth(K, k)] \in Message
  BY <1>1, <1>2, <1>3, NthWorks
<1>6. Persisted(m) \in [1..n -> Message]
  BY <1>5 DEF Persisted
<1>. QED
  BY <1>2, <1>3, <1>4, <1>6, LenProperties

LEMMA PersistedPaired == ASSUME NEW m, WellPaired(m) PROVE WellPaired(Persisted(m))
<1>. DEFINE K == Kept(m)  p == Persisted(m)  n == Cardinality(K)
<1>1. /\ m \in Seq(Message) /\ Len(m) \in Nat /\ DOMAIN m = 1..Len(m)
      /\ \A i \in 1..Len(m) : m[i] \in Message /\ m[i].calls \in Nat
  BY SeqMessage DEF WellPaired
<1>2. K \in SUBSET (1..Len(m)) /\ K \subseteq Nat
  BY <1>1, PersistedSeq
<1>3. IsFiniteSet(K)
  BY <1>1, PersistedSeq
<1>4. n \in Nat
  BY <1>3, FS_CardinalityType
<1>5. p = [k \in 1..n |-> m[Nth(K, k)]]
  BY DEF Persisted
<1>6. \A x \in 1..Len(m) : m[x].role = "tool" => x > 1 /\ (x - 1) \in K
  BY <1>1, ToolFollowsKept
<1>6a. \A x \in 1..Len(m) : m[x].role = "tool" => x \in K
  BY <1>1 DEF WellPaired, Plain, Kept
<1>. HIDE DEF K, p, n
<1>7. \A k \in 1..n : Nth(K, k) \in K /\ Rank(K, Nth(K, k)) = k
  BY <1>2, <1>3, NthWorks DEF n
<1>8. \A x \in K : Rank(K, x) \in 1..n /\ Nth(K, Rank(K, x)) = x
  BY <1>2, <1>3, RankType, NthRank DEF n
<1>9. p \in Seq(Message) /\ Len(p) = n /\ DOMAIN p = 1..n
  BY <1>1, <1>4, PersistedSeq, SeqMessage DEF p, n, K
<1>10. \A k \in 1..n : p[k] = m[Nth(K, k)]
  BY <1>5
(* A kept tool message is the successor of the kept message before it.     *)
<1>11. ASSUME NEW k \in 1..n, p[k].role = "tool"
       PROVE  k > 1 /\ Nth(K, k - 1) = Nth(K, k) - 1
  <2>. DEFINE y == Nth(K, k)
  <2>1. y \in K /\ Rank(K, y) = k /\ m[y].role = "tool"
    BY <1>7, <1>10, <1>11
  <2>. HIDE DEF y
  <2>2. y \in Nat /\ y > 1 /\ (y - 1) \in K
    BY <1>2, <1>6, <2>1
  <2>3. Rank(K, (y - 1) + 1) = Rank(K, y - 1) + 1
    <3>1. ((y - 1) + 1)..((y - 1) + 1) \subseteq K
      BY <2>1, <2>2
    <3>. QED
      BY <1>2, <1>3, <2>2, <3>1, RankRun
  <2>4. (y - 1) + 1 = y
    BY <2>2
  <2>5. Rank(K, y - 1) \in 1..n /\ Nth(K, Rank(K, y - 1)) = y - 1
    BY <1>8, <2>2
  <2>6. Rank(K, y - 1) = k - 1 /\ k > 1
    BY <1>4, <2>1, <2>3, <2>4, <2>5
  <2>. QED
    BY <2>5, <2>6 DEF y
<1>12. p # <<>> => p[1].role # "tool"
  <2>1. p # <<>> => 1 \in 1..n
    BY <1>4, <1>9, SeqMessage
  <2>. QED
    BY <2>1, <1>11
<1>13. ASSUME NEW k \in 1..n, p[k].role # "tool" PROVE Grouped(p, k)
  <2>. DEFINE x == Nth(K, k)  c == m[x].calls
  <2>1. x \in K /\ Rank(K, x) = k /\ p[k] = m[x] /\ x \in 1..Len(m) /\ x \in Nat
    BY <1>1, <1>2, <1>7, <1>10
  <2>. HIDE DEF x
  <2>2. /\ c \in Nat /\ x + c <= Len(m)
        /\ \A i \in 1..c : m[x + i].role = "tool" /\ m[x + i].id = i
        /\ x + c < Len(m) => m[x + c + 1].role # "tool"
    BY <1>1, <1>13, <2>1 DEF WellPaired, Grouped
  <2>2a. c \in Nat /\ x + c <= Len(m) /\ p[k].calls = c
    BY <2>1, <2>2
  <2>. HIDE DEF c
  <2>3. \A i \in 1..c : (x + i) \in K
    <3>1. \A i \in 1..c : (x + i) \in 1..Len(m)
      BY <1>1, <2>1, <2>2a
    <3>. QED
      BY <1>6a, <2>2, <3>1
  <2>4. \A i \in 0..c : Rank(K, x + i) = k + i /\ (x + i) \in K
    <3>1. SUFFICES ASSUME NEW i \in 0..c PROVE Rank(K, x + i) = k + i /\ (x + i) \in K
      OBVIOUS
    <3>2. (x + 1)..(x + i) \subseteq K
      <4>1. \A z \in (x + 1)..(x + i) : (z - x) \in 1..c /\ x + (z - x) = z
        BY <2>1, <2>2a
      <4>. QED
        BY <2>3, <4>1
    <3>3. Rank(K, x + i) = Rank(K, x) + i
      <4>1. i \in Nat
        BY <2>2a
      <4>. QED
        BY <1>2, <1>3, <2>1, <3>2, <4>1, RankRun
    <3>4. (x + i) \in K
      <4>1. i = 0 \/ i \in 1..c
        BY <2>2a
      <4>. QED
        BY <2>1, <2>3, <4>1
    <3>. QED
      BY <2>1, <3>3, <3>4
  <2>5. \A i \in 0..c : (k + i) \in 1..n /\ Nth(K, k + i) = x + i
    BY <1>8, <2>4
  <2>6. k + c <= Len(p)
    BY <1>9, <2>2a, <2>5
  <2>7. \A i \in 1..c : p[k + i] = m[x + i]
    <3>1. \A i \in 1..c : i \in 0..c
      BY <2>2a
    <3>. QED
      BY <1>10, <2>5, <3>1
  <2>8. ASSUME k + c < Len(p), p[k + c + 1].role = "tool" PROVE FALSE
    <3>1. (k + c + 1) \in 1..n /\ (k + c + 1) - 1 = k + c
      BY <1>4, <1>9, <2>2a, <2>8
    <3>2. Nth(K, k + c) = Nth(K, k + c + 1) - 1
      BY <1>11, <2>8, <3>1
    <3>3. Nth(K, k + c) = x + c
      BY <2>2a, <2>5
    <3>. DEFINE z == Nth(K, k + c + 1)
    <3>4. z \in 1..Len(m) /\ p[k + c + 1] = m[z]
      BY <1>2, <1>7, <1>10, <3>1
    <3>. HIDE DEF z
    <3>5. z = x + c + 1 /\ x + c < Len(m)
      <4>1. x + c = z - 1
        BY <3>2, <3>3 DEF z
      <4>2. z \in Nat /\ z <= Len(m) /\ Len(m) \in Nat
        BY <1>1, <3>4
      <4>. QED
        BY <2>1, <2>2a, <4>1, <4>2
    <3>6. m[x + c + 1].role # "tool"
      BY <2>2, <3>5
    <3>. QED
      BY <2>8, <3>4, <3>5, <3>6
  <2>. QED
    BY <2>2, <2>2a, <2>6, <2>7, <2>8 DEF Grouped
<1>14. \A k \in 1..n : Plain(p[k])
  BY <1>1, <1>2, <1>7, <1>10 DEF WellPaired
<1>. QED
  BY <1>9, <1>12, <1>13, <1>14 DEF WellPaired, p

-----------------------------------------------------------------------------

(* Messages, collapsed turns and results.                                  *)

LEMMA MessageTypes ==
  /\ Meta \in Message
  /\ \A r \in 1..Runs : Ask(r) \in Message
  /\ \A t \in SUBSET Part, n \in 0..MaxCalls : Assistant(t, n) \in Message
  /\ \A i \in 0..MaxCalls : Tool(i) \in Message
<1>1. 0 \in 0..MaxCalls
  BY LoopAssumption
<1>2. Meta \in Message
  BY <1>1 DEF Meta, Message
<1>3. ASSUME NEW r \in 1..Runs PROVE Ask(r) \in Message
  <2>1. [run |-> r, turn |-> 0, part |-> "ask"] \in Part
    BY DEF Part
  <2>. QED
    BY <1>1, <2>1 DEF Ask, Meta, Message
<1>. QED
  BY <1>1, <1>2, <1>3 DEF Message, Assistant, Tool

(* A message that is not a tool's and calls none is a conversation.        *)
LEMMA OnePaired ==
  ASSUME NEW x \in Message, x.role # "tool", x.calls = 0, Plain(x)
  PROVE  WellPaired(<<x>>)
<1>1. <<x>> \in Seq(Message) /\ Len(<<x>>) = 1 /\ DOMAIN <<x>> = {1} /\ <<x>>[1] = x
  OBVIOUS
<1>2. Grouped(<<x>>, 1)
  BY <1>1 DEF Grouped
<1>. QED
  BY <1>1, <1>2 DEF WellPaired

LEMMA AppendPaired ==
  ASSUME NEW m, WellPaired(m), NEW x \in Message, x.role # "tool", x.calls = 0, Plain(x)
  PROVE  WellPaired(Append(m, x))
<1>1. Append(m, x) = m \o <<x>>
  BY AppendIsConcat DEF WellPaired
<1>. QED
  BY <1>1, OnePaired, ConcatPaired

(* A collapsed conversation: without its messages from a up to p, where a  *)
(* notice stands.                                                          *)
Spliced(m, a, p) == SubSeq(m, 1, a - 1) \o <<Meta>> \o SubSeq(m, p, Len(m))

LEMMA CollapseShape ==
  ASSUME NEW m \in Seq(Message), CollapseTurns(m) # m
  PROVE  \E a, p, x, y \in TurnStarts(m) :
           1 < a /\ a < p /\ p < x /\ x < y /\ CollapseTurns(m) = Spliced(m, a, p)
<1>. DEFINE S == TurnStarts(m)  n == Cardinality(S)
<1>1. Len(m) \in Nat /\ DOMAIN m = 1..Len(m)
  BY SeqMessage
<1>2. S \in SUBSET (1..Len(m)) /\ S \subseteq Nat
  BY <1>1 DEF TurnStarts
<1>3. IsFiniteSet(S)
  <2>1. IsFiniteSet(1..Len(m))
    BY <1>1, FS_Interval
  <2>. QED
    BY <1>2, <2>1, FS_Subset
<1>4. n \in Nat
  BY <1>3, FS_CardinalityType
<1>5. ~(n <= 4) /\ CollapseTurns(m) = Spliced(m, Nth(S, 2), Nth(S, n - 2))
  BY DEF CollapseTurns, Spliced
<1>. HIDE DEF S, n
<1>6. 1 \in 1..n /\ 2 \in 1..n /\ (n - 2) \in 1..n /\ (n - 1) \in 1..n /\ n \in 1..n
      /\ 1 < 2 /\ 2 < n - 2 /\ n - 2 < n - 1 /\ n - 1 < n
  BY <1>4, <1>5
<1>7. \A i, j \in 1..n : i < j => Nth(S, i) < Nth(S, j)
  BY <1>2, <1>3, NthLess DEF n
<1>8. \A i \in 1..n : Nth(S, i) \in S
  BY <1>2, <1>3, NthWorks DEF n
<1>9. 1 < Nth(S, 2)
  <2>1. Nth(S, 1) < Nth(S, 2) /\ Nth(S, 1) \in 1..Len(m) /\ Nth(S, 2) \in 1..Len(m)
    BY <1>2, <1>6, <1>7, <1>8
  <2>. QED
    BY <1>1, <2>1
<1>10. /\ Nth(S, 2) \in S /\ Nth(S, n - 2) \in S /\ Nth(S, n - 1) \in S /\ Nth(S, n) \in S
       /\ Nth(S, 2) < Nth(S, n - 2) /\ Nth(S, n - 2) < Nth(S, n - 1)
       /\ Nth(S, n - 1) < Nth(S, n)
  BY <1>6, <1>7, <1>8
<1>. QED
  BY <1>5, <1>9, <1>10 DEF S

LEMMA SplicedElements ==
  ASSUME NEW m \in Seq(Message), NEW a \in Nat, NEW p \in Nat, 1 < a, a < p, p <= Len(m)
  PROVE  /\ Spliced(m, a, p) \in Seq(Message)
         /\ Len(Spliced(m, a, p)) = a + (Len(m) - p) + 1
         /\ \A i \in 1..(a - 1) : Spliced(m, a, p)[i] = m[i]
         /\ Spliced(m, a, p)[a] = Meta
         /\ \A i \in p..Len(m) : Spliced(m, a, p)[a + 1 + (i - p)] = m[i]
<1>. DEFINE s == SubSeq(m, 1, a - 1)  t == SubSeq(m, p, Len(m))  u == s \o <<Meta>>
<1>1. Len(m) \in Nat /\ \A i \in 1..Len(m) : m[i] \in Message
  BY SeqMessage
<1>2. /\ s \in Seq(Message) /\ Len(s) = a - 1
      /\ \A i \in 1..(a - 1) : s[i] = m[i]
  <2>1. \A i \in 1..(a - 1) : m[i] \in Message
    BY <1>1
  <2>2. /\ s \in Seq(Message)
        /\ Len(s) = IF 1 <= a - 1 THEN (a - 1) - 1 + 1 ELSE 0
        /\ \A i \in 1..((a - 1) - 1 + 1) : s[i] = m[1 + i - 1]
    <3>1. (a - 1) \in Int
      OBVIOUS
    <3>. QED
      BY <2>1, <3>1, SubSeqProperties
  <2>3. Len(s) = a - 1
    BY <2>2
  <2>4. \A i \in 1..(a - 1) : i \in 1..((a - 1) - 1 + 1) /\ 1 + i - 1 = i
    OBVIOUS
  <2>. QED
    BY <2>2, <2>3, <2>4
<1>3. /\ t \in Seq(Message) /\ Len(t) = Len(m) - p + 1
      /\ \A i \in 1..(Len(m) - p + 1) : t[i] = m[p + i - 1]
  <2>1. \A i \in p..Len(m) : m[i] \in Message
    BY <1>1
  <2>. QED
    BY <1>1, <2>1, SubSeqProperties
<1>. HIDE DEF s, t
<1>4. <<Meta>> \in Seq(Message) /\ Len(<<Meta>>) = 1 /\ <<Meta>>[1] = Meta
  BY MessageTypes
<1>5. /\ u \in Seq(Message) /\ Len(u) = a
      /\ \A i \in 1..a : u[i] = IF i <= a - 1 THEN s[i] ELSE <<Meta>>[i - (a - 1)]
  <2>1. /\ u \in Seq(Message) /\ Len(u) = Len(s) + Len(<<Meta>>)
        /\ \A i \in 1..(Len(s) + Len(<<Meta>>)) :
             u[i] = IF i <= Len(s) THEN s[i] ELSE <<Meta>>[i - Len(s)]
    BY <1>2, <1>4, ConcatProperties
  <2>2. Len(s) + Len(<<Meta>>) = a
    BY <1>2, <1>4
  <2>. QED
    BY <1>2, <2>1, <2>2
<1>6. u[a] = Meta /\ \A i \in 1..(a - 1) : u[i] = m[i]
  <2>1. a \in 1..a /\ ~(a <= a - 1) /\ a - (a - 1) = 1
    OBVIOUS
  <2>2. \A i \in 1..(a - 1) : i \in 1..a /\ i <= a - 1
    OBVIOUS
  <2>. QED
    BY <1>2, <1>4, <1>5, <2>1, <2>2
<1>. HIDE DEF u
<1>7. Spliced(m, a, p) = u \o t
  BY DEF Spliced, u, s, t
<1>8. /\ u \o t \in Seq(Message) /\ Len(u \o t) = a + Len(t)
      /\ \A i \in 1..(a + Len(t)) : (u \o t)[i] = IF i <= a THEN u[i] ELSE t[i - a]
  <2>1. u \in Seq(Message) /\ t \in Seq(Message) /\ Len(u) = a
    BY <1>3, <1>5
  <2>2. /\ u \o t \in Seq(Message) /\ Len(u \o t) = Len(u) + Len(t)
        /\ \A i \in 1..(Len(u) + Len(t)) :
             (u \o t)[i] = IF i <= Len(u) THEN u[i] ELSE t[i - Len(u)]
    BY <2>1, ConcatProperties
  <2>. QED
    BY <2>1, <2>2
<1>9. \A i \in 1..a : (u \o t)[i] = u[i]
  <2>1. \A i \in 1..a : i \in 1..(a + Len(t)) /\ i <= a
    BY <1>1, <1>3
  <2>. QED
    BY <1>8, <2>1
<1>10. ASSUME NEW i \in p..Len(m) PROVE (u \o t)[a + 1 + (i - p)] = m[i]
  <2>1. /\ (a + 1 + (i - p)) \in 1..(a + Len(t)) /\ ~(a + 1 + (i - p) <= a)
        /\ (a + 1 + (i - p)) - a = i - p + 1
        /\ (i - p + 1) \in 1..(Len(m) - p + 1) /\ p + (i - p + 1) - 1 = i
    BY <1>1, <1>3
  <2>2. (u \o t)[a + 1 + (i - p)] = t[i - p + 1]
    BY <1>8, <2>1
  <2>. QED
    BY <1>3, <2>1, <2>2
<1>11. Len(u \o t) = a + (Len(m) - p) + 1
  BY <1>1, <1>3, <1>8
<1>12. (u \o t)[a] = Meta /\ \A i \in 1..(a - 1) : (u \o t)[i] = m[i]
  <2>1. a \in 1..a /\ \A i \in 1..(a - 1) : i \in 1..a
    OBVIOUS
  <2>. QED
    BY <1>6, <1>9, <2>1
<1>. QED
  BY <1>7, <1>8, <1>10, <1>11, <1>12

LEMMA CollapsePaired == ASSUME NEW m, WellPaired(m) PROVE WellPaired(CollapseTurns(m))
<1>. SUFFICES ASSUME CollapseTurns(m) # m PROVE WellPaired(CollapseTurns(m))
  OBVIOUS
<1>1. m \in Seq(Message) /\ Len(m) \in Nat /\ DOMAIN m = 1..Len(m)
  BY SeqMessage DEF WellPaired
<1>2. PICK a \in TurnStarts(m), p \in TurnStarts(m) :
        1 < a /\ a < p /\ CollapseTurns(m) = Spliced(m, a, p)
  BY <1>1, CollapseShape
<1>3. /\ a \in 1..Len(m) /\ m[a].role # "tool"
      /\ p \in 1..Len(m) /\ m[p].role # "tool" /\ m[1].role # "tool"
  <2>1. \A i \in TurnStarts(m) : i \in 1..Len(m) /\ (i # 1 => m[i].role = "assistant")
    BY <1>1 DEF TurnStarts
  <2>. QED
    BY <1>1, <1>2, <2>1, SeqMessage DEF WellPaired
<1>4. WellPaired(SubSeq(m, 1, a - 1))
  <2>1. /\ (a - 1) \in Nat /\ 1 <= (a - 1) + 1 /\ a - 1 <= Len(m) /\ (a - 1) + 1 = a
        /\ 1 \in Nat \ {0}
    BY <1>1, <1>3
  <2>. QED
    BY <1>3, <2>1, SlicePaired
<1>5. WellPaired(SubSeq(m, p, Len(m)))
  <2>1. p \in Nat \ {0} /\ p <= Len(m) + 1 /\ Len(m) <= Len(m) /\ ~(Len(m) < Len(m))
    BY <1>1, <1>3
  <2>. QED
    BY <1>1, <1>3, <2>1, SlicePaired
<1>6. WellPaired(<<Meta>>)
  BY MessageTypes, OnePaired DEF Meta, Plain
<1>. QED
  BY <1>2, <1>4, <1>5, <1>6, ConcatPaired DEF Spliced

LEMMA ToolMessagesType ==
  ASSUME NEW n \in 0..MaxCalls, NEW k \in 0..n
  PROVE  /\ ToolMessages(n, k) \in Seq(Message)
         /\ \A i \in 1..Len(ToolMessages(n, k)) : ToolMessages(n, k)[i].role = "tool"
         /\ k = 0 => /\ Len(ToolMessages(n, k)) = n
                     /\ \A i \in 1..n : ToolMessages(n, k)[i] = Tool(i)
<1>. DEFINE l == IF k = 0 THEN n ELSE n - 1
            e(i) == Tool(IF k = 0 \/ i < k THEN i ELSE i + 1)
            s == [i \in 1..l |-> e(i)]
<1>1. n \in Nat /\ MaxCalls \in Nat /\ n <= MaxCalls /\ l \in Nat
  BY LoopAssumption
<1>2. \A i \in 1..l : (IF k = 0 \/ i < k THEN i ELSE i + 1) \in 0..MaxCalls
  BY <1>1
<1>3. \A i \in 1..l : e(i) \in Message /\ e(i).role = "tool"
  BY <1>2, MessageTypes DEF Tool
<1>. HIDE DEF e
<1>4. s \in [1..l -> Message]
  BY <1>3
<1>. HIDE DEF l
<1>5. s \in Seq(Message) /\ Len(s) = l
  BY <1>1, <1>4, LenProperties
<1>6. \A i \in 1..Len(s) : s[i].role = "tool"
  BY <1>3, <1>5
<1>7. k = 0 => Len(s) = n /\ \A i \in 1..n : s[i] = Tool(i)
  BY <1>5 DEF l, e
<1>8. ToolMessages(n, k) = s
  BY DEF ToolMessages, e, l
<1>. QED
  BY <1>5, <1>6, <1>7, <1>8

(* The results that all of n calls return complete them.                   *)
LEMMA CallsAnswered ==
  ASSUME NEW f, WellPaired(f), NEW t \in SUBSET Part, NEW n \in 0..MaxCalls
  PROVE  WellPaired(Append(f, Assistant(t, n)) \o ToolMessages(n, 0))
<1>. DEFINE x == Assistant(t, n)  r == ToolMessages(n, 0)  g == <<x>> \o r
<1>1. x \in Message /\ x.role = "assistant" /\ x.calls = n /\ ~x.meta
  BY MessageTypes DEF Assistant
<1>2. /\ r \in Seq(Message) /\ Len(r) = n /\ n \in Nat
      /\ \A i \in 1..n : r[i] = Tool(i)
  <2>1. 0 \in 0..n /\ n \in Nat
    BY LoopAssumption
  <2>. QED
    BY <2>1, ToolMessagesType
<1>. HIDE DEF x, r
<1>3. <<x>> \in Seq(Message) /\ Len(<<x>>) = 1 /\ <<x>>[1] = x
  BY <1>1
<1>4. /\ g \in Seq(Message) /\ Len(g) = 1 + n
      /\ \A i \in 1..(1 + n) : g[i] = IF i <= 1 THEN <<x>>[i] ELSE r[i - 1]
  <2>1. /\ g \in Seq(Message) /\ Len(g) = Len(<<x>>) + Len(r)
        /\ \A i \in 1..(Len(<<x>>) + Len(r)) :
             g[i] = IF i <= Len(<<x>>) THEN <<x>>[i] ELSE r[i - Len(<<x>>)]
    BY <1>2, <1>3, ConcatProperties
  <2>. QED
    BY <1>2, <1>3, <2>1
<1>5. g[1] = x
  <2>1. 1 \in 1..(1 + n) /\ 1 <= 1
    BY <1>2
  <2>. QED
    BY <1>3, <1>4, <2>1
<1>6. \A i \in 1..n : g[1 + i] = Tool(i)
  <2>1. \A i \in 1..n : (1 + i) \in 1..(1 + n) /\ ~(1 + i <= 1) /\ (1 + i) - 1 = i
    BY <1>2
  <2>. QED
    BY <1>2, <1>4, <2>1
<1>. HIDE DEF g
<1>7. DOMAIN g = 1..(1 + n) /\ g # <<>>
  BY <1>2, <1>4, SeqMessage
<1>8. \A i \in 1..n : g[1 + i].role = "tool" /\ g[1 + i].id = i /\ g[1 + i].calls = 0
                      /\ ~g[1 + i].meta
  <2>1. \A i \in 1..n : /\ Tool(i).role = "tool" /\ Tool(i).id = i
                         /\ Tool(i).calls = 0 /\ ~Tool(i).meta
    BY DEF Tool
  <2>. QED
    BY <1>6, <2>1
<1>9. Grouped(g, 1)
  BY <1>1, <1>2, <1>4, <1>5, <1>8 DEF Grouped
<1>10. \A j \in DOMAIN g : j = 1 \/ \E i \in 1..n : j = 1 + i
  <2>1. \A j \in 1..(1 + n) : j # 1 => (j - 1) \in 1..n /\ j = 1 + (j - 1)
    BY <1>2
  <2>. QED
    BY <1>7, <2>1
<1>11. WellPaired(g)
  <2>1. ASSUME NEW j \in DOMAIN g PROVE Plain(g[j])
    <3>1. CASE j = 1
      BY <1>1, <1>5, <3>1 DEF Plain
    <3>2. ASSUME NEW i \in 1..n, j = 1 + i PROVE Plain(g[j])
      BY <1>8, <3>2 DEF Plain
    <3>. QED
      BY <1>10, <3>1, <3>2
  <2>2. \A j \in DOMAIN g : g[j].role # "tool" => Grouped(g, j)
    <3>1. ASSUME NEW j \in DOMAIN g, g[j].role # "tool" PROVE j = 1
      BY <1>8, <1>10, <3>1
    <3>. QED
      BY <1>9, <3>1
  <2>. QED
    BY <1>1, <1>4, <1>5, <2>1, <2>2 DEF WellPaired
<1>12. f \in Seq(Message)
  BY DEF WellPaired
<1>13. Append(f, x) = f \o <<x>>
  BY <1>1, <1>12, AppendIsConcat
<1>14. (f \o <<x>>) \o r = f \o g
  BY <1>2, <1>3, <1>12, ConcatAssociative DEF g
<1>15. WellPaired(f \o g)
  BY <1>11, ConcatPaired
<1>. QED
  BY <1>13, <1>14, <1>15 DEF x, r

-----------------------------------------------------------------------------

(* Types.                                                                  *)

ControlOK ==
  /\ pc \in Labels
  /\ run \in 0..Runs /\ (pc # "idle" => run > 0)
  /\ turn \in Nat
  /\ recoveries \in 0..MaxOutputRecoveries
  /\ pc = "recover" => recoveries < MaxOutputRecoveries
  /\ parseRetries \in 0..MaxParseRetries
  /\ via \in {"none", "stream", "fallback", "retried", "chat"}

FlagsOK ==
  {streamDisabled, dedup, invoked, hit, resumed, cut, missing, mixed} \subseteq BOOLEAN

Response == [text : SUBSET Part, calls : 0..MaxCalls, memory : BOOLEAN,
             ghosts : BOOLEAN, retry : BOOLEAN, truncated : BOOLEAN]
TextsOK == resp \in Response /\ {deliverable, content, shown, again} \subseteq SUBSET Part

TalkOK == messages \in Seq(Message) /\ session \in Seq(Message)

TypeInv == ControlOK /\ FlagsOK /\ TextsOK /\ TalkOK

LEMMA TypeInvImplies == TypeInv => TypeOK
BY DEF TypeInv, ControlOK, Labels, FlagsOK, TextsOK, Response, TalkOK, TypeOK

LEMMA ControlNext == ASSUME TypeInv, [Next]_vars PROVE ControlOK'
<1>. USE DEF ControlOK, Labels
<1>0. ControlOK
  BY DEF TypeInv
<1>a. /\ MaxOutputRecoveries \in Nat /\ MaxParseRetries \in Nat /\ Runs \in Nat
      /\ 0 \in 0..MaxOutputRecoveries /\ 0 \in 0..MaxParseRetries
  BY LoopAssumption
<1>b. Return => ControlOK'
  BY <1>0, <1>a DEF Return
<1>1. CASE Start
  BY <1>0, <1>a, <1>1 DEF Start, counters, answer
<1>2. CASE NextTurn
  BY <1>0, <1>2 DEF NextTurn, counters, answer
<1>3. CASE CallModel
  <2>1. PICK r \in Answers, path \in Paths : Respond(r, path)
    BY <1>3 DEF CallModel
  <2>2. /\ pc = "call" /\ pc' \in {"recover", "decide"}
        /\ pc' = "recover" => recoveries < MaxOutputRecoveries
        /\ UNCHANGED <<run, turn, recoveries, parseRetries>> /\ via' = path
    BY <2>1 DEF Respond, counters
  <2>3. path \in {"chat", "stream", "fallback", "retried"}
    BY DEF Paths
  <2>. QED
    BY <1>0, <2>2, <2>3
<1>4. CASE Fail
  BY <1>4, <1>b DEF Fail
<1>5. CASE Recover
  <2>1. /\ pc = "recover" /\ pc' = "decide" /\ recoveries' = recoveries + 1
        /\ UNCHANGED <<run, turn, parseRetries, via>>
    BY <1>5 DEF Recover
  <2>. QED
    BY <1>0, <1>a, <2>1
<1>6. CASE ParseRetry
  BY <1>0, <1>a, <1>6 DEF ParseRetry, Retries, Corrected, Continue
<1>7. CASE Nudge
  BY <1>0, <1>7 DEF Nudge, Corrected, Continue
<1>8. CASE FinalRound
  BY <1>0, <1>8 DEF FinalRound, counters, answer
<1>9. CASE CallTools
  BY <1>0, <1>9 DEF CallTools, counters, answer
<1>10. CASE ToolsDone
  BY <1>0, <1>10 DEF ToolsDone, Continue, ExecuteTools, counters
<1>11. CASE Passthrough
  BY <1>0, <1>11 DEF Passthrough, ExecuteTools, counters, answer
<1>12. CASE TurnsUsedUp
  BY <1>0, <1>12 DEF TurnsUsedUp, counters, answer
<1>13. CASE SaveSession
  BY <1>13, <1>b DEF SaveSession
<1>14. CASE UNCHANGED vars
  BY <1>0, <1>14 DEF vars, counters, answer
<1>. QED
  BY <1>1, <1>2, <1>3, <1>4, <1>5, <1>6, <1>7, <1>8, <1>9, <1>10, <1>11, <1>12,
     <1>13, <1>14 DEF Next, Step

LEMMA FlagsNext == ASSUME TypeInv, [Next]_vars PROVE FlagsOK'
<1>. USE DEF FlagsOK
<1>0. FlagsOK
  BY DEF TypeInv
<1>b. Return => FlagsOK'
  BY <1>0 DEF Return
<1>1. CASE Start
  BY <1>0, <1>1 DEF Start, result
<1>2. CASE NextTurn
  BY <1>0, <1>2 DEF NextTurn, Compress, result
<1>3. CASE CallModel
  BY <1>0, <1>3 DEF CallModel, Respond, result, history
<1>4. CASE Fail
  BY <1>4, <1>b DEF Fail
<1>5. CASE Recover
  BY <1>0, <1>5 DEF Recover, result, history
<1>6. CASE ParseRetry
  BY <1>0, <1>6 DEF ParseRetry, Corrected, result, history
<1>7. CASE Nudge
  BY <1>0, <1>7 DEF Nudge, Corrected, result, history
<1>8. CASE FinalRound
  BY <1>0, <1>8 DEF FinalRound, history
<1>9. CASE CallTools
  BY <1>0, <1>9 DEF CallTools, history
<1>10. CASE ToolsDone
  BY <1>0, <1>10 DEF ToolsDone, ExecuteTools
<1>11. CASE Passthrough
  BY <1>0, <1>11 DEF Passthrough, ExecuteTools
<1>12. CASE TurnsUsedUp
  BY <1>0, <1>12 DEF TurnsUsedUp, history
<1>13. CASE SaveSession
  BY <1>13, <1>b DEF SaveSession
<1>14. CASE UNCHANGED vars
  BY <1>0, <1>14 DEF vars, result, history
<1>. QED
  BY <1>1, <1>2, <1>3, <1>4, <1>5, <1>6, <1>7, <1>8, <1>9, <1>10, <1>11, <1>12,
     <1>13, <1>14 DEF Next, Step

(* What is said in a run that has begun is a text.                         *)
LEMMA SaidIsText ==
  ASSUME ControlOK, pc # "idle",
         NEW part \in {"ask", "head", "tail", "report", "summary"}
  PROVE  Said(part) \in Part
BY DEF ControlOK, Said, Part

LEMMA AnswersType == ASSUME ControlOK, pc # "idle" PROVE Answers \subseteq Response
<1>1. Said("head") \in Part
  BY SaidIsText
<1>2. Texts \subseteq SUBSET Part
  BY <1>1 DEF Texts
<1>. QED
  BY <1>2 DEF Answers, Response

LEMMA LastSaidType == ASSUME TalkOK PROVE LastSaid(messages) \in SUBSET Part
<1>. DEFINE said == {i \in DOMAIN messages : messages[i].role = "assistant" /\ messages[i].text # {}}
            last == CHOOSE i \in said : \A j \in said : j <= i
<1>1. LastSaid(messages) = IF said = {} THEN {} ELSE messages[last].text
  BY DEF LastSaid
<1>2. messages \in Seq(Message)
  BY DEF TalkOK
<1>3. said \in SUBSET (1..Len(messages))
  BY <1>2, SeqMessage
<1>. HIDE DEF said
<1>4. said # {} => last \in said
  <2>1. SUFFICES ASSUME said # {} PROVE \E i \in said : \A j \in said : j <= i
    OBVIOUS
  <2>2. Len(messages) \in Nat /\ IsFiniteSet(1..Len(messages))
    BY <1>2, SeqMessage, FS_Interval
  <2>3. IsFiniteSet(said) /\ said \subseteq Nat
    <3>1. IsFiniteSet(said)
      BY <1>3, <2>2, FS_Subset
    <3>. QED
      BY <1>3, <2>2, <3>1
  <2>. DEFINE n == Cardinality(said)  i == Nth(said, n)
  <2>4. n \in Nat /\ n # 0
    BY <2>1, <2>3, FS_CardinalityType, FS_EmptySet
  <2>5. n \in 1..n
    BY <2>4
  <2>6. i \in said /\ Rank(said, i) = n
    BY <2>3, <2>5, NthWorks
  <2>. HIDE DEF n, i
  <2>7. ASSUME NEW j \in said, i < j PROVE FALSE
    <3>1. n < Rank(said, j)
      BY <2>3, <2>6, <2>7, RankLess
    <3>2. Rank(said, j) \in 1..n
      BY <2>3, RankType DEF n
    <3>. QED
      BY <2>4, <3>1, <3>2
  <2>8. \A j \in said : j <= i
    BY <2>3, <2>6, <2>7
  <2>. QED
    BY <2>6, <2>8
<1>5. said # {} => messages[last].text \in SUBSET Part
  BY <1>2, <1>3, <1>4, SeqMessage DEF Message
<1>. QED
  BY <1>1, <1>5

LEMMA TextsNext == ASSUME TypeInv, [Next]_vars PROVE TextsOK'
<1>. USE DEF TextsOK
<1>0. TextsOK /\ ControlOK /\ TalkOK
  BY DEF TypeInv
<1>a. NoAnswer \in Response
  <2>1. 0 \in 0..MaxCalls
    BY LoopAssumption
  <2>. QED
    BY <2>1 DEF NoAnswer, Response
<1>b. Return => TextsOK'
  BY <1>a DEF Return
<1>c. \A t \in SUBSET Part : Show(t) => {shown', again'} \subseteq SUBSET Part
  BY <1>0 DEF Show
<1>d. pc # "idle" => \A t \in SUBSET Part : OrSummary(t) \in SUBSET Part
  BY <1>0, SaidIsText DEF OrSummary
<1>e. Corrected => TextsOK'
  BY <1>0, <1>a DEF Corrected, Continue, result, screen
<1>1. CASE Start
  BY <1>0, <1>1 DEF Start, answer, result, screen
<1>2. CASE NextTurn
  BY <1>0, <1>2 DEF NextTurn, answer, result, screen
<1>3. CASE CallModel
  <2>1. PICK r \in Answers, path \in Paths : Respond(r, path)
    BY <1>3 DEF CallModel
  <2>2. r \in Response
    BY <1>0, <2>1, AnswersType DEF Respond
  <2>3. resp' \in Response
    BY <2>1, <2>2 DEF Respond, Response
  <2>4. {shown', again'} \subseteq SUBSET Part
    BY <1>0, <1>c, <2>1, <2>2 DEF Respond, Response, screen
  <2>5. {deliverable', content'} \subseteq SUBSET Part
    BY <1>0, <2>1 DEF Respond, result
  <2>. QED
    BY <2>3, <2>4, <2>5
<1>4. CASE Fail
  BY <1>4, <1>b DEF Fail
<1>5. CASE Recover
  <2>1. pc = "recover" /\ {deliverable', content'} \subseteq SUBSET Part
    BY <1>0, <1>5 DEF Recover, result
  <2>2. CASE UNCHANGED <<resp, screen>>
    BY <1>0, <2>1, <2>2 DEF screen
  <2>3. ASSUME NEW r \in Answers, NEW more \in {{}, {Said("tail")}},
               resp' = [r EXCEPT !.text = resp.text \cup more, !.truncated = FALSE],
               Show(more)
        PROVE  TextsOK'
    <3>1. r \in Response /\ more \in SUBSET Part /\ resp.text \in SUBSET Part
      BY <1>0, <2>1, AnswersType, SaidIsText DEF Response
    <3>2. resp' \in Response
      BY <2>3, <3>1 DEF Response
    <3>. QED
      BY <1>c, <2>1, <2>3, <3>1, <3>2
  <2>. QED
    BY <1>5, <2>2, <2>3 DEF Recover
<1>6. CASE ParseRetry
  BY <1>6, <1>e DEF ParseRetry
<1>7. CASE Nudge
  BY <1>7, <1>e DEF Nudge
<1>8. CASE FinalRound
  <2>1. pc = "decide" /\ resp.text \in SUBSET Part /\ resp' = resp
    BY <1>0, <1>8 DEF FinalRound, Response, answer
  <2>2. deliverable' \in SUBSET Part /\ content' \in SUBSET Part
    BY <1>0, <1>8, <1>d, <2>1 DEF FinalRound
  <2>3. {shown', again'} \subseteq SUBSET Part
    BY <1>0, <1>8, <1>c, <2>1 DEF FinalRound, screen
  <2>. QED
    BY <1>0, <2>1, <2>2, <2>3
<1>9. CASE CallTools
  BY <1>0, <1>9 DEF CallTools, Response, answer, screen
<1>10. CASE ToolsDone
  BY <1>0, <1>a, <1>10 DEF ToolsDone, Continue, screen
<1>11. CASE Passthrough
  <2>1. pc = "tools" /\ content' = {Said("report")} /\ Show(content')
        /\ resp' = resp /\ deliverable' = deliverable
    BY <1>11 DEF Passthrough, ExecuteTools, answer
  <2>2. content' \in SUBSET Part
    BY <1>0, <2>1, SaidIsText
  <2>. QED
    BY <1>0, <1>c, <2>1, <2>2
<1>12. CASE TurnsUsedUp
  <2>1. content' \in SUBSET Part
    BY <1>0, <1>12, <1>d, LastSaidType DEF TurnsUsedUp
  <2>. QED
    BY <1>0, <1>12, <2>1 DEF TurnsUsedUp, answer, screen
<1>13. CASE SaveSession
  BY <1>13, <1>b DEF SaveSession
<1>14. CASE UNCHANGED vars
  BY <1>0, <1>14 DEF vars, answer, result, screen
<1>. QED
  BY <1>1, <1>2, <1>3, <1>4, <1>5, <1>6, <1>7, <1>8, <1>9, <1>10, <1>11, <1>12,
     <1>13, <1>14 DEF Next, Step

LEMMA CompressType ==
  ASSUME NEW m \in Seq(Message), Compress(m)
  PROVE  messages' \in Seq(Message)
<1>1. Len(m) \in Nat /\ DOMAIN m = 1..Len(m) /\ \A i \in 1..Len(m) : m[i] \in Message
  BY SeqMessage
<1>2. CollapseTurns(m) \in Seq(Message)
  <2>1. CASE CollapseTurns(m) = m
    BY <2>1
  <2>2. CASE CollapseTurns(m) # m
    <3>1. PICK a \in TurnStarts(m), p \in TurnStarts(m) :
            1 < a /\ a < p /\ CollapseTurns(m) = Spliced(m, a, p)
      BY <2>2, CollapseShape
    <3>2. a \in Nat /\ p \in Nat /\ p <= Len(m)
      BY <1>1 DEF TurnStarts
    <3>. QED
      BY <3>1, <3>2, SplicedElements
  <2>. QED
    BY <2>1, <2>2
<1>3. Len(m) > 4 => EmergencyTruncate(m) \in Seq(Message)
  <2>1. SUFFICES ASSUME Len(m) > 4 PROVE EmergencyTruncate(m) \in Seq(Message)
    OBVIOUS
  <2>2. <<m[1], Meta>> \in Seq(Message)
    BY <1>1, <2>1, MessageTypes
  <2>3. SubSeq(m, Len(m) - 2, Len(m)) \in Seq(Message)
    <3>1. \A i \in (Len(m) - 2)..Len(m) : m[i] \in Message
      BY <1>1, <2>1
    <3>. QED
      BY <1>1, <3>1, SubSeqProperties
  <2>. QED
    BY <2>1, <2>2, <2>3, <1>1, ConcatProperties DEF EmergencyTruncate
<1>. QED
  BY <1>2, <1>3 DEF Compress

LEMMA TalkNext == ASSUME TypeInv, [Next]_vars PROVE TalkOK'
<1>. USE DEF TalkOK
<1>0. TalkOK /\ ControlOK /\ TextsOK
  BY DEF TypeInv
<1>a. Meta \in Message /\ resp.calls \in 0..MaxCalls
      /\ \A n \in 0..MaxCalls : Assistant(resp.text, n) \in Message
  BY <1>0, MessageTypes DEF TextsOK, Response
<1>b. Corrected => TalkOK'
  <2>1. 0 \in 0..MaxCalls
    BY LoopAssumption
  <2>2. <<Assistant(resp.text, 0), Meta>> \in Seq(Message)
    BY <1>a, <2>1
  <2>3. messages \o <<Assistant(resp.text, 0), Meta>> \in Seq(Message)
    BY <1>0, <2>2, ConcatProperties
  <2>. QED
    BY <1>0, <2>3 DEF Corrected
<1>c. ASSUME NEW k \in 0..resp.calls, ExecuteTools(k) PROVE messages' \in Seq(Message)
  <2>1. ToolMessages(resp.calls, k) \in Seq(Message)
    BY <1>a, ToolMessagesType
  <2>. QED
    BY <1>0, <1>c, <2>1, ConcatProperties DEF ExecuteTools
<1>1. CASE Start
  <2>1. <<Meta, Ask(run + 1)>> \in Seq(Message)
    <3>1. (run + 1) \in 1..Runs
      BY <1>0, <1>1, LoopAssumption DEF Start, ControlOK
    <3>. QED
      BY <1>a, <3>1, MessageTypes
  <2>2. \A s \in Seq(Message) : s \o <<Meta, Ask(run + 1)>> \in Seq(Message)
    BY <2>1, ConcatProperties
  <2>3. <<>> \in Seq(Message)
    OBVIOUS
  <2>. QED
    BY <1>0, <1>1, <2>2, <2>3 DEF Start
<1>2. CASE NextTurn
  <2>1. Append(messages, Meta) \in Seq(Message)
    BY <1>0, <1>a, AppendProperties
  <2>. QED
    BY <1>0, <1>2, <2>1, CompressType DEF NextTurn
<1>3. CASE CallModel
  BY <1>0, <1>3 DEF CallModel, Respond
<1>4. CASE Fail
  BY <1>0, <1>4 DEF Fail, Return
<1>5. CASE Recover
  BY <1>0, <1>5 DEF Recover
<1>6. CASE ParseRetry
  BY <1>6, <1>b DEF ParseRetry
<1>7. CASE Nudge
  BY <1>7, <1>b DEF Nudge
<1>8. CASE FinalRound
  <2>1. 0 \in 0..MaxCalls
    BY LoopAssumption
  <2>2. Append(messages, Assistant(resp.text, 0)) \in Seq(Message)
    BY <1>0, <1>a, <2>1, AppendProperties
  <2>. QED
    BY <1>0, <1>8, <2>2 DEF FinalRound
<1>9. CASE CallTools
  <2>1. Append(messages, Assistant(resp.text, resp.calls)) \in Seq(Message)
    BY <1>0, <1>a, AppendProperties
  <2>. QED
    BY <1>0, <1>9, <2>1 DEF CallTools
<1>10. CASE ToolsDone
  BY <1>0, <1>10, <1>c DEF ToolsDone
<1>11. CASE Passthrough
  BY <1>0, <1>11, <1>c DEF Passthrough
<1>12. CASE TurnsUsedUp
  BY <1>0, <1>12 DEF TurnsUsedUp
<1>13. CASE SaveSession
  BY <1>0, <1>13, PersistedSeq DEF SaveSession, Return
<1>14. CASE UNCHANGED vars
  BY <1>0, <1>14 DEF vars
<1>. QED
  BY <1>1, <1>2, <1>3, <1>4, <1>5, <1>6, <1>7, <1>8, <1>9, <1>10, <1>11, <1>12,
     <1>13, <1>14 DEF Next, Step

LEMMA TypeInit == Init => TypeInv
<1>. SUFFICES ASSUME Init PROVE TypeInv
  OBVIOUS
<1>1. ControlOK /\ TalkOK
  BY LoopAssumption DEF Init, ControlOK, Labels, TalkOK
<1>a. FlagsOK
  BY DEF Init, FlagsOK
<1>2. 0 \in 0..MaxCalls
  BY LoopAssumption
<1>3. TextsOK
  BY <1>2 DEF Init, TextsOK, NoAnswer, Response
<1>. QED
  BY <1>1, <1>a, <1>3 DEF TypeInv

LEMMA TypeNext == TypeInv /\ [Next]_vars => TypeInv'
BY ControlNext, FlagsNext, TextsNext, TalkNext DEF TypeInv

(* All variables keep their types.                                         *)
THEOREM TypeCorrect == Spec => []TypeOK
BY TypeInit, TypeNext, TypeInvImplies, PTL DEF Spec

-----------------------------------------------------------------------------

(* As long as nothing was cut off and no result lost, the conversation is  *)
(* well paired; between an assistant's tool calls and their results, it is *)
(* so up to the calls.                                                     *)
Calling == \E f \in Seq(Message), t \in SUBSET Part :
             WellPaired(f) /\ messages = Append(f, Assistant(t, resp.calls))

PairedInv ==
  ~cut /\ ~missing =>
    /\ WellPaired(session)
    /\ IF pc = "tools" THEN Calling ELSE WellPaired(messages)

LEMMA EmptyPaired == WellPaired(<<>>)
BY DEF WellPaired

LEMMA AssistantPaired ==
  ASSUME NEW m, WellPaired(m), NEW t \in SUBSET Part
  PROVE  WellPaired(Append(m, Assistant(t, 0)))
<1>1. Assistant(t, 0) \in Message
  <2>1. 0 \in 0..MaxCalls
    BY LoopAssumption
  <2>. QED
    BY <2>1, MessageTypes
<1>. QED
  BY <1>1, AppendPaired DEF Assistant, Plain

LEMMA MetaPaired == ASSUME NEW m, WellPaired(m) PROVE WellPaired(Append(m, Meta))
BY MessageTypes, AppendPaired DEF Meta, Plain

LEMMA TwoMorePaired ==
  ASSUME NEW m, WellPaired(m), NEW x \in Message, NEW y \in Message,
         WellPaired(Append(m, x)), WellPaired(Append(Append(m, x), y))
  PROVE  WellPaired(m \o <<x, y>>)
<1>1. m \in Seq(Message)
  BY DEF WellPaired
<1>2. m \o <<x, y>> = Append(Append(m, x), y)
  BY <1>1
<1>. QED
  BY <1>2

LEMMA PairedNext == ASSUME TypeInv, PairedInv, [Next]_vars PROVE PairedInv'
<1>. SUFFICES ASSUME ~cut', ~missing'
              PROVE  /\ WellPaired(session')
                     /\ IF pc' = "tools" THEN Calling' ELSE WellPaired(messages')
  BY DEF PairedInv
<1>0. TalkOK /\ ControlOK /\ TextsOK
  BY DEF TypeInv
<1>a. resp.text \in SUBSET Part /\ resp.calls \in 0..MaxCalls
  BY <1>0 DEF TextsOK, Response
<1>b. ASSUME ~cut, ~missing PROVE WellPaired(session)
  BY <1>b DEF PairedInv
<1>c. ASSUME ~cut, ~missing, pc # "tools" PROVE WellPaired(messages)
  BY <1>c DEF PairedInv
<1>d. ASSUME Corrected, pc = "decide"
      PROVE  /\ WellPaired(session')
             /\ IF pc' = "tools" THEN Calling' ELSE WellPaired(messages')
  <2>1. ~cut /\ ~missing /\ session' = session /\ pc' = "turn"
        /\ messages' = messages \o <<Assistant(resp.text, 0), Meta>>
    BY <1>d DEF Corrected, Continue, history
  <2>2. WellPaired(session) /\ WellPaired(messages)
    BY <1>b, <1>c, <1>d, <2>1
  <2>3. WellPaired(Append(messages, Assistant(resp.text, 0)))
    BY <1>a, <2>2, AssistantPaired
  <2>4. WellPaired(Append(Append(messages, Assistant(resp.text, 0)), Meta))
    BY <2>3, MetaPaired
  <2>5. 0 \in 0..MaxCalls
    BY LoopAssumption
  <2>6. WellPaired(messages')
    BY <1>a, <2>1, <2>2, <2>3, <2>4, <2>5, MessageTypes, TwoMorePaired
  <2>. QED
    BY <2>1, <2>2, <2>6
<1>e. ASSUME NEW k \in 0..resp.calls, ExecuteTools(k), ~cut
      PROVE  WellPaired(session) /\ WellPaired(messages')
  <2>1. k = 0 /\ ~missing /\ pc = "tools"
        /\ messages' = messages \o ToolMessages(resp.calls, 0)
    BY <1>e DEF ExecuteTools
  <2>2. Calling
    BY <1>e, <2>1 DEF PairedInv
  <2>3. WellPaired(messages')
    BY <1>a, <2>1, <2>2, CallsAnswered DEF Calling
  <2>. QED
    BY <1>b, <1>e, <2>1, <2>3
<1>1. CASE Start
  <2>1. ~cut /\ ~missing /\ session' = session /\ pc' = "turn"
    BY <1>1 DEF Start
  <2>2. PICK saved \in {session, <<>>} : messages' = saved \o <<Meta, Ask(run + 1)>>
    BY <1>1 DEF Start
  <2>3. WellPaired(saved)
    BY <1>b, <2>1, EmptyPaired
  <2>4. Ask(run + 1) \in Message
    <3>1. (run + 1) \in 1..Runs
      BY <1>0, <1>1, LoopAssumption DEF Start, ControlOK
    <3>. QED
      BY <3>1, MessageTypes
  <2>5. WellPaired(Append(saved, Meta))
    BY <2>3, MetaPaired
  <2>6. WellPaired(Append(Append(saved, Meta), Ask(run + 1)))
    BY <2>4, <2>5, AppendPaired DEF Ask, Meta, Plain
  <2>7. WellPaired(messages')
    BY <2>2, <2>3, <2>4, <2>5, <2>6, MessageTypes, TwoMorePaired
  <2>. QED
    BY <1>b, <2>1, <2>7
<1>2. CASE NextTurn
  <2>. DEFINE m == IF dedup THEN Append(messages, Meta) ELSE messages
  <2>1. pc = "turn" /\ Compress(m) /\ session' = session /\ pc' = "call"
        /\ missing' = missing
    BY <1>2 DEF NextTurn
  <2>2. ~cut /\ (messages' = m \/ messages' = CollapseTurns(m))
    BY <2>1 DEF Compress
  <2>3. WellPaired(session) /\ WellPaired(messages)
    BY <1>b, <1>c, <2>1, <2>2
  <2>4. WellPaired(m)
    BY <2>3, MetaPaired
  <2>5. WellPaired(messages')
    BY <2>2, <2>4, CollapsePaired
  <2>. QED
    BY <2>1, <2>3, <2>5
<1>3. CASE CallModel
  <2>1. pc = "call" /\ ~cut /\ ~missing /\ pc' # "tools"
        /\ UNCHANGED <<session, messages>>
    BY <1>3 DEF CallModel, Respond, history
  <2>. QED
    BY <1>b, <1>c, <2>1
<1>4. CASE Fail
  <2>1. ~cut /\ ~missing /\ pc' = "idle" /\ session' = session /\ messages' = <<>>
    BY <1>4 DEF Fail, Return
  <2>. QED
    BY <1>b, <2>1, EmptyPaired
<1>5. CASE Recover
  <2>1. pc = "recover" /\ ~cut /\ ~missing /\ pc' # "tools"
        /\ UNCHANGED <<session, messages>>
    BY <1>5 DEF Recover, history
  <2>. QED
    BY <1>b, <1>c, <2>1
<1>6. CASE ParseRetry
  BY <1>6, <1>d DEF ParseRetry
<1>7. CASE Nudge
  BY <1>7, <1>d DEF Nudge
<1>8. CASE FinalRound
  <2>1. pc = "decide" /\ ~cut /\ ~missing /\ pc' = "save" /\ session' = session
        /\ messages' = Append(messages, Assistant(resp.text, 0))
    BY <1>8 DEF FinalRound, history
  <2>. QED
    BY <1>a, <1>b, <1>c, <2>1, AssistantPaired
<1>9. CASE CallTools
  <2>1. pc = "decide" /\ ~cut /\ ~missing /\ pc' = "tools" /\ session' = session
        /\ resp' = resp
        /\ messages' = Append(messages, Assistant(resp.text, resp.calls))
    BY <1>9 DEF CallTools, history, answer
  <2>2. Calling'
    BY <1>0, <1>a, <1>c, <2>1 DEF Calling, TalkOK
  <2>. QED
    BY <1>b, <2>1, <2>2
<1>10. CASE ToolsDone
  <2>1. ~cut /\ session' = session /\ pc' = "turn"
    BY <1>10 DEF ToolsDone, Continue
  <2>. QED
    BY <1>10, <1>e, <2>1 DEF ToolsDone
<1>11. CASE Passthrough
  <2>1. ~cut /\ session' = session /\ pc' = "save"
    BY <1>11 DEF Passthrough
  <2>. QED
    BY <1>11, <1>e, <2>1 DEF Passthrough
<1>12. CASE TurnsUsedUp
  <2>1. pc = "turn" /\ ~cut /\ ~missing /\ pc' = "save"
        /\ UNCHANGED <<session, messages>>
    BY <1>12 DEF TurnsUsedUp, history
  <2>. QED
    BY <1>b, <1>c, <2>1
<1>13. CASE SaveSession
  <2>1. pc = "save" /\ ~cut /\ ~missing /\ pc' = "idle" /\ messages' = <<>>
        /\ session' \in {session, Persisted(messages)}
    BY <1>13 DEF SaveSession, Return
  <2>. QED
    BY <1>b, <1>c, <2>1, EmptyPaired, PersistedPaired
<1>14. CASE UNCHANGED vars
  <2>1. ~cut /\ ~missing /\ UNCHANGED <<pc, session, messages, resp>>
    BY <1>14 DEF vars, history, answer
  <2>2. Calling => Calling'
    BY <2>1 DEF Calling
  <2>. QED
    BY <2>1, <2>2 DEF PairedInv
<1>. QED
  BY <1>1, <1>2, <1>3, <1>4, <1>5, <1>6, <1>7, <1>8, <1>9, <1>10, <1>11, <1>12,
     <1>13, <1>14 DEF Next, Step

(* Only an emergency truncation, or a panic in a tool, separates a tool    *)
(* call from its result in a request or in the saved session               *)
(* (engine.go:149, 205; compressor.go, CollapseTurns).                     *)
THEOREM PairingKept == Spec => []RequestsPaired
<1>1. Init => PairedInv
  BY EmptyPaired DEF Init, PairedInv
<1>2. TypeInv /\ PairedInv /\ [Next]_vars => PairedInv'
  BY PairedNext
<1>3. PairedInv => RequestsPaired
  BY PairedIf DEF PairedInv, RequestsPaired
<1>. QED
  BY TypeInit, TypeNext, <1>1, <1>2, <1>3, PTL DEF Spec

-----------------------------------------------------------------------------

(* The question.                                                           *)

(* The assistant's messages after the q-th; a question is recent when at   *)
(* most k follow it.                                                       *)
Later(m, q) == {i \in DOMAIN m : i > q /\ m[i].role = "assistant"}

Recent(m, r, k) ==
  \E q \in DOMAIN m : m[q] = Ask(r) /\ Cardinality(Later(m, q)) <= k

(* The question stands second in a new session; in a resumed one at most   *)
(* one answer for each turn comes after it.                                *)
AskedFirst(m, r) == Len(m) >= 2 /\ m[2] = Ask(r)

AnswersGiven == IF pc \in {"tools", "save"} THEN turn + 1 ELSE turn

QuestionInv ==
  pc # "idle" /\ ~cut =>
    /\ ~resumed => AskedFirst(messages, run)
    /\ resumed /\ turn <= 2 => Recent(messages, run, AnswersGiven)

LEMMA LaterFinite ==
  ASSUME NEW m \in Seq(Message), NEW q \in DOMAIN m
  PROVE  /\ IsFiniteSet(Later(m, q)) /\ Cardinality(Later(m, q)) \in Nat
         /\ Later(m, q) \in SUBSET (1..Len(m)) /\ q \in 1..Len(m)
<1>1. Len(m) \in Nat /\ DOMAIN m = 1..Len(m) /\ IsFiniteSet(1..Len(m))
  BY SeqMessage, FS_Interval
<1>2. Later(m, q) \in SUBSET (1..Len(m))
  BY <1>1 DEF Later
<1>3. IsFiniteSet(Later(m, q))
  BY <1>1, <1>2, FS_Subset
<1>. QED
  BY <1>1, <1>2, <1>3, FS_CardinalityType

LEMMA AppendAsked ==
  ASSUME NEW m \in Seq(Message), NEW x \in Message, NEW r
  PROVE  /\ AskedFirst(m, r) => AskedFirst(Append(m, x), r)
         /\ \A k \in Nat : Recent(m, r, k) => Recent(Append(m, x), r, k + 1)
         /\ x.role # "assistant" => \A k \in Nat : Recent(m, r, k) => Recent(Append(m, x), r, k)
<1>. DEFINE a == Append(m, x)
<1>1. Len(m) \in Nat /\ DOMAIN m = 1..Len(m)
  BY SeqMessage
<1>2. /\ a \in Seq(Message) /\ Len(a) = Len(m) + 1 /\ a[Len(m) + 1] = x
      /\ \A i \in 1..Len(m) : a[i] = m[i]
  BY AppendProperties
<1>. HIDE DEF a
<1>3. DOMAIN a = 1..(Len(m) + 1)
  BY <1>2, SeqMessage
<1>4. AskedFirst(m, r) => AskedFirst(a, r)
  BY <1>1, <1>2 DEF AskedFirst
<1>5. ASSUME NEW q \in DOMAIN m, m[q] = Ask(r)
      PROVE  /\ q \in DOMAIN a /\ a[q] = Ask(r)
             /\ Cardinality(Later(a, q)) \in Nat /\ Cardinality(Later(m, q)) \in Nat
             /\ Cardinality(Later(a, q)) <= Cardinality(Later(m, q)) + 1
             /\ x.role # "assistant" => Cardinality(Later(a, q)) = Cardinality(Later(m, q))
  <2>1. q \in DOMAIN a /\ a[q] = m[q]
    BY <1>1, <1>2, <1>3
  <2>2. \A i \in 1..(Len(m) + 1) : i \in 1..Len(m) \/ i = Len(m) + 1
    BY <1>1
  <2>3. \A i \in 1..Len(m) : i \in 1..(Len(m) + 1) /\ i # Len(m) + 1
    BY <1>1
  <2>4. x.role # "assistant" => Later(a, q) = Later(m, q)
    BY <1>1, <1>2, <1>3, <2>2, <2>3 DEF Later
  <2>5. x.role = "assistant" => Later(a, q) = Later(m, q) \cup {Len(m) + 1}
    <3>1. Len(m) + 1 > q /\ (Len(m) + 1) \in 1..(Len(m) + 1)
      BY <1>1
    <3>. QED
      BY <1>1, <1>2, <1>3, <2>2, <2>3, <3>1 DEF Later
  <2>6. IsFiniteSet(Later(m, q)) /\ Cardinality(Later(m, q)) \in Nat
    BY LaterFinite
  <2>7. x.role = "assistant" => Cardinality(Later(a, q)) \in {Cardinality(Later(m, q)), Cardinality(Later(m, q)) + 1}
    BY <2>5, <2>6, FS_AddElement
  <2>. QED
    BY <1>5, <2>1, <2>4, <2>6, <2>7
<1>6. \A k \in Nat : Recent(m, r, k) => Recent(a, r, k + 1)
  <2>1. SUFFICES ASSUME NEW k \in Nat, Recent(m, r, k) PROVE Recent(a, r, k + 1)
    OBVIOUS
  <2>2. PICK q \in DOMAIN m : m[q] = Ask(r) /\ Cardinality(Later(m, q)) <= k
    BY <2>1 DEF Recent
  <2>3. q \in DOMAIN a /\ a[q] = Ask(r) /\ Cardinality(Later(a, q)) <= k + 1
    BY <1>5, <2>2
  <2>. QED
    BY <2>3 DEF Recent
<1>7. ASSUME x.role # "assistant" PROVE \A k \in Nat : Recent(m, r, k) => Recent(a, r, k)
  <2>1. SUFFICES ASSUME NEW k \in Nat, Recent(m, r, k) PROVE Recent(a, r, k)
    OBVIOUS
  <2>2. PICK q \in DOMAIN m : m[q] = Ask(r) /\ Cardinality(Later(m, q)) <= k
    BY <2>1 DEF Recent
  <2>3. q \in DOMAIN a /\ a[q] = Ask(r) /\ Cardinality(Later(a, q)) <= k
    BY <1>5, <1>7, <2>2
  <2>. QED
    BY <2>3 DEF Recent
<1>. QED
  BY <1>4, <1>6, <1>7 DEF a

(* Results are not answers: they leave a question as recent as it was.     *)
LEMMA ResultsAsked ==
  ASSUME NEW m \in Seq(Message), NEW t \in Seq(Message), NEW r,
         \A i \in 1..Len(t) : t[i].role = "tool"
  PROVE  /\ AskedFirst(m, r) => AskedFirst(m \o t, r)
         /\ \A k \in Nat : Recent(m, r, k) => Recent(m \o t, r, k)
<1>. DEFINE u == m \o t
<1>1. Len(m) \in Nat /\ DOMAIN m = 1..Len(m) /\ Len(t) \in Nat
  BY SeqMessage
<1>2. /\ u \in Seq(Message) /\ Len(u) = Len(m) + Len(t)
      /\ \A i \in 1..(Len(m) + Len(t)) : u[i] = IF i <= Len(m) THEN m[i] ELSE t[i - Len(m)]
  BY ConcatProperties
<1>. HIDE DEF u
<1>3. DOMAIN u = 1..(Len(m) + Len(t))
  BY <1>2, SeqMessage
<1>4. \A i \in 1..Len(m) : i \in DOMAIN u /\ u[i] = m[i]
  BY <1>1, <1>2, <1>3
<1>5. \A i \in DOMAIN u : i \in 1..Len(m) \/ u[i].role = "tool"
  <2>1. SUFFICES ASSUME NEW i \in DOMAIN u, i \notin 1..Len(m) PROVE u[i].role = "tool"
    OBVIOUS
  <2>2. (i - Len(m)) \in 1..Len(t) /\ ~(i <= Len(m)) /\ i \in 1..(Len(m) + Len(t))
    BY <1>1, <1>3, <2>1
  <2>3. u[i] = t[i - Len(m)]
    BY <1>2, <2>2
  <2>. QED
    BY <2>2, <2>3
<1>6. AskedFirst(m, r) => AskedFirst(u, r)
  BY <1>1, <1>2, <1>4 DEF AskedFirst
<1>7. \A q \in DOMAIN m : Later(u, q) = Later(m, q)
  BY <1>1, <1>4, <1>5 DEF Later
<1>8. \A k \in Nat : Recent(m, r, k) => Recent(u, r, k)
  BY <1>1, <1>4, <1>7 DEF Recent
<1>. QED
  BY <1>6, <1>8 DEF u

LEMMA ThreeElements ==
  ASSUME NEW S, IsFiniteSet(S), NEW x \in S, NEW y \in S, NEW z \in S,
         x # y, x # z, y # z
  PROVE  Cardinality(S) >= 3
<1>. DEFINE T == S \ {x}  U == T \ {y}  V == U \ {z}
<1>1. IsFiniteSet(T) /\ Cardinality(T) = Cardinality(S) - 1 /\ y \in T /\ z \in T
  BY FS_RemoveElement
<1>. HIDE DEF T
<1>2. IsFiniteSet(U) /\ Cardinality(U) = Cardinality(T) - 1 /\ z \in U
  BY <1>1, FS_RemoveElement
<1>. HIDE DEF U
<1>3. IsFiniteSet(V) /\ Cardinality(V) = Cardinality(U) - 1
  BY <1>2, FS_RemoveElement
<1>. HIDE DEF V
<1>4. Cardinality(S) \in Nat /\ Cardinality(V) \in Nat
  BY <1>3, FS_CardinalityType
<1>. QED
  BY <1>1, <1>2, <1>3, <1>4

(* Collapsing keeps the first two messages, and what at most two answers   *)
(* follow.                                                                 *)
LEMMA CollapseAsked ==
  ASSUME NEW m \in Seq(Message), NEW r
  PROVE  /\ AskedFirst(m, r) => AskedFirst(CollapseTurns(m), r)
         /\ \A k \in 0..2 : Recent(m, r, k) => Recent(CollapseTurns(m), r, k)
<1>. SUFFICES ASSUME CollapseTurns(m) # m
              PROVE  /\ AskedFirst(m, r) => AskedFirst(CollapseTurns(m), r)
                     /\ \A k \in 0..2 : Recent(m, r, k) => Recent(CollapseTurns(m), r, k)
  OBVIOUS
<1>1. Len(m) \in Nat /\ DOMAIN m = 1..Len(m)
  BY SeqMessage
<1>2. PICK a \in TurnStarts(m), p \in TurnStarts(m), x \in TurnStarts(m),
           y \in TurnStarts(m) :
        1 < a /\ a < p /\ p < x /\ x < y /\ CollapseTurns(m) = Spliced(m, a, p)
  BY CollapseShape
<1>3. /\ a \in Nat /\ p \in 1..Len(m) /\ x \in 1..Len(m) /\ y \in 1..Len(m)
      /\ a \in 1..Len(m) /\ m[a].role = "assistant" /\ m[p].role = "assistant"
      /\ m[x].role = "assistant" /\ m[y].role = "assistant"
  <2>1. \A i \in TurnStarts(m) : i \in 1..Len(m) /\ (i # 1 => m[i].role = "assistant")
    BY <1>1 DEF TurnStarts
  <2>2. \A i \in TurnStarts(m) : i \in Nat
    BY <1>1, <2>1
  <2>3. a # 1 /\ p # 1 /\ x # 1 /\ y # 1
    BY <1>2, <2>2
  <2>. QED
    BY <2>1, <2>2, <2>3
<1>. DEFINE c == Spliced(m, a, p)  d == p - (a + 1)
<1>4. /\ c \in Seq(Message) /\ Len(c) = a + (Len(m) - p) + 1
      /\ \A i \in 1..(a - 1) : c[i] = m[i]
      /\ c[a] = Meta
      /\ \A i \in p..Len(m) : c[a + 1 + (i - p)] = m[i]
  <2>1. a \in Nat /\ p \in Nat /\ 1 < a /\ a < p /\ p <= Len(m)
    BY <1>1, <1>2, <1>3
  <2>. QED
    BY <2>1, SplicedElements
<1>. HIDE DEF c
<1>5. DOMAIN c = 1..Len(c) /\ Len(c) \in Nat
  BY <1>4, SeqMessage
<1>6. d \in Nat /\ \A i \in p..Len(m) : (i - d) \in 1..Len(c) /\ c[i - d] = m[i] /\ i - d > a
  <2>1. d \in Nat
    BY <1>2, <1>3
  <2>2. \A i \in p..Len(m) : i - d = a + 1 + (i - p) /\ (i - d) \in 1..Len(c) /\ i - d > a
    BY <1>1, <1>2, <1>3, <1>4
  <2>. QED
    BY <1>4, <2>1, <2>2
<1>7. \A j \in (a + 1)..Len(c) : (j + d) \in p..Len(m) /\ c[j] = m[j + d]
  <2>1. \A j \in (a + 1)..Len(c) : (j + d) \in p..Len(m) /\ (j + d) - d = j
    BY <1>1, <1>2, <1>3, <1>4
  <2>. QED
    BY <1>6, <2>1
<1>8. AskedFirst(m, r) => AskedFirst(c, r)
  <2>1. SUFFICES ASSUME AskedFirst(m, r) PROVE AskedFirst(c, r)
    OBVIOUS
  <2>2. m[2].role = "user"
    BY <2>1 DEF AskedFirst, Ask, Meta
  <2>3. a # 2
    BY <1>3, <2>2
  <2>4. 2 \in 1..(a - 1) /\ Len(c) >= 2
    BY <1>1, <1>2, <1>3, <1>4, <2>3
  <2>. QED
    BY <1>4, <2>1, <2>4 DEF AskedFirst
<1>. HIDE DEF d
<1>9. ASSUME NEW k \in 0..2, Recent(m, r, k) PROVE Recent(c, r, k)
  <2>1. PICK q \in DOMAIN m : m[q] = Ask(r) /\ Cardinality(Later(m, q)) <= k
    BY <1>9 DEF Recent
  <2>2. /\ IsFiniteSet(Later(m, q)) /\ Cardinality(Later(m, q)) \in Nat
        /\ q \in 1..Len(m)
    BY LaterFinite
  <2>3. q >= p
    <3>1. SUFFICES ASSUME q < p PROVE FALSE
      BY <1>3, <2>2
    <3>2. p > q /\ x > q /\ y > q /\ p # x /\ p # y /\ x # y
      BY <1>2, <1>3, <2>2, <3>1
    <3>3. p \in Later(m, q) /\ x \in Later(m, q) /\ y \in Later(m, q)
      BY <1>1, <1>3, <3>2 DEF Later
    <3>4. Cardinality(Later(m, q)) >= 3
      BY <2>2, <3>2, <3>3, ThreeElements
    <3>. QED
      BY <2>1, <2>2, <3>4
  <2>. DEFINE w == q - d
  <2>4. q \in p..Len(m) /\ w \in DOMAIN c /\ c[w] = Ask(r) /\ w > a /\ w \in Nat /\ q \in Nat
    BY <1>1, <1>3, <1>5, <1>6, <2>1, <2>2, <2>3
  <2>. HIDE DEF w
  <2>5. \A j \in Later(c, w) : (j + d) \in Later(m, q)
    <3>1. SUFFICES ASSUME NEW j \in Later(c, w) PROVE (j + d) \in Later(m, q)
      OBVIOUS
    <3>2. j \in 1..Len(c) /\ j > w /\ c[j].role = "assistant"
      BY <1>5 DEF Later
    <3>3. j \in (a + 1)..Len(c) /\ j + d > q
      BY <1>3, <1>5, <1>6, <2>4, <3>2 DEF w
    <3>4. (j + d) \in 1..Len(m) /\ m[j + d].role = "assistant"
      BY <1>1, <1>3, <1>7, <3>2, <3>3
    <3>. QED
      BY <1>1, <3>3, <3>4 DEF Later
  <2>6. Cardinality(Later(c, w)) <= Cardinality(Later(m, q))
    <3>. DEFINE f == [j \in Later(c, w) |-> j + d]
    <3>1. \A i, j \in Later(c, w) : i + d = j + d => i = j
      BY <1>5, <1>6 DEF Later
    <3>2. f \in Injection(Later(c, w), Later(m, q))
      BY <2>5, <3>1 DEF Injection, IsInjective
    <3>. QED
      BY <2>2, <3>2, FS_Injection
  <2>7. Cardinality(Later(c, w)) \in Nat
    BY <1>4, <2>4, LaterFinite
  <2>8. Cardinality(Later(c, w)) <= k
    BY <2>1, <2>2, <2>6, <2>7
  <2>. QED
    BY <2>4, <2>8 DEF Recent
<1>. QED
  BY <1>2, <1>8, <1>9 DEF c

(* A step of a run that goes on, and neither adds an answer to the         *)
(* conversation nor begins a turn.                                         *)
LEMMA SameAsked ==
  ASSUME QuestionInv, UNCHANGED <<run, turn, messages, resumed, cut>>, pc # "idle",
         pc \in {"tools", "save"} => pc' \in {"tools", "save"}, turn \in Nat,
         messages \in Seq(Message)
  PROVE  QuestionInv'
<1>1. \A m, r : \A j, k \in Nat : j <= k => (m \in Seq(Message) /\ Recent(m, r, j) => Recent(m, r, k))
  <2>1. SUFFICES ASSUME NEW m \in Seq(Message), NEW r, NEW j \in Nat, NEW k \in Nat,
                        j <= k, Recent(m, r, j)
                 PROVE  Recent(m, r, k)
    OBVIOUS
  <2>2. PICK q \in DOMAIN m : m[q] = Ask(r) /\ Cardinality(Later(m, q)) <= j
    BY <2>1 DEF Recent
  <2>3. Cardinality(Later(m, q)) \in Nat
    BY LaterFinite
  <2>4. Cardinality(Later(m, q)) <= k
    BY <2>1, <2>2, <2>3
  <2>. QED
    BY <2>2, <2>4 DEF Recent
<1>2. AnswersGiven \in Nat /\ AnswersGiven' \in Nat /\ AnswersGiven <= AnswersGiven'
  BY DEF AnswersGiven
<1>. QED
  BY <1>1, <1>2 DEF QuestionInv

LEMMA QuestionNext == ASSUME TypeInv, QuestionInv, [Next]_vars PROVE QuestionInv'
<1>0. /\ messages \in Seq(Message) /\ turn \in Nat /\ resumed \in BOOLEAN
      /\ pc \in Labels /\ run \in Nat
      /\ Meta \in Message /\ resp.calls \in 0..MaxCalls /\ 0 \in 0..MaxCalls
      /\ \A n \in 0..MaxCalls : Assistant(resp.text, n) \in Message
  <2>1. /\ messages \in Seq(Message) /\ turn \in Nat /\ resumed \in BOOLEAN
        /\ pc \in Labels /\ run \in Nat
    BY LoopAssumption DEF TypeInv, TalkOK, ControlOK, FlagsOK
  <2>2. resp.calls \in 0..MaxCalls /\ resp.text \in SUBSET Part /\ 0 \in 0..MaxCalls
    BY LoopAssumption DEF TypeInv, TextsOK, Response
  <2>. QED
    BY <2>1, <2>2, MessageTypes
<1>a. Meta.role # "assistant" /\ \A t, n : Assistant(t, n).role = "assistant"
  BY DEF Meta, Assistant
<1>b. ASSUME Corrected, pc = "decide" PROVE QuestionInv'
  <2>1. /\ UNCHANGED <<run, resumed, cut>> /\ turn' = turn + 1 /\ pc' = "turn"
        /\ messages' = messages \o <<Assistant(resp.text, 0), Meta>>
    BY <1>b DEF Corrected, Continue, history
  <2>. DEFINE m == Append(messages, Assistant(resp.text, 0))
  <2>2. m \in Seq(Message) /\ messages' = Append(m, Meta)
    BY <1>0, <2>1, AppendProperties
  <2>3. /\ AskedFirst(messages, run) => AskedFirst(m, run)
        /\ Recent(messages, run, turn) => Recent(m, run, turn + 1)
    BY <1>0, AppendAsked
  <2>. HIDE DEF m
  <2>4. (turn + 1) \in Nat
    BY <1>0
  <2>5. /\ AskedFirst(m, run) => AskedFirst(messages', run)
        /\ Recent(m, run, turn + 1) => Recent(messages', run, turn + 1)
    BY <1>0, <1>a, <2>2, <2>4, AppendAsked
  <2>6. turn + 1 <= 2 => turn <= 2
    BY <1>0
  <2>. QED
    BY <1>b, <2>1, <2>3, <2>5, <2>6 DEF QuestionInv, AnswersGiven
<1>c. ASSUME NEW n \in 0..MaxCalls, pc = "decide", pc' \in {"tools", "save"},
             UNCHANGED <<run, turn, resumed, cut>>,
             messages' = Append(messages, Assistant(resp.text, n))
      PROVE  QuestionInv'
  <2>1. /\ AskedFirst(messages, run) => AskedFirst(messages', run)
        /\ Recent(messages, run, turn) => Recent(messages', run, turn + 1)
    BY <1>0, <1>c, AppendAsked
  <2>. QED
    BY <1>c, <2>1 DEF QuestionInv, AnswersGiven
<1>d. ASSUME NEW k \in 0..resp.calls, ExecuteTools(k)
      PROVE  /\ pc = "tools"
             /\ AskedFirst(messages, run) => AskedFirst(messages', run)
             /\ Recent(messages, run, turn + 1) => Recent(messages', run, turn + 1)
  <2>1. (turn + 1) \in Nat
    BY <1>0
  <2>2. /\ ToolMessages(resp.calls, k) \in Seq(Message)
        /\ \A i \in 1..Len(ToolMessages(resp.calls, k)) :
             ToolMessages(resp.calls, k)[i].role = "tool"
    BY <1>0, ToolMessagesType
  <2>. QED
    BY <1>0, <1>d, <2>1, <2>2, ResultsAsked DEF ExecuteTools
<1>e. Return => QuestionInv'
  BY DEF Return, QuestionInv
<1>1. CASE Start
  <2>1. /\ pc' = "turn" /\ run' = run + 1 /\ turn' = turn /\ cut' = cut
    BY <1>1 DEF Start
  <2>2. PICK saved \in {session, <<>>} :
          messages' = saved \o <<Meta, Ask(run + 1)>> /\ resumed' = (saved # <<>>)
    BY <1>1 DEF Start
  <2>3. saved \in Seq(Message) /\ <<Meta, Ask(run + 1)>> \in Seq(Message)
    <3>1. (run + 1) \in 1..Runs
      BY <1>1, LoopAssumption DEF Start, TypeInv, ControlOK
    <3>2. <<Meta, Ask(run + 1)>> \in Seq(Message)
      BY <1>0, <3>1, MessageTypes
    <3>3. session \in Seq(Message) /\ <<>> \in Seq(Message)
      BY DEF TypeInv, TalkOK
    <3>. QED
      BY <3>2, <3>3
  <2>. DEFINE two == <<Meta, Ask(run + 1)>>
  <2>a. Len(saved) \in Nat /\ Len(two) = 2 /\ two[2] = Ask(run + 1)
    BY <2>3
  <2>. HIDE DEF two
  <2>b. /\ messages' \in Seq(Message) /\ Len(messages') = Len(saved) + Len(two)
        /\ \A i \in 1..(Len(saved) + Len(two)) :
             messages'[i] = IF i <= Len(saved) THEN saved[i] ELSE two[i - Len(saved)]
    <3>1. two \in Seq(Message) /\ messages' = saved \o two
      BY <2>2, <2>3 DEF two
    <3>. QED
      BY <2>3, <3>1, ConcatProperties
  <2>4. /\ Len(saved) \in Nat /\ messages' \in Seq(Message) /\ Len(messages') = Len(saved) + 2
        /\ messages'[Len(saved) + 2] = Ask(run + 1)
    <3>1. /\ (Len(saved) + 2) \in 1..(Len(saved) + Len(two))
          /\ ~(Len(saved) + 2 <= Len(saved)) /\ (Len(saved) + 2) - Len(saved) = 2
      BY <2>a
    <3>. QED
      BY <2>a, <2>b, <3>1
  <2>5. ~resumed' => AskedFirst(messages', run')
    <3>1. SUFFICES ASSUME saved = <<>> PROVE AskedFirst(messages', run')
      BY <2>2
    <3>2. Len(saved) = 0
      BY <3>1
    <3>3. Len(messages') = 2 /\ messages'[2] = Ask(run + 1)
      BY <2>4, <3>2
    <3>. QED
      BY <2>1, <3>3 DEF AskedFirst
  <2>6. Recent(messages', run', turn)
    <3>. DEFINE q == Len(saved) + 2
    <3>1. q \in Nat /\ q \in DOMAIN messages' /\ DOMAIN messages' = 1..q
          /\ messages'[q] = Ask(run')
      BY <2>1, <2>4, SeqMessage
    <3>. HIDE DEF q
    <3>2. Later(messages', q) = {}
      BY <3>1 DEF Later
    <3>3. Cardinality(Later(messages', q)) <= turn
      BY <1>0, <3>2, FS_EmptySet
    <3>. QED
      BY <3>1, <3>3 DEF Recent
  <2>. QED
    BY <2>1, <2>5, <2>6 DEF QuestionInv, AnswersGiven
<1>2. CASE NextTurn
  <2>. DEFINE m == IF dedup THEN Append(messages, Meta) ELSE messages
  <2>1. pc = "turn" /\ Compress(m) /\ UNCHANGED <<run, turn, resumed>> /\ pc' = "call"
    BY <1>2 DEF NextTurn
  <2>2. m \in Seq(Message)
    BY <1>0, AppendProperties
  <2>3. /\ AskedFirst(messages, run) => AskedFirst(m, run)
        /\ Recent(messages, run, turn) => Recent(m, run, turn)
    BY <1>0, <1>a, AppendAsked
  <2>. HIDE DEF m
  <2>4. cut' \/ (cut' = cut /\ messages' \in {m, CollapseTurns(m)})
    BY <2>1 DEF Compress
  <2>5. /\ AskedFirst(m, run) => AskedFirst(CollapseTurns(m), run)
        /\ turn <= 2 /\ Recent(m, run, turn) => Recent(CollapseTurns(m), run, turn)
    <3>1. turn <= 2 => turn \in 0..2
      BY <1>0
    <3>. QED
      BY <2>2, <3>1, CollapseAsked
  <2>. QED
    BY <2>1, <2>3, <2>4, <2>5 DEF QuestionInv, AnswersGiven
<1>3. CASE CallModel
  BY <1>0, <1>3, SameAsked DEF CallModel, Respond, history
<1>4. CASE Fail
  BY <1>4, <1>e DEF Fail
<1>5. CASE Recover
  BY <1>0, <1>5, SameAsked DEF Recover, history
<1>6. CASE ParseRetry
  BY <1>6, <1>b DEF ParseRetry
<1>7. CASE Nudge
  BY <1>7, <1>b DEF Nudge
<1>8. CASE FinalRound
  BY <1>0, <1>8, <1>c DEF FinalRound, history
<1>9. CASE CallTools
  BY <1>0, <1>9, <1>c DEF CallTools, history
<1>10. CASE ToolsDone
  <2>1. /\ UNCHANGED <<run, resumed, cut>> /\ turn' = turn + 1 /\ pc' = "turn"
    BY <1>10 DEF ToolsDone, Continue
  <2>2. /\ pc = "tools"
        /\ AskedFirst(messages, run) => AskedFirst(messages', run)
        /\ Recent(messages, run, turn + 1) => Recent(messages', run, turn + 1)
    BY <1>10, <1>d DEF ToolsDone
  <2>3. turn + 1 <= 2 => turn <= 2
    BY <1>0
  <2>. QED
    BY <2>1, <2>2, <2>3 DEF QuestionInv, AnswersGiven
<1>11. CASE Passthrough
  <2>1. /\ UNCHANGED <<run, turn, resumed, cut>> /\ pc' = "save"
    BY <1>11 DEF Passthrough
  <2>2. /\ pc = "tools"
        /\ AskedFirst(messages, run) => AskedFirst(messages', run)
        /\ Recent(messages, run, turn + 1) => Recent(messages', run, turn + 1)
    BY <1>11, <1>d DEF Passthrough
  <2>. QED
    BY <2>1, <2>2 DEF QuestionInv, AnswersGiven
<1>12. CASE TurnsUsedUp
  BY <1>0, <1>12, SameAsked DEF TurnsUsedUp, history
<1>13. CASE SaveSession
  BY <1>13, <1>e DEF SaveSession
<1>14. CASE UNCHANGED vars
  BY <1>14 DEF vars, history, QuestionInv, AnswersGiven
<1>. QED
  BY <1>1, <1>2, <1>3, <1>4, <1>5, <1>6, <1>7, <1>8, <1>9, <1>10, <1>11, <1>12,
     <1>13, <1>14 DEF Next, Step

(* Collapsing turns never drops the question from a request of a new       *)
(* session, nor from one of the first three turns of a resumed session     *)
(* (compressor.go, CollapseTurns).                                         *)
THEOREM QuestionStays == Spec => []QuestionKept
<1>1. Init => QuestionInv
  BY DEF Init, QuestionInv
<1>2. TypeInv /\ QuestionInv /\ [Next]_vars => QuestionInv'
  BY QuestionNext
<1>3. TypeInv /\ QuestionInv => QuestionKept
  <2>1. SUFFICES ASSUME TypeInv, QuestionInv, pc = "call", ~cut, resumed => turn <= 2
                 PROVE  \E i \in DOMAIN messages : messages[i] = Ask(run)
    BY DEF QuestionKept
  <2>2. messages \in Seq(Message)
    BY <2>1 DEF TypeInv, TalkOK
  <2>3. DOMAIN messages = 1..Len(messages) /\ Len(messages) \in Nat
    BY <2>2, SeqMessage
  <2>4. CASE resumed
    BY <2>1, <2>4 DEF QuestionInv, Recent
  <2>5. CASE ~resumed
    BY <2>1, <2>3, <2>5 DEF QuestionInv, AskedFirst
  <2>. QED
    BY <2>4, <2>5
<1>. QED
  BY TypeInit, TypeNext, <1>1, <1>2, <1>3, PTL DEF Spec

-----------------------------------------------------------------------------
(***************************************************************************)
(* The tool orchestrator.                                                  *)
(***************************************************************************)

Active == {c \in Calls : IsRead(c) /\ st[c] \in {"running", "read"}}
Done(c) == st[c] \in {"answered", "failed"} \/ (IsRead(c) /\ st[c] = "panicked")

(* A call moves only in its round, and in its phase.                       *)
InTurn ==
  \A c \in Calls :
    /\ RoundOf[c] > round => st[c] = "new"
    /\ RoundOf[c] < round \/ (phase = "idle" /\ RoundOf[c] = round) => Done(c)
    /\ RoundOf[c] = round /\ IsRead(c) /\ phase = "writes" => Done(c)
    /\ RoundOf[c] = round /\ ~IsRead(c) /\ phase = "reads" => st[c] = "new"
    /\ ~IsRead(c) /\ st[c] = "panicked" => phase = "crashed"
    /\ phase = "crashed" => st[c] \notin {"running", "read"}
    /\ st[c] = "read" => IsRead(c)

(* One write at a time: those before it in the round are over.             *)
OneWrite ==
  \A c, d \in Calls :
    ~IsRead(c) /\ ~IsRead(d) /\ RoundOf[d] = RoundOf[c] /\ d < c /\ st[c] # "new" =>
      st[d] \in Over

SlotsHeld == Cardinality(Active) <= MaxConcurrency

(* What is in the cache was the answer to a call, of an earlier round if   *)
(* it is older than this one.                                              *)
CacheKept ==
  /\ seen <= version
  /\ \A c \in Calls : IsRead(c) /\ st[c] \in {"read", "answered"} => val[c] >= 0
  /\ \A c \in Calls : IsRead(c) /\ st[c] = "read" => val[c] >= seen
  /\ \A c \in Calls : IsRead(c) /\ st[c] = "answered" => cache[KeyOf[c]] # -1
  /\ \A k \in Keys : cache[k] # -1 =>
       \E d \in Calls : /\ KeyOf[d] = k /\ IsRead(d) /\ st[d] = "answered"
                        /\ val[d] = cache[k] /\ RoundOf[d] <= round
                        /\ cache[k] < seen => RoundOf[d] < round

(* Who was executed has begun.                                             *)
RanBegun ==
  \A c \in ran : IsRead(c) /\ RoundOf[c] <= round /\ st[c] # "new"

ToolsInv == /\ ToolsTypeOK /\ InTurn /\ OneWrite /\ SlotsHeld
        /\ CacheKept /\ RanBegun /\ StaleOnlyRepeats /\ NotExecutedAgain

-----------------------------------------------------------------------------
(* Types.                                                                  *)

LEMMA ToolsTypeNext == ToolsTypeOK /\ [ToolsNext]_toolsVars => ToolsTypeOK'
<1>. SUFFICES ASSUME ToolsTypeOK, [ToolsNext]_toolsVars PROVE ToolsTypeOK'
  OBVIOUS
<1>. USE OrchestratorAssumption DEF ToolsTypeOK, Over
<1>1. CASE Execute
  BY <1>1 DEF Execute
<1>2. ASSUME NEW c \in Calls, Begin(c) PROVE ToolsTypeOK'
  <2>1. KeyOf[c] \in Keys
    OBVIOUS
  <2>2. CASE cache[KeyOf[c]] # -1
    BY <1>2, <2>1, <2>2 DEF Begin
  <2>3. CASE cache[KeyOf[c]] = -1
    BY <1>2, <2>1, <2>3 DEF Begin
  <2>. QED  BY <2>2, <2>3
<1>3. ASSUME NEW c \in Calls, Read(c) PROVE ToolsTypeOK'
  BY <1>3 DEF Read, AfterPanic
<1>4. ASSUME NEW c \in Calls, Store(c) PROVE ToolsTypeOK'
  BY <1>4 DEF Store, CacheKey
<1>5. CASE Wait
  BY <1>5 DEF Wait
<1>6. CASE ReturnResults
  BY <1>6 DEF ReturnResults
<1>7. ASSUME NEW c \in Calls, StartWrite(c) PROVE ToolsTypeOK'
  BY <1>7 DEF StartWrite
<1>8. ASSUME NEW c \in Calls, EndWrite(c) PROVE ToolsTypeOK'
  BY <1>8 DEF EndWrite
<1>9. CASE UNCHANGED toolsVars
  BY <1>9 DEF toolsVars
<1>. QED
  BY <1>1, <1>2, <1>3, <1>4, <1>5, <1>6, <1>7, <1>8, <1>9 DEF ToolsNext, Caller, Goroutine

LEMMA ToolsTypeInit == ToolsInit => ToolsTypeOK
BY OrchestratorAssumption DEF ToolsInit, ToolsTypeOK, Over

(* All variables keep their types, for any calls, keys and rounds.         *)
THEOREM ToolsTypeCorrect == ToolsSpec => []ToolsTypeOK
BY ToolsTypeInit, ToolsTypeNext, PTL DEF ToolsSpec

-----------------------------------------------------------------------------
(* The slots of the semaphore.                                             *)

LEMMA ActiveFinite == IsFiniteSet(Active)
<1>1. Active \subseteq Calls
  BY DEF Active
<1>. QED
  BY <1>1, FS_Subset, OrchestratorAssumption

(* Without a new reader no slot is taken.                                  *)
LEMMA SlotsShrink ==
  ASSUME SlotsHeld, Active' \subseteq Active
  PROVE  SlotsHeld'
<1>1. Cardinality(Active') <= Cardinality(Active)
  BY ActiveFinite, FS_Subset
<1>2. Cardinality(Active) \in Nat /\ Cardinality(Active') \in Nat
  BY ActiveFinite, FS_Subset, FS_CardinalityType
<1>. QED
  BY <1>1, <1>2, OrchestratorAssumption DEF SlotsHeld

LEMMA SlotTaken ==
  ASSUME NEW c \in Calls, Begin(c), ToolsTypeOK, InTurn, SlotsHeld
  PROVE  SlotsHeld'
<1>. USE OrchestratorAssumption
<1>1. Active = Holding
  <2>1. ASSUME NEW d \in Calls, st[d] \in {"running", "read"} PROVE RoundOf[d] = round
    <3>1. ~Done(d) /\ st[d] # "new"
      BY <2>1 DEF Done
    <3>. QED  BY <3>1 DEF InTurn, ToolsTypeOK
  <2>. QED  BY <2>1 DEF Active, Holding, Reads, InRound
<1>2. Active' \subseteq Active \cup {c}
  BY DEF Active, IsRead, Begin, ToolsTypeOK
<1>3. Cardinality(Active) \in Nat /\ Cardinality(Active) < MaxConcurrency
  BY <1>1, ActiveFinite, FS_CardinalityType DEF Begin, SlotFree
<1>4. IsFiniteSet(Active \cup {c})
      /\ Cardinality(Active \cup {c}) <= Cardinality(Active) + 1
  <2>1. c \notin Active
    BY DEF Active, Begin
  <2>2. Cardinality(Active \cup {c}) = Cardinality(Active) + 1
    BY <2>1, ActiveFinite, FS_AddElement
  <2>3. IsFiniteSet(Active \cup {c})
    BY ActiveFinite, FS_AddElement
  <2>. QED  BY <1>3, <2>2, <2>3
<1>5. Cardinality(Active') <= Cardinality(Active \cup {c})
      /\ Cardinality(Active') \in Nat /\ Cardinality(Active \cup {c}) \in Nat
  BY <1>2, <1>4, FS_Subset, FS_CardinalityType
<1>. QED
  BY <1>3, <1>4, <1>5 DEF SlotsHeld

-----------------------------------------------------------------------------
(* Each action keeps the invariant.                                        *)

Rest == /\ InTurn /\ OneWrite /\ CacheKept /\ RanBegun
        /\ StaleOnlyRepeats /\ NotExecutedAgain

(* What the invariant says of a running write.                             *)
LEMMA Alone ==
  ASSUME ToolsInv, NEW c \in Calls, NEW d \in Calls, ~IsRead(c), st[c] = "running", d # c
  PROVE  st[d] \notin {"running", "read"}
<1>. USE OrchestratorAssumption DEF ToolsInv, ToolsTypeOK
<1>1. RoundOf[c] = round /\ phase = "writes"
  <2>1. ~Done(c)
    BY DEF Done
  <2>. QED  BY <2>1 DEF InTurn
<1>2. ASSUME st[d] \in {"running", "read"} PROVE FALSE
  <2>1. ~Done(d)
    BY <1>2 DEF Done
  <2>2. RoundOf[d] = round /\ ~IsRead(d)
    BY <1>1, <1>2, <2>1 DEF InTurn
  <2>3. d < c \/ c < d
    OBVIOUS
  <2>. QED  BY <1>1, <1>2, <2>2, <2>3 DEF OneWrite, Over
<1>. QED
  BY <1>2

LEMMA ExecuteRest == ASSUME ToolsInv, Execute PROVE Rest' /\ Active' \subseteq Active
<1>. USE OrchestratorAssumption DEF ToolsInv, Execute, ToolsTypeOK
<1>1. InTurn'
  BY DEF InTurn, Done, IsRead
<1>2. OneWrite' /\ Active' \subseteq Active
  BY DEF OneWrite, IsRead, Active
<1>3. CacheKept'
  BY DEF CacheKept, IsRead, InTurn, Done
<1>4. RanBegun' /\ NotExecutedAgain'
  BY DEF RanBegun, NotExecutedAgain, IsRead
<1>5. StaleOnlyRepeats'
  BY DEF StaleOnlyRepeats, InTurn, Reads, InRound
<1>. QED
  BY <1>1, <1>2, <1>3, <1>4, <1>5 DEF Rest

LEMMA BeginRest ==
  ASSUME ToolsInv, NEW c \in Calls, Begin(c)
  PROVE  Rest'
<1>. USE OrchestratorAssumption DEF ToolsInv, ToolsTypeOK
<1>1. /\ phase = "reads" /\ phase' = phase /\ round' = round /\ seen' = seen
      /\ cache' = cache /\ version' = version
      /\ IsRead(c) /\ RoundOf[c] = round /\ st[c] = "new" /\ KeyOf[c] \in Keys
  BY DEF Begin, Reads, InRound
<1>2. c \notin ran
  BY <1>1 DEF RanBegun
<1>3. CASE cache[KeyOf[c]] # -1
  <2>1. st' = [st EXCEPT ![c] = "answered"] /\ val' = [val EXCEPT ![c] = cache[KeyOf[c]]]
        /\ ran' = ran
    BY <1>3 DEF Begin
  <2>2. InTurn' /\ OneWrite'
    BY <1>1, <2>1 DEF InTurn, OneWrite, Done, IsRead
  <2>3. PICK d \in Calls : /\ KeyOf[d] = KeyOf[c] /\ IsRead(d) /\ st[d] = "answered"
                           /\ val[d] = cache[KeyOf[c]] /\ RoundOf[d] <= round
                           /\ cache[KeyOf[c]] < seen => RoundOf[d] < round
    BY <1>1, <1>3 DEF CacheKept
  <2>4. CacheKept'
    <3>1. cache[KeyOf[c]] >= 0
      BY <2>3 DEF CacheKept
    <3>2. \A e \in Calls : st[e] = "answered" => st'[e] = "answered" /\ val'[e] = val[e]
      BY <1>1, <2>1
    <3>3. \A e \in Calls : e # c => st'[e] = st[e] /\ val'[e] = val[e]
      BY <2>1
    <3>4. st'[c] = "answered" /\ val'[c] = cache[KeyOf[c]]
      BY <2>1
    <3>. QED  BY <1>1, <1>3, <3>1, <3>2, <3>3, <3>4 DEF CacheKept, IsRead
  <2>5. RanBegun' /\ NotExecutedAgain'
    BY <1>1, <1>2, <2>1 DEF RanBegun, NotExecutedAgain, IsRead
  <2>6. StaleOnlyRepeats'
    BY <1>1, <2>1, <2>3 DEF StaleOnlyRepeats, Reads, InRound, IsRead
  <2>. QED  BY <2>2, <2>4, <2>5, <2>6 DEF Rest
<1>4. CASE cache[KeyOf[c]] = -1
  <2>1. st' = [st EXCEPT ![c] = "running"] /\ val' = val /\ ran' = ran \cup {c}
    BY <1>4 DEF Begin
  <2>2. InTurn' /\ OneWrite'
    BY <1>1, <2>1 DEF InTurn, OneWrite, Done, IsRead
  <2>3. CacheKept'
    BY <1>1, <2>1 DEF CacheKept, IsRead
  <2>4. RanBegun' /\ NotExecutedAgain'
    BY <1>1, <1>2, <1>4, <2>1 DEF RanBegun, NotExecutedAgain, CacheKept, IsRead
  <2>5. StaleOnlyRepeats'
    BY <1>1, <2>1 DEF StaleOnlyRepeats, Reads, InRound, IsRead
  <2>. QED  BY <2>2, <2>3, <2>4, <2>5 DEF Rest
<1>. QED
  BY <1>3, <1>4

LEMMA ReadRest ==
  ASSUME ToolsInv, NEW c \in Calls, Read(c)
  PROVE  Rest' /\ Active' \subseteq Active
<1>. USE OrchestratorAssumption DEF ToolsInv, ToolsTypeOK
<1>1. /\ phase = "reads" /\ UNCHANGED <<round, phase, cache, version, seen, ran>>
      /\ IsRead(c) /\ RoundOf[c] = round /\ st[c] = "running"
      /\ \A d \in Calls : d # c => st'[d] = st[d] /\ val'[d] = val[d]
      /\ st'[c] \in {"read", "failed", "panicked"}
      /\ st'[c] = "read" => val'[c] = version
  BY DEF Read, Reads, InRound, AfterPanic
<1>2. InTurn' /\ OneWrite' /\ Active' \subseteq Active
  BY <1>1 DEF InTurn, OneWrite, Done, IsRead, Active
<1>3. CacheKept'
  BY <1>1 DEF CacheKept, IsRead
<1>4. RanBegun' /\ NotExecutedAgain'
  BY <1>1 DEF RanBegun, NotExecutedAgain, IsRead
<1>5. StaleOnlyRepeats'
  BY <1>1 DEF StaleOnlyRepeats, Reads, InRound, IsRead
<1>. QED
  BY <1>2, <1>3, <1>4, <1>5 DEF Rest

LEMMA StoreRest ==
  ASSUME ToolsInv, NEW c \in Calls, Store(c)
  PROVE  Rest' /\ Active' \subseteq Active
<1>. USE OrchestratorAssumption DEF ToolsInv, ToolsTypeOK
<1>1. /\ phase = "reads" /\ UNCHANGED <<round, phase, val, version, seen, ran>>
      /\ IsRead(c) /\ RoundOf[c] = round /\ st[c] = "read" /\ KeyOf[c] \in Keys
      /\ st' = [st EXCEPT ![c] = "answered"]
      /\ cache' = [cache EXCEPT ![KeyOf[c]] = val[c]]
  BY DEF Store, Reads, InRound, CacheKey
<1>2. val[c] >= seen /\ val[c] >= 0
  BY <1>1 DEF CacheKept
<1>3. InTurn' /\ OneWrite' /\ Active' \subseteq Active
  BY <1>1 DEF InTurn, OneWrite, Done, IsRead, Active
<1>4. CacheKept'
  <2>1. \A k \in Keys : k # KeyOf[c] => cache'[k] = cache[k]
    BY <1>1
  <2>2. cache'[KeyOf[c]] = val[c] /\ st'[c] = "answered"
    BY <1>1
  <2>3. \A d \in Calls : d # c => st'[d] = st[d]
    BY <1>1
  <2>. QED  BY <1>1, <1>2, <2>1, <2>2, <2>3 DEF CacheKept, IsRead
<1>5. RanBegun'
  BY <1>1 DEF RanBegun, IsRead
<1>6. NotExecutedAgain'
  BY <1>1 DEF RanBegun, NotExecutedAgain, IsRead
<1>7. StaleOnlyRepeats'
  BY <1>1, <1>2 DEF StaleOnlyRepeats, Reads, InRound, IsRead
<1>. QED
  BY <1>3, <1>4, <1>5, <1>6, <1>7 DEF Rest

LEMMA PhaseRest ==
  ASSUME ToolsInv, Wait \/ ReturnResults
  PROVE  Rest' /\ Active' \subseteq Active
<1>. USE OrchestratorAssumption DEF ToolsInv, ToolsTypeOK
<1>1. UNCHANGED <<round, st, val, cache, version, seen, ran>>
  BY DEF Wait, ReturnResults
<1>2. InTurn'
  <2>1. CASE Wait
    BY <1>1, <2>1 DEF Wait, AllEnded, Over, InTurn, Done, IsRead, Reads, Writes, InRound
  <2>2. CASE ReturnResults
    BY <1>1, <2>2 DEF ReturnResults, WritesEnded, Over, InTurn, Done, IsRead, Reads, Writes, InRound
  <2>. QED  BY <2>1, <2>2
<1>3. OneWrite' /\ CacheKept' /\ RanBegun' /\ StaleOnlyRepeats' /\ NotExecutedAgain'
      /\ Active' \subseteq Active
  BY <1>1 DEF OneWrite, CacheKept, RanBegun, StaleOnlyRepeats, NotExecutedAgain,
     IsRead, Reads, InRound, Active
<1>. QED
  BY <1>2, <1>3 DEF Rest

(* A write leaves the reads alone.                                         *)
LEMMA WriteRest ==
  ASSUME ToolsInv, NEW c \in Calls, StartWrite(c) \/ EndWrite(c)
  PROVE  Rest' /\ Active' \subseteq Active
<1>. USE OrchestratorAssumption DEF ToolsInv, ToolsTypeOK
<1>1. /\ phase = "writes" /\ UNCHANGED <<round, cache, seen, ran>>
      /\ ~IsRead(c) /\ RoundOf[c] = round
      /\ \A d \in Calls : d # c => st'[d] = st[d] /\ val'[d] = val[d]
      /\ version' \in Nat /\ version' >= version
  BY DEF StartWrite, EndWrite, Writes, Reads, InRound
<1>2. InTurn'
  <2>1. CASE StartWrite(c)
    BY <1>1, <2>1 DEF StartWrite, InTurn, Done, IsRead
  <2>2. CASE EndWrite(c) /\ st'[c] \in {"answered", "failed"} /\ phase' = phase
    BY <1>1, <2>2 DEF InTurn, Done, IsRead
  <2>3. CASE EndWrite(c) /\ st'[c] = "panicked" /\ phase' = "crashed"
    <3>1. \A d \in Calls : d # c => st[d] \notin {"running", "read"}
      BY <1>1, <2>3, Alone DEF EndWrite
    <3>. QED  BY <1>1, <2>3, <3>1 DEF InTurn, Done, IsRead
  <2>. QED  BY <2>1, <2>2, <2>3 DEF EndWrite
<1>3. OneWrite'
  <2>1. CASE StartWrite(c)
    <3>1. \A d \in Calls : ~IsRead(d) /\ RoundOf[d] = round /\ d < c => st[d] \in Over
      BY <1>1, <2>1 DEF StartWrite, NextWrite, Writes, Reads, InRound
    <3>2. st[c] = "new" /\ st' = [st EXCEPT ![c] = "running"]
      BY <2>1 DEF StartWrite, NextWrite
    <3>. QED  BY <1>1, <3>1, <3>2 DEF OneWrite, IsRead, Over
  <2>2. CASE EndWrite(c)
    <3>1. st[c] # "new" /\ st'[c] \in Over
      BY <2>2 DEF EndWrite, Over
    <3>. QED  BY <1>1, <3>1 DEF OneWrite, IsRead, Over
  <2>. QED  BY <2>1, <2>2
<1>4. \A d \in Calls : IsRead(d) => st'[d] = st[d] /\ val'[d] = val[d]
  BY <1>1
<1>5. CacheKept'
  BY <1>1, <1>4 DEF CacheKept, IsRead
<1>6. RanBegun' /\ NotExecutedAgain' /\ Active' \subseteq Active
  BY <1>1, <1>4 DEF RanBegun, NotExecutedAgain, IsRead, Active
<1>7. StaleOnlyRepeats'
  BY <1>1, <1>4 DEF StaleOnlyRepeats, Reads, InRound, IsRead
<1>. QED
  BY <1>2, <1>3, <1>5, <1>6, <1>7 DEF Rest

LEMMA ToolsInvNext == ToolsInv /\ [ToolsNext]_toolsVars => ToolsInv'
<1>. SUFFICES ASSUME ToolsInv, [ToolsNext]_toolsVars PROVE ToolsInv'
  OBVIOUS
<1>1. ToolsTypeOK'
  BY ToolsTypeNext DEF ToolsInv
<1>2. ASSUME Rest', Active' \subseteq Active PROVE ToolsInv'
  BY <1>1, <1>2, SlotsShrink DEF ToolsInv, Rest
<1>3. CASE Execute
  BY <1>3, <1>2, ExecuteRest
<1>4. ASSUME NEW c \in Calls, Begin(c) PROVE ToolsInv'
  BY <1>1, <1>4, BeginRest, SlotTaken DEF ToolsInv, Rest
<1>5. ASSUME NEW c \in Calls, Read(c) PROVE ToolsInv'
  BY <1>5, <1>2, ReadRest
<1>6. ASSUME NEW c \in Calls, Store(c) PROVE ToolsInv'
  BY <1>6, <1>2, StoreRest
<1>7. CASE Wait \/ ReturnResults
  BY <1>7, <1>2, PhaseRest
<1>8. ASSUME NEW c \in Calls, StartWrite(c) \/ EndWrite(c) PROVE ToolsInv'
  BY <1>8, <1>2, WriteRest
<1>9. CASE UNCHANGED toolsVars
  BY <1>9 DEF toolsVars, ToolsInv, ToolsTypeOK, InTurn, OneWrite, SlotsHeld, CacheKept, RanBegun,
     StaleOnlyRepeats, NotExecutedAgain, Done, IsRead, Active, Reads, InRound
<1>. QED
  BY <1>3, <1>4, <1>5, <1>6, <1>7, <1>8, <1>9 DEF ToolsNext, Caller, Goroutine

LEMMA ToolsInvInit == ToolsInit => ToolsInv
<1>. SUFFICES ASSUME ToolsInit PROVE ToolsInv
  OBVIOUS
<1>. USE OrchestratorAssumption DEF ToolsInit
<1>1. ToolsTypeOK
  BY ToolsTypeInit
<1>2. SlotsHeld
  <2>1. Active = {}
    BY DEF Active
  <2>. QED  BY <2>1, FS_EmptySet DEF SlotsHeld
<1>3. InTurn /\ OneWrite /\ CacheKept /\ RanBegun
  BY DEF InTurn, OneWrite, CacheKept, RanBegun
<1>4. StaleOnlyRepeats /\ NotExecutedAgain
  BY DEF StaleOnlyRepeats, NotExecutedAgain, Reads, InRound
<1>. QED
  BY <1>1, <1>2, <1>3, <1>4 DEF ToolsInv

-----------------------------------------------------------------------------
(* The theorems.                                                           *)

LEMMA ToolsInvariant == ToolsSpec => []ToolsInv
BY ToolsInvInit, ToolsInvNext, PTL DEF ToolsSpec

(* For any calls: while a write runs no other call does, and the reads     *)
(* never hold more slots than there are.                                   *)
THEOREM SerialWrites == ToolsSpec => []WritesAlone
<1>1. ToolsInv => WritesAlone
  <2>. SUFFICES ASSUME ToolsInv PROVE WritesAlone
    OBVIOUS
  <2>1. Cardinality({c \in Calls : IsRead(c) /\ st[c] \in {"running", "read"}})
          <= MaxConcurrency
    BY DEF ToolsInv, SlotsHeld, Active
  <2>2. ASSUME NEW c \in Calls, NEW d \in Calls,
               ~IsRead(c), st[c] = "running", d # c
        PROVE  st[d] \notin {"running", "read"}
    BY <2>2, Alone
  <2>. QED  BY <2>1, <2>2 DEF WritesAlone
<1>. QED
  BY <1>1, ToolsInvariant, PTL

(* For any calls, when Execute has returned only panicked reads are        *)
(* without a result.                                                       *)
THEOREM Answered == ToolsSpec => []EveryCallAnswered
<1>1. ToolsInv => EveryCallAnswered
  BY OrchestratorAssumption DEF ToolsInv, ToolsTypeOK, InTurn, Done, EveryCallAnswered
<1>. QED
  BY <1>1, ToolsInvariant, PTL

(* For any calls, only a repetition of a call of an earlier round is given *)
(* a value from before the round.                                          *)
THEOREM StaleRepeats == ToolsSpec => []StaleOnlyRepeats
<1>1. ToolsInv => StaleOnlyRepeats
  BY DEF ToolsInv
<1>. QED
  BY <1>1, ToolsInvariant, PTL

(* For any calls, a read that was answered is not executed again in a      *)
(* later round.                                                            *)
THEOREM NotAgain == ToolsSpec => []NotExecutedAgain
<1>1. ToolsInv => NotExecutedAgain
  BY DEF ToolsInv
<1>. QED
  BY <1>1, ToolsInvariant, PTL

-----------------------------------------------------------------------------
(***************************************************************************)
(* The two together: the tool messages the loop appends for an answer      *)
(* (ToolMessages) are the results of Execute.                              *)
(***************************************************************************)

(* The calls of the answer in their order, and those with a result.        *)
Numberings(n) == {f \in [InRound -> 1..n] :
                    /\ \A c, d \in InRound : c < d => f[c] < f[d]
                    /\ \A i \in 1..n : \E c \in InRound : f[c] = i}
Results  == {c \in InRound : st[c] \in {"answered", "failed"}}
Panicked == {c \in InRound : st[c] = "panicked"}

IdsOf(s) == {s[i].id : i \in DOMAIN s}

(* When Execute has returned and at most one of its reads panicked, its    *)
(* results answer the calls that one of the loop's ToolMessages answers.   *)
LoopGetsResults ==
  phase = "idle" /\ (\A c, d \in Panicked : c = d) =>
    \A n \in Nat : \A f \in Numberings(n) :
      \E k \in 0..n : IdsOf(ToolMessages(n, k)) = {f[c] : c \in Results}

LEMMA ToolMessageIds ==
  ASSUME NEW n \in Nat, NEW k \in 0..n
  PROVE  IdsOf(ToolMessages(n, k)) = 1..n \ {k}
<1>. DEFINE l == IF k = 0 THEN n ELSE n - 1
            e(i) == IF k = 0 \/ i < k THEN i ELSE i + 1
<1>1. DOMAIN ToolMessages(n, k) = 1..l /\ l \in Int
      /\ \A i \in 1..l : ToolMessages(n, k)[i] = Tool(e(i))
  BY DEF ToolMessages
<1>2. \A i \in 1..l : ToolMessages(n, k)[i].id = e(i)
  <2>1. \A j : Tool(j).id = j
    BY DEF Tool
  <2>. HIDE DEF l, e
  <2>. QED
    BY <1>1, <2>1
<1>3. ASSUME NEW i \in 1..l PROVE e(i) \in 1..n \ {k}
  <2>1. CASE k = 0
    BY <2>1
  <2>2. CASE k # 0 /\ i < k
    BY <2>2
  <2>3. CASE k # 0 /\ ~(i < k)
    BY <2>3
  <2>. QED
    BY <2>1, <2>2, <2>3
<1>4. ASSUME NEW j \in 1..n \ {k} PROVE \E i \in 1..l : e(i) = j
  <2>1. CASE k = 0 \/ j < k
    <3>1. j \in 1..l /\ e(j) = j
      BY <2>1
    <3>. QED
      BY <3>1
  <2>2. CASE k # 0 /\ k < j
    <3>1. j - 1 \in 1..l /\ e(j - 1) = j
      BY <2>2
    <3>. QED
      BY <3>1
  <2>. QED
    BY <2>1, <2>2
<1>. DEFINE x == ToolMessages(n, k)
<1>. HIDE DEF l, e, x
<1>5. IdsOf(x) \subseteq 1..n \ {k}
  BY <1>1, <1>2, <1>3 DEF IdsOf, x
<1>6. ASSUME NEW j \in 1..n \ {k} PROVE j \in IdsOf(x)
  <2>1. PICK i \in 1..l : e(i) = j
    BY <1>4
  <2>2. i \in DOMAIN x /\ x[i].id = j
    BY <1>1, <1>2, <2>1 DEF x
  <2>. QED
    BY <2>2 DEF IdsOf
<1>. QED
  BY <1>5, <1>6 DEF x

(* For any calls: the loop appends what the orchestrator returns.          *)
THEOREM LoopGetsItsResults == ToolsSpec => []LoopGetsResults
<1>1. ToolsInv => LoopGetsResults
  <2>. SUFFICES ASSUME ToolsInv, phase = "idle", \A c, d \in Panicked : c = d,
                       NEW n \in Nat, NEW f \in Numberings(n)
                PROVE  \E k \in 0..n : IdsOf(ToolMessages(n, k)) = {f[c] : c \in Results}
    BY DEF LoopGetsResults
  <2>1. \A c \in InRound : c \in Results \/ c \in Panicked
    BY OrchestratorAssumption DEF ToolsInv, ToolsTypeOK, InTurn, Done, InRound, Results, Panicked
  <2>2. /\ f \in [InRound -> 1..n] /\ InRound \subseteq Nat
        /\ \A c, d \in InRound : c < d => f[c] < f[d]
        /\ \A i \in 1..n : \E c \in InRound : f[c] = i
    BY OrchestratorAssumption DEF Numberings, InRound
  <2>3. \A c, d \in InRound : f[c] = f[d] => c = d
    BY <2>2
  <2>4. \A c \in InRound : c \in Results => c \notin Panicked
    BY DEF Results, Panicked
  <2>5. Results \subseteq InRound /\ Panicked \subseteq InRound
    BY DEF Results, Panicked
  <2>6. CASE Panicked = {}
    <3>1. {f[c] : c \in Results} = 1..n
      BY <2>1, <2>2, <2>5, <2>6
    <3>2. 0 \in 0..n /\ 1..n \ {0} = 1..n
      OBVIOUS
    <3>. QED
      BY <3>1, <3>2, ToolMessageIds
  <2>7. CASE Panicked # {}
    <3>1. PICK p \in Panicked : TRUE
      BY <2>7
    <3>2. f[p] \in 0..n
      BY <2>2, <2>5
    <3>3. {f[c] : c \in Results} = 1..n \ {f[p]}
      <4>1. ASSUME NEW i \in 1..n, i # f[p] PROVE \E c \in Results : f[c] = i
        BY <2>1, <2>2, <4>1
      <4>2. ASSUME NEW c \in Results PROVE f[c] \in 1..n /\ f[c] # f[p]
        BY <2>2, <2>3, <2>4, <2>5
      <4>. QED
        BY <4>1, <4>2
    <3>. QED
      BY <3>2, <3>3, ToolMessageIds
  <2>. QED
    BY <2>6, <2>7
<1>. QED
  BY <1>1, ToolsInvariant, PTL
=============================================================================
