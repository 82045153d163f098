------------------------- MODULE WorkerAgent_proofs -------------------------
(***************************************************************************)
(* Proofs about WorkerAgent, for any files, streams and capacities.        *)
(***************************************************************************)
EXTENDS WorkerAgent, FiniteSetTheorems, SequenceTheorems, TLAPS

-----------------------------------------------------------------------------
(* Events and lines.                                                       *)

LEMMA Elements ==
  ASSUME NEW S, NEW s \in Seq(S)
  PROVE  /\ Len(s) \in Nat /\ DOMAIN s = 1 .. Len(s)
         /\ \A i \in 1 .. Len(s) : s[i] \in S
OBVIOUS

LEMMA UpdateText ==
  ASSUME NEW e \in Event, NEW f \in File, Updates(e, f)
  PROVE  e.text \in Nat
<1>1. AlertEvent.about = "alert" /\ GoneEvent.about = "base name"
  BY DEF AlertEvent, GoneEvent
<1>2. e # AlertEvent /\ e # GoneEvent
  BY <1>1, PathAssumption DEF Updates
<1>. QED
  BY <1>2 DEF Event

(* Alerts and deletions bring no text of a file.                           *)
LEMMA OtherEvents ==
  ASSUME NEW e \in {AlertEvent, GoneEvent}
  PROVE  e \in Event /\ \A f \in File : ~Updates(e, f)
<1>1. e \in Event
  <2>. HIDE DEF AlertEvent, GoneEvent
  <2>. QED
    BY DEF Event
<1>2. e.about = "alert" \/ e.about = "base name"
  <2>1. AlertEvent.about = "alert" /\ GoneEvent.about = "base name"
    BY DEF AlertEvent, GoneEvent
  <2>. HIDE DEF AlertEvent, GoneEvent
  <2>. QED
    BY <2>1
<1>. QED
  BY <1>1, <1>2, PathAssumption DEF Updates

LEMMA PushTypes ==
  ASSUME StreamTypes, NEW e \in Event, Push(e)
  PROVE  /\ outEvents' \in Seq(Event) /\ Len(outEvents') <= OutCap
         /\ missed' \in [File -> BOOLEAN]
<1>1. \/ outEvents' = outEvents
      \/ outEvents' = Append(outEvents, e) /\ Len(outEvents) < OutCap
  BY DEF Push
<1>2. outEvents' \in Seq(Event) /\ Len(outEvents') <= OutCap
  <2>1. outEvents \in Seq(Event) /\ Len(outEvents) <= OutCap /\ Len(outEvents) \in Nat
    BY DEF StreamTypes
  <2>2. Append(outEvents, e) \in Seq(Event) /\ Len(Append(outEvents, e)) = Len(outEvents) + 1
    BY <2>1
  <2>. HIDE DEF Event
  <2>. QED
    BY <1>1, <2>1, <2>2, CapAssumption
<1>3. missed' \in [File -> BOOLEAN]
  <2>1. missed \in [File -> BOOLEAN]
    BY DEF StreamTypes
  <2>2. missed' = [f \in File |-> IF Updates(e, f) THEN ~(Len(outEvents) < OutCap) ELSE missed[f]]
    BY DEF Push
  <2>. QED
    BY <2>1, <2>2
<1>. QED
  BY <1>2, <1>3

LEMMA LoseTypes ==
  ASSUME StreamTypes, NEW e \in Event, Lose(e)
  PROVE  missed' \in [File -> BOOLEAN]
<1>1. missed \in [File -> BOOLEAN]
  BY DEF StreamTypes
<1>. QED
  BY <1>1 DEF Lose, Updates

(* The highest hash of the first n lines exists.                           *)
Hashes(n) == {0} \union {lines[i].hash : i \in 1 .. n}
Topped == \A n \in 0 .. Len(lines) : \E m \in Hashes(n) : \A h \in Hashes(n) : h <= m

LEMMA NewHashType ==
  ASSUME LogTypes, Topped
  PROVE  /\ NewHash \in Nat \ {0}
         /\ \A i \in 1 .. Len(lines) : lines[i].hash < NewHash
<1>1. Len(lines) \in Nat /\ \A i \in 1 .. Len(lines) : lines[i] \in Line
  BY Elements DEF LogTypes
<1>2. Len(lines) \in 0 .. Len(lines)
  BY <1>1
<1>. DEFINE S == Hashes(Len(lines))
<1>3. \A h \in S : h \in Int
  BY <1>1 DEF Hashes, Line, Hash, Junk
<1>4. 0 \in S
  BY DEF Hashes
<1>5. PICK m \in S : \A h \in S : h <= m
  BY <1>2 DEF Topped
<1>6. NewHash = 1 + Max(S)
  BY DEF NewHash, Hashes
<1>7. \A i \in 1 .. Len(lines) : lines[i].hash \in S
  BY DEF Hashes
<1>. HIDE DEF S
<1>8. \A h \in S : m >= h
  BY <1>3, <1>5
<1>9. Max(S) \in S /\ \A h \in S : Max(S) >= h
  BY <1>8 DEF Max
<1>10. NewHash \in Nat \ {0}
  BY <1>3, <1>4, <1>6, <1>9
<1>11. ASSUME NEW i \in 1 .. Len(lines) PROVE lines[i].hash < NewHash
  BY <1>3, <1>6, <1>7, <1>9
<1>. QED
  BY <1>10, <1>11

(* What a write makes of the log: the last line is replaced, or a line is  *)
(* added.                                                                  *)
Written(h, p, n, x) ==
  /\ n \in Nat \ {0} /\ x \in Seq(Line) /\ Len(x) = n
  /\ \A i \in 1 .. (n - 1) : x[i] = lines[i]
  /\ x[n].hash \in {h, Junk} /\ (h # 0 => x[n].hash = h)
  /\ x[n].prev = p

LEMMA ExtendedTorn ==
  ASSUME LogTypes, torn, lines # <<>>, NEW h \in Hash, NEW p \in Hash
  PROVE  /\ Written(h, p, Len(lines), Extended(h, p))
         /\ Extended(h, p)[Len(lines)].glued = TRUE
<1>1. /\ Len(lines) \in Nat /\ DOMAIN lines = 1 .. Len(lines) /\ lines \in Seq(Line)
      /\ \A i \in 1 .. Len(lines) : lines[i] \in Line
  BY Elements DEF LogTypes
<1>2. Len(lines) \in 1 .. Len(lines)
  BY <1>1
<1>. DEFINE g == IF h = 0 /\ lines[Len(lines)].hash # 0 THEN Junk ELSE h
            r == [hash |-> g, prev |-> p, glued |-> TRUE]
            x == Extended(h, p)
<1>3. x = [lines EXCEPT ![Len(lines)] = r]
  BY DEF Extended
<1>4. g \in {h, Junk} /\ (h # 0 => g = h) /\ g \in Hash
  BY DEF Hash
<1>5. r \in Line /\ r.hash = g /\ r.prev = p /\ r.glued = TRUE
  BY <1>4 DEF Line
<1>. HIDE DEF g, r, x
<1>6. x \in [1 .. Len(lines) -> Line] /\ x[Len(lines)] = r
      /\ \A i \in 1 .. (Len(lines) - 1) : x[i] = lines[i]
  <2>1. lines \in [1 .. Len(lines) -> Line]
    BY <1>1
  <2>2. /\ x[Len(lines)] = r /\ DOMAIN x = 1 .. Len(lines)
        /\ \A i \in 1 .. Len(lines) : i # Len(lines) => x[i] = lines[i]
    BY <1>2, <1>3, <2>1
  <2>3. ASSUME NEW i \in 1 .. (Len(lines) - 1)
        PROVE  i \in 1 .. Len(lines) /\ i # Len(lines)
    <3>1. Len(lines) \in Nat
      BY <1>1
    <3>. QED
      BY <3>1
  <2>4. x \in [1 .. Len(lines) -> Line]
    BY <1>2, <1>3, <1>5, <2>1
  <2>. QED
    BY <2>2, <2>3, <2>4
<1>7. x \in Seq(Line) /\ Len(x) = Len(lines)
  BY <1>1, <1>6
<1>8. Written(h, p, Len(lines), x) /\ x[Len(lines)].glued = TRUE
  BY <1>1, <1>2, <1>4, <1>5, <1>6, <1>7 DEF Written
<1>. QED
  BY <1>8 DEF x

LEMMA ExtendedWhole ==
  ASSUME LogTypes, ~torn, NEW h \in Hash, NEW p \in Hash
  PROVE  /\ Written(h, p, Len(lines) + 1, Extended(h, p))
         /\ Extended(h, p)[Len(lines) + 1].glued = FALSE
         /\ Extended(h, p)[Len(lines) + 1].hash = h
<1>1. Len(lines) \in Nat /\ lines \in Seq(Line)
  BY Elements DEF LogTypes
<1>. DEFINE r == [hash |-> h, prev |-> p, glued |-> FALSE]
            x == Extended(h, p)
<1>2. x = Append(lines, r)
  BY DEF Extended
<1>3. r \in Line /\ r.hash = h /\ r.prev = p /\ r.glued = FALSE
  BY DEF Line
<1>. HIDE DEF r, x
<1>4. /\ x \in Seq(Line) /\ Len(x) = Len(lines) + 1
      /\ \A i \in 1 .. Len(lines) : x[i] = lines[i]
      /\ x[Len(lines) + 1] = r
  BY <1>1, <1>2, <1>3
<1>5. Written(h, p, Len(lines) + 1, x) /\ x[Len(lines) + 1].glued = FALSE
      /\ x[Len(lines) + 1].hash = h
  BY <1>1, <1>3, <1>4 DEF Written
<1>. QED
  BY <1>5 DEF x

LEMMA ToppedWritten ==
  ASSUME LogTypes, Topped, NEW h \in Hash, NEW p, NEW n \in 1 .. (Len(lines) + 1),
         Written(h, p, n, lines')
  PROVE  Topped'
<1>1. Len(lines) \in Nat /\ Len(lines') = n /\ n - 1 \in 0 .. Len(lines)
  BY Elements DEF LogTypes, Written
<1>2. \A i \in 1 .. (n - 1) : lines'[i] = lines[i]
  BY DEF Written
<1>3. \A i \in 1 .. Len(lines) : lines[i].hash \in Int
  <2>1. ASSUME NEW r \in Line PROVE r.hash \in Int
    BY DEF Line, Hash, Junk
  <2>. QED
    BY <2>1, Elements DEF LogTypes
<1>4. lines'[n].hash \in Int
  BY DEF Written, Hash, Junk
<1>5. ASSUME NEW k \in 0 .. (n - 1) PROVE Hashes(k)' = Hashes(k)
  <2>1. \A i \in 1 .. k : lines'[i] = lines[i]
    BY <1>1, <1>2
  <2>. QED
    BY <2>1 DEF Hashes
<1>6. ASSUME NEW k \in 0 .. (n - 1)
      PROVE  (\E m \in Hashes(k) : \A g \in Hashes(k) : g <= m)'
  <2>1. k \in 0 .. Len(lines)
    BY <1>1
  <2>2. PICK m \in Hashes(k) : \A g \in Hashes(k) : g <= m
    BY <2>1 DEF Topped
  <2>. QED
    BY <1>5, <2>2
<1>7. (\E m \in Hashes(n) : \A g \in Hashes(n) : g <= m)'
  <2>. DEFINE A == Hashes(n - 1)  B == Hashes(n)'  g == lines'[n].hash
  <2>1. PICK m \in A : \A x \in A : x <= m
    BY <1>1 DEF Topped
  <2>2. B = A \union {g}
    <3>1. 1 .. n = 1 .. (n - 1) \union {n}
      BY <1>1
    <3>2. A = {0} \union {lines'[i].hash : i \in 1 .. (n - 1)}
      BY <1>2 DEF Hashes
    <3>. QED
      BY <3>1, <3>2 DEF Hashes
  <2>3. \A x \in A : x \in Int
    <3>1. \A i \in 1 .. (n - 1) : i \in 1 .. Len(lines)
      BY <1>1
    <3>. QED
      BY <1>3, <3>1 DEF Hashes
  <2>4. g \in Int
    BY <1>4
  <2>. HIDE DEF A, g
  <2>5. \E y \in A \union {g} : \A x \in A \union {g} : x <= y
    <3>1. CASE g <= m
      BY <2>1, <2>3, <2>4, <3>1
    <3>2. CASE m < g
      <4>1. \A x \in A : x <= g
        BY <2>1, <2>3, <2>4, <3>2
      <4>2. g \in A \union {g} /\ g <= g
        BY <2>4
      <4>. QED
        BY <4>1, <4>2
    <3>. QED
      BY <2>1, <2>3, <2>4, <3>1, <3>2
  <2>. QED
    BY <2>2, <2>5
<1>8. \A k \in 0 .. n : k \in 0 .. (n - 1) \/ k = n
  BY <1>1
<1>9. Len(lines)' = n
  BY <1>1
<1>. QED
  BY <1>6, <1>7, <1>8, <1>9 DEF Topped

(* The cases of LogEntry: a whole line, nothing, or a part of one.         *)
LEMMA LogEntryCases ==
  ASSUME LogTypes, Topped, torn => lines # <<>>, LogEntry
  PROVE  \/ UNCHANGED <<lines, torn, prevHash, cuts>>
         \/ \E h \in {0, Junk, NewHash} :
              /\ h \in Hash /\ lines' = Extended(h, prevHash)
              /\ \/ /\ h = NewHash /\ torn' = FALSE
                    /\ prevHash' = NewHash /\ cuts' = cuts
                 \/ torn' = TRUE /\ cuts' = cuts + 1 /\ prevHash' = prevHash
<1>1. NewHash \in Hash /\ 0 \in Hash /\ Junk \in Hash
  BY NewHashType DEF Hash
<1>. QED
  BY <1>1 DEF LogEntry

LEMMA LogEntryTypes ==
  ASSUME LogTypes, Topped, torn => lines # <<>>, LogEntry
  PROVE  LogTypes' /\ Topped' /\ (torn' => lines' # <<>>)
<1>1. CASE UNCHANGED <<lines, torn, prevHash, cuts>>
  BY <1>1 DEF LogTypes, Topped, Hashes
<1>2. ASSUME NEW h \in {0, Junk, NewHash}, h \in Hash, lines' = Extended(h, prevHash),
             \/ h = NewHash /\ torn' = FALSE /\ prevHash' = NewHash /\ cuts' = cuts
             \/ torn' = TRUE /\ cuts' = cuts + 1 /\ prevHash' = prevHash
      PROVE  LogTypes' /\ Topped' /\ (torn' => lines' # <<>>)
  <2>1. prevHash \in Hash /\ Len(lines) \in Nat
    BY Elements DEF LogTypes
  <2>2. PICK n \in 1 .. (Len(lines) + 1) : Written(h, prevHash, n, lines')
    <3>1. CASE torn
      <4>1. Written(h, prevHash, Len(lines), lines')
        BY <1>2, <2>1, <3>1, ExtendedTorn
      <4>. QED
        BY <2>1, <4>1 DEF Written
    <3>2. CASE ~torn
      <4>1. Written(h, prevHash, Len(lines) + 1, lines')
        BY <1>2, <2>1, <3>2, ExtendedWhole
      <4>. QED
        BY <2>1, <4>1
    <3>. QED
      BY <3>1, <3>2
  <2>3. Topped'
    BY <1>2, <2>1, <2>2, ToppedWritten
  <2>4. lines' \in Seq(Line) /\ lines' # <<>>
    <3>1. lines' \in Seq(Line) /\ Len(lines') = n /\ n # 0
      BY <2>2 DEF Written
    <3>. QED
      BY <3>1
  <2>5. torn' \in BOOLEAN /\ cuts' \in Nat /\ prevHash' \in Hash
    <3>1. torn' \in BOOLEAN
      BY <1>2
    <3>2. cuts \in Nat
      BY DEF LogTypes
    <3>3. cuts' \in Nat /\ prevHash' \in Hash
      BY <1>2, <2>1, <3>2
    <3>. QED
      BY <3>1, <3>3
  <2>. QED
    BY <2>3, <2>4, <2>5 DEF LogTypes
<1>. QED
  BY <1>1, <1>2, LogEntryCases

-----------------------------------------------------------------------------
(* Types.                                                                  *)

TypeInv == /\ TypeOK /\ Topped
           /\ torn => lines # <<>>

LEMMA TypeInit == Init => TypeInv
<1>. SUFFICES ASSUME Init PROVE TypeInv
  OBVIOUS
<1>. USE DEF Init
<1>1. LoopTypes
  <2>1. up \in BOOLEAN
    OBVIOUS
  <2>2. 0 \in 0 .. AlertCap
    BY CapAssumption
  <2>. QED
    BY <2>1, <2>2 DEF LoopTypes
<1>2. StreamTypes
  <2>1. AlertEvent \in Event /\ <<>> \in Seq(Event) /\ Len(<<>>) = 0
    BY DEF Event
  <2>. QED
    BY <2>1, CapAssumption DEF StreamTypes
<1>3. SyncTypes
  BY DEF SyncTypes, Absent
<1>4. LogTypes /\ Topped /\ (torn => lines # <<>>)
  <2>1. lines \in Seq(Line) /\ Len(lines) = 0 /\ 0 .. Len(lines) = {0} /\ 0 \in Hash
    BY DEF Hash
  <2>2. Hashes(0) = {0}
    BY DEF Hashes
  <2>3. torn \in BOOLEAN /\ ~torn
    OBVIOUS
  <2>4. cuts \in Nat /\ prevHash \in Hash
    BY <2>1
  <2>5. Topped
    <3>1. \A n \in 0 .. Len(lines) : n = 0
      BY <2>1
    <3>2. 0 <= 0
      OBVIOUS
    <3>. QED
      BY <2>2, <3>1, <3>2 DEF Topped
  <2>. QED
    BY <2>1, <2>3, <2>4, <2>5 DEF LogTypes
<1>. QED
  BY <1>1, <1>2, <1>3, <1>4 DEF TypeInv, TypeOK

LEMMA TypeNext == TypeInv /\ [Next]_vars => TypeInv'
<1>. SUFFICES ASSUME TypeInv, [Next]_vars PROVE TypeInv'
  OBVIOUS
<1>a. LoopTypes /\ StreamTypes /\ SyncTypes /\ LogTypes /\ Topped /\ (torn => lines # <<>>)
  BY DEF TypeInv, TypeOK
<1>b. ASSUME UNCHANGED <<up, crashes, loopVars>> PROVE LoopTypes'
  BY <1>a, <1>b DEF LoopTypes, loopVars
<1>c. ASSUME UNCHANGED <<streamVars, missed>> PROVE StreamTypes'
  BY <1>a, <1>c DEF StreamTypes, streamVars
<1>d. ASSUME UNCHANGED <<syncVars, fileVars>> PROVE SyncTypes'
  BY <1>a, <1>d DEF SyncTypes, syncVars, fileVars
<1>e. ASSUME UNCHANGED logVars PROVE LogTypes' /\ Topped' /\ (torn' => lines' # <<>>)
  BY <1>a, <1>e DEF LogTypes, Topped, Hashes, logVars
<1>f. ASSUME UNCHANGED notStreams, StreamTypes' PROVE TypeInv'
  BY <1>b, <1>d, <1>e, <1>f DEF TypeInv, TypeOK, notStreams
<1>1. ASSUME NEW s \in Stream, OpenStream(s) PROVE TypeInv'
  BY <1>1, <1>a, <1>f DEF OpenStream, StreamTypes
<1>2. ASSUME NEW s \in Stream, CutStream(s) PROVE TypeInv'
  BY <1>2, <1>a, <1>f DEF CutStream, StreamTypes
<1>3. ASSUME NEW s \in Stream, EndStream(s) PROVE TypeInv'
  BY <1>3, <1>a, <1>f DEF EndStream, StreamTypes
<1>4. ASSUME NEW s \in Stream, TakeEvent(s) PROVE TypeInv'
  <2>1. outEvents \in Seq(Event) /\ outEvents # <<>> /\ Len(outEvents) <= OutCap
    BY <1>4, <1>a DEF TakeEvent, StreamTypes
  <2>2. Head(outEvents) \in Event /\ Tail(outEvents) \in Seq(Event)
        /\ Len(Tail(outEvents)) <= OutCap
    BY <2>1, CapAssumption
  <2>3. crossed' \in [File -> BOOLEAN]
    <3>1. crossed \in [File -> BOOLEAN]
      BY <1>a DEF StreamTypes
    <3>2. crossed' = [f \in File |->
                        IF Updates(Head(outEvents), f)
                          THEN \E r \in Stream : conn[r] = "open" /\ Holds(r, f)
                          ELSE crossed[f]]
      BY <1>4 DEF TakeEvent
    <3>3. \A f \in File : (\E r \in Stream : conn[r] = "open" /\ Holds(r, f)) \in BOOLEAN
      OBVIOUS
    <3>. HIDE DEF Holds, Updates
    <3>. QED
      BY <3>1, <3>2, <3>3
  <2>4. /\ sender' = [sender EXCEPT ![s] = "holding"] /\ UNCHANGED <<conn, told, missed>>
        /\ held' = [held EXCEPT ![s] = Head(outEvents)] /\ outEvents' = Tail(outEvents)
        /\ stolen' = [stolen EXCEPT ![s] = @ + 1] \/ stolen' = stolen
    BY <1>4 DEF TakeEvent
  <2>5. StreamTypes'
    BY <1>a, <2>2, <2>3, <2>4 DEF StreamTypes
  <2>. QED
    BY <1>4, <1>f, <2>5 DEF TakeEvent
<1>5. ASSUME NEW s \in Stream, QuitSender(s) PROVE TypeInv'
  BY <1>5, <1>a, <1>f DEF QuitSender, StreamTypes
<1>6. ASSUME NEW s \in Stream, SendEvent(s) PROVE TypeInv'
  <2>1. held[s] \in Event /\ AlertEvent \in Event
    BY <1>a DEF StreamTypes, Event
  <2>2. missed' \in [File -> BOOLEAN]
    BY <1>6, <1>a, <2>1, LoseTypes DEF SendEvent, StreamTypes
  <2>3. told' \in [File -> Nat]
    <3>1. told \in [File -> Nat]
      BY <1>a DEF StreamTypes
    <3>2. \/ told' = told
          \/ told' = [f \in File |-> IF Updates(held[s], f) THEN held[s].text ELSE told[f]]
      BY <1>6 DEF SendEvent
    <3>3. \A f \in File : Updates(held[s], f) => held[s].text \in Nat
      BY <2>1, UpdateText
    <3>. QED
      BY <3>1, <3>2, <3>3
  <2>. QED
    BY <1>6, <1>a, <1>f, <2>1, <2>2, <2>3 DEF SendEvent, StreamTypes
<1>7. ASSUME NEW s \in Stream, SendFails(s) PROVE TypeInv'
  <2>1. held[s] \in Event /\ AlertEvent \in Event
    BY <1>a DEF StreamTypes, Event
  <2>2. missed' \in [File -> BOOLEAN]
    BY <1>7, <1>a, <2>1, LoseTypes DEF SendFails
  <2>. QED
    BY <1>7, <1>a, <1>f, <2>1, <2>2 DEF SendFails, StreamTypes
<1>g. ASSUME UNCHANGED notLoop, LoopTypes',
             LogTypes' /\ Topped' /\ (torn' => lines' # <<>>)
      PROVE  TypeInv'
  BY <1>c, <1>d, <1>g DEF TypeInv, TypeOK, notLoop
<1>8. CASE Alert
  BY <1>8, <1>a, <1>e, <1>g, CapAssumption DEF Alert, LoopTypes, notLoop
<1>9. CASE TakeAlert
  BY <1>9, <1>a, <1>e, <1>g, CapAssumption DEF TakeAlert, LoopTypes, notLoop
<1>10. CASE Diagnosed
  <2>1. AlertEvent \in Event
    BY DEF Event
  <2>2. StreamTypes'
    BY <1>10, <1>a, <2>1, PushTypes DEF Diagnosed, StreamTypes
  <2>3. LoopTypes'
    BY <1>10, <1>a DEF Diagnosed, LoopTypes
  <2>. QED
    BY <1>10, <1>d, <1>e, <2>2, <2>3 DEF Diagnosed, TypeInv, TypeOK
<1>11. CASE LogEntry
  <2>1. LogTypes' /\ Topped' /\ (torn' => lines' # <<>>)
    BY <1>11, <1>a, LogEntryTypes
  <2>2. LoopTypes' /\ UNCHANGED notLoop
    BY <1>11, <1>a DEF LogEntry, LoopTypes, notLoop
  <2>. QED
    BY <1>g, <2>1, <2>2
<1>h. ASSUME UNCHANGED notSync, SyncTypes',
             outEvents' \in Seq(Event) /\ Len(outEvents') <= OutCap,
             missed' \in [File -> BOOLEAN]
      PROVE  TypeInv'
  <2>1. StreamTypes'
    BY <1>a, <1>h DEF StreamTypes, notSync
  <2>. QED
    BY <1>b, <1>e, <1>h, <2>1 DEF TypeInv, TypeOK, notSync
<1>i. outEvents \in Seq(Event) /\ Len(outEvents) <= OutCap /\ missed \in [File -> BOOLEAN]
  BY <1>a DEF StreamTypes
<1>12. CASE StartScan
  BY <1>12, <1>a, <1>h, <1>i DEF StartScan, SyncTypes, notSync, fileVars
<1>13. CASE StartGone
  BY <1>13, <1>a, <1>h, <1>i DEF StartGone, SyncTypes, notSync, fileVars
<1>14. CASE EndScan
  BY <1>14, <1>a, <1>h, <1>i DEF EndScan, SyncTypes, notSync, fileVars
<1>15. ASSUME NEW f \in File, StatFile(f) PROVE TypeInv'
  <2>1. file[f].time \in Nat
    BY <1>a DEF SyncTypes
  <2>. QED
    BY <1>15, <1>a, <1>h, <1>i, <2>1 DEF StatFile, SyncTypes, notSync, fileVars
<1>16. ASSUME NEW f \in File, PushFile(f) PROVE TypeInv'
  <2>1. file[f].text \in Nat /\ read.time \in Nat
    BY <1>a DEF SyncTypes, None
  <2>2. [about |-> f, text |-> file[f].text] \in Event
    BY <2>1 DEF Event
  <2>3. outEvents' \in Seq(Event) /\ Len(outEvents') <= OutCap /\ missed' \in [File -> BOOLEAN]
    BY <1>16, <1>a, <1>i, <2>2, PushTypes DEF PushFile
  <2>4. SyncTypes'
    BY <1>16, <1>a, <2>1 DEF PushFile, SyncTypes, notSync, fileVars
  <2>. QED
    BY <1>16, <1>h, <2>3, <2>4 DEF PushFile
<1>17. ASSUME NEW f \in File, CheckGone(f) PROVE TypeInv'
  <2>1. GoneEvent \in Event
    BY DEF Event
  <2>2. outEvents' \in Seq(Event) /\ Len(outEvents') <= OutCap /\ missed' \in [File -> BOOLEAN]
    BY <1>17, <1>a, <1>i, <2>1, PushTypes DEF CheckGone
  <2>3. SyncTypes'
    <3>1. lastSync' = lastSync \/ lastSync' = [lastSync EXCEPT ![f] = 0]
      BY <1>17 DEF CheckGone
    <3>2. todo' \subseteq File /\ scan' = scan /\ read' = read /\ UNCHANGED fileVars
      BY <1>17, <1>a DEF CheckGone, SyncTypes, notSync
    <3>3. lastSync' \in [File -> Nat]
      <4>1. lastSync \in [File -> Nat] /\ 0 \in Nat
        BY <1>a DEF SyncTypes
      <4>2. CASE lastSync' = lastSync
        BY <4>1, <4>2
      <4>3. CASE lastSync' = [lastSync EXCEPT ![f] = 0]
        BY <4>1, <4>3
      <4>. QED
        BY <3>1, <4>2, <4>3
    <3>. QED
      BY <1>a, <3>2, <3>3 DEF SyncTypes, fileVars
  <2>. QED
    BY <1>17, <1>h, <2>2, <2>3 DEF CheckGone
<1>18. ASSUME NEW f \in File, Change(f) \/ Delete(f) PROVE TypeInv'
  <2>1. texts \in Nat /\ file[f] \in [time : Nat, text : Nat] /\ Absent \in [time : Nat, text : Nat]
    BY <1>a DEF SyncTypes, Absent
  <2>2. SyncTypes'
    <3>1. CASE Change(f)
      <4>1. PICK same \in BOOLEAN :
              /\ file' = [file EXCEPT ![f] =
                            [time |-> IF same THEN @.time ELSE texts', text |-> texts']]
              /\ blurred' = [blurred EXCEPT ![f] = same]
        BY <3>1 DEF Change
      <4>2. texts' \in Nat /\ file[f].time \in Nat
        BY <2>1, <3>1 DEF Change
      <4>3. file' \in [File -> [time : Nat, text : Nat]]
        <5>1. file \in [File -> [time : Nat, text : Nat]]
          BY <1>a DEF SyncTypes
        <5>2. [time |-> IF same THEN file[f].time ELSE texts', text |-> texts']
                \in [time : Nat, text : Nat]
          BY <4>2
        <5>. QED
          BY <4>1, <5>1, <5>2
      <4>4. blurred' \in [File -> BOOLEAN]
        BY <1>a, <4>1 DEF SyncTypes
      <4>. QED
        BY <1>a, <3>1, <4>2, <4>3, <4>4 DEF Change, SyncTypes, syncVars
    <3>2. CASE Delete(f)
      BY <1>a, <2>1, <3>2 DEF Delete, SyncTypes, syncVars
    <3>. QED
      BY <1>18, <3>1, <3>2
  <2>. QED
    BY <1>18, <1>b, <1>c, <1>e, <2>2 DEF Change, Delete, TypeInv, TypeOK
<1>19. CASE Stop
  <2>1. LoopTypes'
    <3>1. up' \in BOOLEAN
      BY <1>19 DEF Stop
    <3>2. alertCh' \in 0 .. AlertCap
      BY <1>19, CapAssumption DEF Stop
    <3>. QED
      BY <1>19, <1>a, <3>1, <3>2 DEF Stop, LoopTypes
  <2>2. StreamTypes'
    <3>1. AlertEvent \in Event /\ <<>> \in Seq(Event) /\ Len(<<>>) = 0
      BY DEF Event
    <3>. QED
      BY <1>19, <1>a, <3>1, CapAssumption DEF Stop, StreamTypes
  <2>3. SyncTypes'
    BY <1>19, <1>a DEF Stop, SyncTypes, fileVars
  <2>4. LogTypes' /\ Topped' /\ (torn' => lines' # <<>>)
    BY <1>19, <1>a DEF Stop, LogTypes, Topped, Hashes, Hash
  <2>. QED
    BY <2>1, <2>2, <2>3, <2>4 DEF TypeInv, TypeOK
<1>20. CASE Start
  <2>1. LoopTypes'
    BY <1>20, <1>a DEF Start, LoopTypes, loopVars
  <2>2. LogTypes' /\ Topped' /\ (torn' => lines' # <<>>)
    <3>1. lines # <<>> => lines[Len(lines)] \in Line
      BY <1>a, Elements DEF LogTypes
    <3>2. prevHash' \in Hash
      BY <1>20, <3>1 DEF Start, Line, Hash
    <3>. QED
      BY <1>20, <1>a, <3>2 DEF Start, LogTypes, Topped, Hashes
  <2>. QED
    BY <1>20, <1>c, <1>d, <2>1, <2>2 DEF Start, TypeInv, TypeOK
<1>21. CASE UNCHANGED vars
  BY <1>21, <1>b, <1>c, <1>d, <1>e DEF vars, TypeInv, TypeOK
<1>. QED
  BY <1>1, <1>2, <1>3, <1>4, <1>5, <1>6, <1>7, <1>8, <1>9, <1>10, <1>11, <1>12, <1>13,
     <1>14, <1>15, <1>16, <1>17, <1>18, <1>19, <1>20, <1>21
  DEF Next, Sender, Handler, Syncer

(* For any files, streams and capacities, all variables keep their types   *)
(* and neither channel holds more than its capacity.                       *)
THEOREM TypeCorrect == Spec => []TypeOK
<1>1. TypeInv => TypeOK
  BY DEF TypeInv
<1>. QED
  BY <1>1, TypeInit, TypeNext, PTL DEF Spec

-----------------------------------------------------------------------------
(* Streams: a sender that took an event for an ended stream is still       *)
(* holding it or gone.                                                     *)

SenderOnce(s) ==
  /\ conn[s] = "closed" => sender[s] = "none"
  /\ sender[s] \in {"none", "waiting"} => stolen[s] = 0
  /\ stolen[s] = 0 \/ (stolen[s] = 1 /\ conn[s] = "ended")
StreamInv == \A s \in Stream : SenderOnce(s)

LEMMA StreamNext == TypeInv /\ StreamInv /\ [Next]_vars => StreamInv'
<1>. SUFFICES ASSUME TypeInv, StreamInv, [Next]_vars PROVE StreamInv'
  OBVIOUS
<1>1. /\ conn \in [Stream -> {"closed", "open", "cut", "ended"}]
      /\ sender \in [Stream -> {"none", "waiting", "holding", "gone"}]
      /\ stolen \in [Stream -> Nat]
  BY DEF TypeInv, TypeOK, StreamTypes
<1>2. CASE UNCHANGED <<conn, sender, stolen>>
  BY <1>2 DEF StreamInv, SenderOnce
<1>3. ASSUME NEW s \in Stream, OpenStream(s) PROVE StreamInv'
  BY <1>1, <1>3 DEF OpenStream, StreamInv, SenderOnce
<1>4. ASSUME NEW s \in Stream, CutStream(s) PROVE StreamInv'
  BY <1>1, <1>4 DEF CutStream, StreamInv, SenderOnce
<1>5. ASSUME NEW s \in Stream, EndStream(s) PROVE StreamInv'
  BY <1>1, <1>5 DEF EndStream, StreamInv, SenderOnce
<1>6. ASSUME NEW s \in Stream, TakeEvent(s) PROVE StreamInv'
  BY <1>1, <1>6 DEF TakeEvent, StreamInv, SenderOnce
<1>7. ASSUME NEW s \in Stream, QuitSender(s) PROVE StreamInv'
  BY <1>1, <1>7 DEF QuitSender, StreamInv, SenderOnce
<1>8. ASSUME NEW s \in Stream, SendEvent(s) PROVE StreamInv'
  BY <1>1, <1>8 DEF SendEvent, StreamInv, SenderOnce
<1>9. ASSUME NEW s \in Stream, SendFails(s) PROVE StreamInv'
  BY <1>1, <1>9 DEF SendFails, StreamInv, SenderOnce
<1>10. CASE Stop
  BY <1>1, <1>10 DEF Stop, StreamInv, SenderOnce
<1>11. CASE Alert \/ TakeAlert \/ LogEntry \/ Start \/ UNCHANGED vars
  BY <1>2, <1>11 DEF Alert, TakeAlert, LogEntry, Start, vars, notLoop, streamVars
<1>12. CASE Diagnosed
  BY <1>2, <1>12 DEF Diagnosed
<1>13. CASE Syncer
  BY <1>2, <1>13 DEF Syncer, StartScan, StartGone, EndScan, StatFile, PushFile, CheckGone, notSync
<1>14. ASSUME NEW f \in File, Change(f) \/ Delete(f) PROVE StreamInv'
  BY <1>2, <1>14 DEF Change, Delete, streamVars
<1>. QED
  BY <1>3, <1>4, <1>5, <1>6, <1>7, <1>8, <1>9, <1>10, <1>11, <1>12, <1>13, <1>14
  DEF Next, Sender, Handler

LEMMA StreamInit == Init => StreamInv
BY DEF Init, StreamInv, SenderOnce

(* For any streams, the goroutine of an ended stream takes at most one     *)
(* event from the channel the next stream is served from.                  *)
THEOREM TakesOne == Spec => []EndedTakesOne
<1>1. TypeInv /\ StreamInv => EndedTakesOne
  <2>1. ASSUME NEW n, n = 0 \/ n = 1 PROVE n <= 1
    BY <2>1
  <2>. QED
    BY <2>1 DEF StreamInv, SenderOnce, EndedTakesOne
<1>. QED
  BY <1>1, TypeInit, TypeNext, StreamInit, StreamNext, PTL DEF Spec

-----------------------------------------------------------------------------
(* The audit log: a torn last line is paid for by the write that was cut,  *)
(* and while no line is torn the logger's chain value is the last hash.    *)

Suspects == IF torn THEN Tampered \union {Len(lines)} ELSE Tampered
ChainInv ==
  /\ up /\ ~torn => prevHash = IF lines = <<>> THEN 0 ELSE lines[Len(lines)].hash
  /\ Cardinality(Suspects) <= cuts

LEMMA TamperedFinite ==
  LogTypes => /\ IsFiniteSet(Tampered)
              /\ IsFiniteSet(Suspects) /\ Cardinality(Suspects) \in Nat
<1>. SUFFICES ASSUME LogTypes
              PROVE  /\ IsFiniteSet(Tampered)
                     /\ IsFiniteSet(Suspects) /\ Cardinality(Suspects) \in Nat
  OBVIOUS
<1>1. Len(lines) \in Nat
  BY Elements DEF LogTypes
<1>2. Tampered \in SUBSET (1 .. Len(lines))
  BY DEF Tampered
<1>3. IsFiniteSet(Tampered)
  <2>1. IsFiniteSet(1 .. Len(lines))
    BY <1>1, FS_Interval
  <2>. QED
    BY <1>2, <2>1, FS_Subset
<1>4. IsFiniteSet(Tampered \union {Len(lines)})
  BY <1>3, FS_AddElement
<1>5. IsFiniteSet(Suspects)
  BY <1>3, <1>4 DEF Suspects
<1>. QED
  BY <1>3, <1>5, FS_CardinalityType

(* The lines before the last of the written log are judged as they were.   *)
LEMMA TamperedWritten ==
  ASSUME LogTypes, NEW h, NEW p, NEW n \in 1 .. (Len(lines) + 1),
         Written(h, p, n, lines')
  PROVE  Tampered' \subseteq (Tampered \union {n})
<1>1. Len(lines) \in Nat /\ Len(lines') = n
  BY Elements DEF LogTypes, Written
<1>2. ASSUME NEW i \in 1 .. n, i # n, i \in Tampered' PROVE i \in Tampered
  <2>1. i \in 1 .. Len(lines) /\ i \in 1 .. (n - 1) /\ (i # 1 => i - 1 \in 1 .. (n - 1))
    BY <1>1, <1>2
  <2>2. lines'[i] = lines[i] /\ (i # 1 => lines'[i - 1] = lines[i - 1])
    BY <2>1 DEF Written
  <2>. QED
    BY <1>2, <2>1, <2>2 DEF Tampered
<1>3. Tampered' \subseteq 1 .. n
  BY <1>1 DEF Tampered
<1>. QED
  BY <1>2, <1>3

LEMMA LogEntryChain ==
  ASSUME TypeInv, ChainInv, LogEntry
  PROVE  ChainInv'
<1>1. LogTypes /\ Topped /\ (torn => lines # <<>>) /\ LogTypes'
  BY LogEntryTypes DEF TypeInv, TypeOK
<1>2. up /\ up'
  BY DEF LogEntry, notLoop
<1>3. CASE UNCHANGED <<lines, torn, prevHash, cuts>>
  BY <1>2, <1>3 DEF ChainInv, Suspects, Tampered
<1>4. ASSUME NEW h \in {0, Junk, NewHash}, h \in Hash, lines' = Extended(h, prevHash),
             \/ h = NewHash /\ torn' = FALSE /\ prevHash' = NewHash /\ cuts' = cuts
             \/ torn' = TRUE /\ cuts' = cuts + 1 /\ prevHash' = prevHash
      PROVE  ChainInv'
  <2>1. /\ prevHash \in Hash /\ Len(lines) \in Nat /\ cuts \in Nat
        /\ IsFiniteSet(Suspects) /\ Cardinality(Suspects) \in Nat
        /\ IsFiniteSet(Suspects') /\ Cardinality(Suspects') \in Nat
        /\ Cardinality(Suspects) <= cuts
    <3>1. LogTypes' => (IsFiniteSet(Suspects) /\ Cardinality(Suspects) \in Nat)'
      BY TamperedFinite, PTL
    <3>2. prevHash \in Hash /\ cuts \in Nat /\ Len(lines) \in Nat
      BY <1>1, Elements DEF LogTypes
    <3>. QED
      BY <1>1, <3>1, <3>2, TamperedFinite DEF ChainInv
  <2>. DEFINE n == IF torn THEN Len(lines) ELSE Len(lines) + 1
  <2>2. /\ n \in 1 .. (Len(lines) + 1) /\ Written(h, prevHash, n, lines')
        /\ ~torn => lines'[n].glued = FALSE /\ lines'[n].hash = h
    <3>1. CASE torn
      <4>1. Written(h, prevHash, Len(lines), lines')
        BY <1>1, <1>4, <2>1, <3>1, ExtendedTorn
      <4>. QED
        BY <2>1, <3>1, <4>1 DEF Written
    <3>2. CASE ~torn
      <4>1. /\ Written(h, prevHash, Len(lines) + 1, lines')
            /\ lines'[Len(lines) + 1].glued = FALSE /\ lines'[Len(lines) + 1].hash = h
        BY <1>1, <1>4, <2>1, <3>2, ExtendedWhole
      <4>. QED
        BY <2>1, <3>2, <4>1
    <3>. QED
      BY <3>1, <3>2
  <2>. HIDE DEF n
  <2>3. Len(lines') = n /\ n \in Nat \ {0} /\ lines'[n].prev = prevHash
        /\ (h # 0 => lines'[n].hash = h)
    BY <2>2 DEF Written
  <2>4. Tampered' \subseteq (Tampered \union {n})
    BY <1>1, <2>2, TamperedWritten
  <2>5. CASE h = NewHash /\ torn' = FALSE /\ prevHash' = NewHash /\ cuts' = cuts
    <3>1. NewHash # 0 /\ NewHash # Junk
      BY <1>1, NewHashType DEF Junk
    <3>2. lines'[Len(lines')].hash = prevHash' /\ lines' # <<>>
      <4>1. lines' # <<>>
        BY <2>3
      <4>. QED
        BY <2>3, <2>5, <3>1, <4>1
    <3>3. Suspects' \in SUBSET Suspects
      <4>1. Suspects' = Tampered'
        BY <2>5 DEF Suspects
      <4>2. CASE torn
        BY <2>4, <4>1, <4>2 DEF Suspects, n
      <4>3. CASE ~torn
        <5>1. n = Len(lines) + 1
          BY <4>3 DEF n
        <5>2. lines'[n].prev = (IF n = 1 THEN 0 ELSE lines'[n - 1].hash)
          <6>1. prevHash = IF lines = <<>> THEN 0 ELSE lines[Len(lines)].hash
            BY <1>2, <4>3 DEF ChainInv
          <6>2. lines = <<>> <=> Len(lines) = 0
            BY <1>1 DEF LogTypes
          <6>3. n # 1 => lines'[Len(lines)] = lines[Len(lines)]
            BY <2>1, <2>2, <5>1 DEF Written
          <6>4. n - 1 = Len(lines) /\ (n = 1 <=> Len(lines) = 0)
            BY <2>1, <5>1
          <6>. QED
            BY <2>3, <6>1, <6>2, <6>3, <6>4
        <5>3. n \notin Tampered'
          BY <2>2, <2>3, <2>5, <3>1, <4>3, <5>2 DEF Tampered
        <5>. QED
          BY <2>4, <4>1, <4>3, <5>3 DEF Suspects
      <4>. QED
        BY <4>2, <4>3
    <3>4. Cardinality(Suspects') <= Cardinality(Suspects)
      BY <2>1, <3>3, FS_Subset
    <3>5. Cardinality(Suspects') <= cuts'
      BY <2>1, <2>5, <3>4
    <3>. QED
      BY <3>2, <3>5 DEF ChainInv
  <2>6. CASE torn' = TRUE /\ cuts' = cuts + 1 /\ prevHash' = prevHash
    <3>1. Suspects' \in SUBSET (Suspects \union {n})
      BY <2>3, <2>4, <2>6 DEF Suspects
    <3>2. IsFiniteSet(Suspects \union {n})
          /\ Cardinality(Suspects \union {n}) <= Cardinality(Suspects) + 1
          /\ Cardinality(Suspects \union {n}) \in Nat
      <4>1. CASE n \in Suspects
        <5>. DEFINE T == Suspects \union {n}  c == Cardinality(Suspects)
        <5>1. T = Suspects
          BY <4>1
        <5>2. c \in Nat /\ c <= c + 1
          BY <2>1
        <5>. HIDE DEF T
        <5>3. IsFiniteSet(T) /\ Cardinality(T) = c
          BY <2>1, <5>1
        <5>. HIDE DEF c
        <5>. QED
          BY <5>2, <5>3 DEF T, c
      <4>2. CASE n \notin Suspects
        <5>1. /\ IsFiniteSet(Suspects \union {n})
              /\ Cardinality(Suspects \union {n}) = Cardinality(Suspects) + 1
          BY <2>1, <4>2, FS_AddElement
        <5>. QED
          BY <2>1, <5>1
      <4>. QED
        BY <4>1, <4>2
    <3>3. Cardinality(Suspects') <= Cardinality(Suspects \union {n})
      BY <3>1, <3>2, FS_Subset
    <3>4. Cardinality(Suspects') <= cuts'
      BY <2>1, <2>6, <3>2, <3>3
    <3>. QED
      BY <2>6, <3>4 DEF ChainInv
  <2>. QED
    BY <1>4, <2>5, <2>6
<1>. QED
  BY <1>1, <1>3, <1>4, LogEntryCases

LEMMA ChainNext == TypeInv /\ ChainInv /\ [Next]_vars => ChainInv'
<1>. SUFFICES ASSUME TypeInv, ChainInv, [Next]_vars PROVE ChainInv'
  OBVIOUS
<1>1. CASE UNCHANGED <<up, lines, torn, prevHash, cuts>>
  BY <1>1 DEF ChainInv, Suspects, Tampered
<1>2. CASE LogEntry
  BY <1>2, LogEntryChain
<1>3. CASE Stop \/ Start
  <2>1. UNCHANGED <<lines, torn, cuts>>
    BY <1>3 DEF Stop, Start
  <2>2. Suspects' = Suspects
    BY <2>1 DEF Suspects, Tampered
  <2>3. Cardinality(Suspects') <= cuts'
    BY <2>1, <2>2 DEF ChainInv
  <2>4. up' => prevHash' = (IF lines = <<>> THEN 0 ELSE lines[Len(lines)].hash)
    BY <1>3 DEF Stop, Start
  <2>. QED
    BY <2>1, <2>3, <2>4 DEF ChainInv
<1>4. ASSUME NEW s \in Stream,
             OpenStream(s) \/ CutStream(s) \/ EndStream(s) \/ Sender(s)
      PROVE  ChainInv'
  BY <1>1, <1>4 DEF OpenStream, CutStream, EndStream, Sender, TakeEvent, QuitSender, SendEvent,
     SendFails, notStreams, logVars
<1>5. CASE Alert \/ TakeAlert \/ UNCHANGED vars
  BY <1>1, <1>5 DEF Alert, TakeAlert, vars, notLoop, logVars
<1>6. CASE Diagnosed
  BY <1>1, <1>6 DEF Diagnosed, logVars
<1>7. CASE Syncer
  BY <1>1, <1>7 DEF Syncer, StartScan, StartGone, EndScan, StatFile, PushFile, CheckGone,
     notSync, logVars
<1>8. ASSUME NEW f \in File, Change(f) \/ Delete(f) PROVE ChainInv'
  BY <1>1, <1>8 DEF Change, Delete, logVars
<1>. QED
  BY <1>2, <1>3, <1>4, <1>5, <1>6, <1>7, <1>8 DEF Next, Handler

LEMMA ChainInit == Init => ChainInv
<1>. SUFFICES ASSUME Init PROVE ChainInv
  OBVIOUS
<1>1. lines = <<>> /\ ~up /\ ~torn /\ cuts = 0
  BY DEF Init
<1>2. Suspects = {}
  BY <1>1 DEF Suspects, Tampered
<1>. QED
  BY <1>1, <1>2, FS_EmptySet DEF ChainInv

(* However often the process is restarted, verifyLines reports no more     *)
(* lines than writes of the audit log were cut short.                      *)
THEOREM DamageLocal == Spec => []DamageStaysLocal
<1>1. TypeInv /\ ChainInv => DamageStaysLocal
  <2>. SUFFICES ASSUME TypeInv, ChainInv PROVE DamageStaysLocal
    OBVIOUS
  <2>1. LogTypes
    BY DEF TypeInv, TypeOK
  <2>2. Tampered \in SUBSET Suspects
    BY DEF Suspects
  <2>3. IsFiniteSet(Suspects) /\ IsFiniteSet(Tampered) /\ Cardinality(Suspects) \in Nat
    BY <2>1, TamperedFinite
  <2>4. Cardinality(Tampered) <= Cardinality(Suspects) /\ Cardinality(Tampered) \in Nat
    BY <2>2, <2>3, FS_Subset, FS_CardinalityType
  <2>5. cuts \in Nat /\ Cardinality(Suspects) <= cuts
    BY <2>1 DEF LogTypes, ChainInv
  <2>6. Cardinality(Tampered) <= cuts
    BY <2>3, <2>4, <2>5
  <2>. QED
    BY <2>6 DEF DamageStaysLocal
<1>. QED
  BY <1>1, TypeInit, TypeNext, ChainInit, ChainNext, PTL DEF Spec

-----------------------------------------------------------------------------
(* What the Overlord is going to believe of a file: the text of the newest *)
(* event in the channel, else of the one an open stream's sender holds,    *)
(* else what it was told; nothing is said while a stream that is lost      *)
(* still holds one, or when the newest was taken while another was held.   *)

NoneQueued(f) == \A i \in 1 .. Len(outEvents) : ~Updates(outEvents[i], f)
NewestQueued(f, i) == /\ Updates(outEvents[i], f)
                      /\ \A j \in (i + 1) .. Len(outEvents) : ~Updates(outEvents[j], f)

NewestIs(f, t) ==
  /\ \A i \in 1 .. Len(outEvents) : NewestQueued(f, i) => outEvents[i].text = t
  /\ NoneQueued(f) /\ ~crossed[f] /\ (\A s \in Stream : Holds(s, f) => conn[s] = "open") =>
       /\ \A s \in Stream : Holds(s, f) => held[s].text = t
       /\ (\A s \in Stream : ~Holds(s, f)) => told[f] = t

UpToDate(f) ==
  lastSync[f] # 0 /\ file[f] # Absent /\ file[f].time <= lastSync[f] /\ ~blurred[f]
    => NewestIs(f, file[f].text)

(* Unless one was taken while another was held, one open stream at most    *)
(* holds an event about the file.                                          *)
OneHolder(f) ==
  ~crossed[f] => \A r, s \in Stream :
    (conn[r] = "open" /\ Holds(r, f) /\ conn[s] = "open" /\ Holds(s, f)) => r = s
HolderInv == \A f \in File : OneHolder(f)

TimesInv ==
  /\ read # None => read.time \in 1 .. texts
  /\ \A f \in File : lastSync[f] \in 0 .. texts
  /\ \A f \in File : file[f] # Absent => file[f].time \in 1 .. texts

SyncInv == \A f \in File : missed[f] \/ UpToDate(f)

(* A version of a file that the scan has no more reason to report is known *)
(* to the Overlord once no event about the file is on its way, unless the  *)
(* last event about it was lost or overtaken, or two versions of it bear   *)
(* the same time.  Deletions are no part of it: no update's key is sent.   *)
Settled(f) == /\ NoneQueued(f) /\ \A s \in Stream : ~Holds(s, f)
              /\ file[f] # Absent /\ file[f].time <= lastSync[f]
NothingForgotten ==
  \A f \in File : Settled(f) => \/ told[f] = file[f].text
                               \/ missed[f] \/ crossed[f] \/ blurred[f]

LEMMA HolderNext == TypeInv /\ StreamInv /\ HolderInv /\ [Next]_vars => HolderInv'
<1>. SUFFICES ASSUME TypeInv, StreamInv, HolderInv, [Next]_vars PROVE HolderInv'
  OBVIOUS
<1>1. /\ conn \in [Stream -> {"closed", "open", "cut", "ended"}]
      /\ sender \in [Stream -> {"none", "waiting", "holding", "gone"}]
      /\ held \in [Stream -> Event]
  BY DEF TypeInv, TypeOK, StreamTypes
<1>2. ASSUME UNCHANGED crossed,
             \A r \in Stream : \A f \in File :
               conn'[r] = "open" /\ Holds(r, f)' => conn[r] = "open" /\ Holds(r, f)
      PROVE  HolderInv'
  BY <1>2 DEF HolderInv, OneHolder
<1>3. ASSUME UNCHANGED <<crossed, conn, sender, held>> PROVE HolderInv'
  BY <1>2, <1>3 DEF Holds, Updates
<1>4. ASSUME NEW s \in Stream, OpenStream(s) PROVE HolderInv'
  <2>1. sender[s] = "none"
    BY <1>4 DEF OpenStream, StreamInv, SenderOnce
  <2>. QED
    BY <1>1, <1>2, <1>4, <2>1 DEF OpenStream, Holds, Updates
<1>5. ASSUME NEW s \in Stream, CutStream(s) \/ EndStream(s) \/ QuitSender(s) PROVE HolderInv'
  BY <1>1, <1>2, <1>5 DEF CutStream, EndStream, QuitSender, Holds, Updates
<1>6. ASSUME NEW s \in Stream, TakeEvent(s) PROVE HolderInv'
  <2>. DEFINE e == Head(outEvents)
  <2>1. /\ crossed' = [f \in File |->
                         IF Updates(e, f)
                           THEN \E r \in Stream : conn[r] = "open" /\ Holds(r, f)
                           ELSE crossed[f]]
        /\ conn' = conn /\ sender[s] = "waiting"
        /\ sender' = [sender EXCEPT ![s] = "holding"] /\ held' = [held EXCEPT ![s] = e]
    BY <1>6 DEF TakeEvent
  <2>. HIDE DEF e
  <2>2. ASSUME NEW f \in File, NEW r \in Stream, Holds(r, f)'
        PROVE  IF r = s THEN Updates(e, f) ELSE Holds(r, f)
    BY <1>1, <2>1, <2>2 DEF Holds, Updates
  <2>3. ASSUME NEW f \in File PROVE OneHolder(f)'
    <3>1. CASE Updates(e, f)
      <4>1. crossed'[f] <=> \E r \in Stream : conn[r] = "open" /\ Holds(r, f)
        BY <2>1, <3>1
      <4>. QED
        BY <2>1, <2>2, <4>1 DEF OneHolder
    <3>2. CASE ~Updates(e, f)
      <4>1. crossed'[f] <=> crossed[f]
        BY <2>1, <3>2
      <4>. QED
        BY <2>1, <2>2, <3>2, <4>1 DEF HolderInv, OneHolder
    <3>. QED
      BY <3>1, <3>2
  <2>. QED
    BY <2>3 DEF HolderInv
<1>7. ASSUME NEW s \in Stream, SendEvent(s) \/ SendFails(s) PROVE HolderInv'
  <2>1. /\ UNCHANGED <<crossed, conn>> /\ sender'[s] # "holding"
        /\ \A r \in Stream : r # s => sender'[r] = sender[r] /\ held'[r] = held[r]
    BY <1>1, <1>7 DEF SendEvent, SendFails
  <2>. QED
    BY <1>2, <2>1 DEF Holds, Updates
<1>8. CASE Stop
  BY <1>1, <1>8 DEF Stop, HolderInv, OneHolder, Holds
<1>9. CASE Alert \/ TakeAlert \/ LogEntry \/ Start \/ UNCHANGED vars
  BY <1>3, <1>9 DEF Alert, TakeAlert, LogEntry, Start, vars, notLoop, streamVars
<1>10. CASE Diagnosed
  BY <1>3, <1>10 DEF Diagnosed
<1>11. CASE Syncer
  BY <1>3, <1>11 DEF Syncer, StartScan, StartGone, EndScan, StatFile, PushFile, CheckGone, notSync
<1>12. ASSUME NEW f \in File, Change(f) \/ Delete(f) PROVE HolderInv'
  BY <1>3, <1>12 DEF Change, Delete, streamVars
<1>. QED
  BY <1>4, <1>5, <1>6, <1>7, <1>8, <1>9, <1>10, <1>11, <1>12 DEF Next, Sender, Handler

LEMMA TimesNext == TypeInv /\ TimesInv /\ [Next]_vars => TimesInv'
<1>. SUFFICES ASSUME TypeInv, TimesInv, [Next]_vars PROVE TimesInv'
  OBVIOUS
<1>1. SyncTypes /\ texts \in Nat
  BY DEF TypeInv, TypeOK, SyncTypes
<1>2. CASE UNCHANGED <<read, lastSync, file, texts>>
  BY <1>2 DEF TimesInv
<1>3. ASSUME NEW s \in Stream,
             OpenStream(s) \/ CutStream(s) \/ EndStream(s) \/ Sender(s)
      PROVE  TimesInv'
  BY <1>2, <1>3 DEF OpenStream, CutStream, EndStream, Sender, TakeEvent, QuitSender, SendEvent,
     SendFails, notStreams, syncVars, fileVars
<1>4. CASE Alert \/ TakeAlert \/ LogEntry \/ UNCHANGED vars
  BY <1>2, <1>4 DEF Alert, TakeAlert, LogEntry, vars, notLoop, syncVars, fileVars
<1>5. CASE Diagnosed \/ Start
  BY <1>2, <1>5 DEF Diagnosed, Start, syncVars, fileVars
<1>6. CASE StartScan \/ StartGone \/ EndScan
  BY <1>2, <1>6 DEF StartScan, StartGone, EndScan, notSync, fileVars
<1>7. ASSUME NEW f \in File, StatFile(f) PROVE TimesInv'
  <2>1. UNCHANGED <<lastSync, file, texts>>
    BY <1>7 DEF StatFile, notSync, fileVars
  <2>2. read' # None => read'.time \in 1 .. texts
    BY <1>7 DEF StatFile, TimesInv
  <2>. QED
    BY <2>1, <2>2 DEF TimesInv
<1>8. ASSUME NEW f \in File, PushFile(f) PROVE TimesInv'
  <2>1. read' = None /\ UNCHANGED <<file, texts>>
    BY <1>8 DEF PushFile, notSync, fileVars
  <2>2. read.time \in 1 .. texts
    <3>1. read # None
      <4>1. None.path = "none"
        BY DEF None
      <4>. QED
        BY <1>8, <4>1, PathAssumption DEF PushFile
    <3>. QED
      BY <3>1 DEF TimesInv
  <2>3. lastSync' = lastSync \/ lastSync' = [lastSync EXCEPT ![f] = read.time]
    BY <1>8 DEF PushFile
  <2>4. lastSync \in [File -> Nat] /\ read.time \in 0 .. texts
    BY <1>1, <2>2 DEF SyncTypes
  <2>5. \A g \in File : lastSync'[g] \in 0 .. texts
    BY <2>3, <2>4 DEF TimesInv
  <2>. QED
    BY <2>1, <2>5 DEF TimesInv
<1>9. ASSUME NEW f \in File, CheckGone(f) PROVE TimesInv'
  <2>1. UNCHANGED <<read, file, texts>>
    BY <1>9 DEF CheckGone, notSync, fileVars
  <2>2. lastSync' = lastSync \/ lastSync' = [lastSync EXCEPT ![f] = 0]
    BY <1>9 DEF CheckGone
  <2>3. lastSync \in [File -> Nat] /\ 0 \in 0 .. texts
    BY <1>1 DEF SyncTypes
  <2>4. \A g \in File : lastSync'[g] \in 0 .. texts
    BY <2>2, <2>3 DEF TimesInv
  <2>. QED
    BY <2>1, <2>4 DEF TimesInv
<1>10. ASSUME NEW f \in File, Change(f) PROVE TimesInv'
  <2>1. texts' = texts + 1 /\ UNCHANGED <<read, lastSync>>
    BY <1>10 DEF Change, syncVars
  <2>2. \A n \in 0 .. texts : n \in 0 .. texts'
    BY <1>1, <2>1
  <2>3. \A n \in 1 .. texts : n \in 1 .. texts'
    BY <1>1, <2>1
  <2>4. texts' \in 1 .. texts'
    BY <1>1, <2>1
  <2>5. PICK same \in BOOLEAN :
          /\ same => file[f] # Absent
          /\ file' = [file EXCEPT ![f] =
                        [time |-> IF same THEN @.time ELSE texts', text |-> texts']]
    BY <1>10 DEF Change
  <2>6. file \in [File -> [time : Nat, text : Nat]]
    BY <1>1 DEF SyncTypes
  <2>7. file'[f].time \in 1 .. texts' /\ \A g \in File : g # f => file'[g] = file[g]
    BY <2>3, <2>4, <2>5, <2>6 DEF TimesInv
  <2>8. \A g \in File : file'[g] # Absent => file'[g].time \in 1 .. texts'
    BY <2>3, <2>7 DEF TimesInv
  <2>. QED
    BY <2>1, <2>2, <2>3, <2>8 DEF TimesInv
<1>11. ASSUME NEW f \in File, Delete(f) PROVE TimesInv'
  <2>1. UNCHANGED <<read, lastSync, texts>> /\ file' = [file EXCEPT ![f] = Absent]
    BY <1>11 DEF Delete, syncVars
  <2>2. file \in [File -> [time : Nat, text : Nat]]
    BY <1>1 DEF SyncTypes
  <2>3. \A g \in File : file'[g] = Absent \/ file'[g] = file[g]
    BY <2>1, <2>2
  <2>. QED
    BY <2>1, <2>3 DEF TimesInv
<1>12. CASE Stop
  <2>1. read' = None /\ UNCHANGED <<file, texts>> /\ \A f \in File : lastSync'[f] = 0
    BY <1>12 DEF Stop, fileVars
  <2>2. 0 \in 0 .. texts
    BY <1>1
  <2>. QED
    BY <2>1, <2>2 DEF TimesInv
<1>. QED
  BY <1>3, <1>4, <1>5, <1>6, <1>7, <1>8, <1>9, <1>10, <1>11, <1>12 DEF Next, Handler, Syncer

(* A queued event is newest until a newer one follows it.                  *)
LEMMA NewestPushed ==
  ASSUME StreamTypes, NEW e \in Event, NEW f \in File, NEW t,
         outEvents' = Append(outEvents, e), UNCHANGED <<conn, sender, held, told, crossed>>,
         IF Updates(e, f) THEN e.text = t ELSE NewestIs(f, t)
  PROVE  NewestIs(f, t)'
<1>1. outEvents \in Seq(Event) /\ Len(outEvents) \in Nat
  BY DEF StreamTypes
<1>. DEFINE n == Len(outEvents)
<1>2. /\ Len(outEvents') = n + 1 /\ outEvents'[n + 1] = e
      /\ \A i \in 1 .. n : outEvents'[i] = outEvents[i]
  BY <1>1
<1>3. n \in Nat
  BY <1>1
<1>. HIDE DEF n
<1>4. /\ \A i \in 1 .. (n + 1) : i = n + 1 \/ (i \in 1 .. n /\ n + 1 \in (i + 1) .. (n + 1))
      /\ 1 .. n \subseteq 1 .. (n + 1) /\ n + 1 \in 1 .. (n + 1)
  BY <1>3
<1>5. CASE Updates(e, f)
  <2>1. \A i \in 1 .. (n + 1) : NewestQueued(f, i)' => i = n + 1
    BY <1>2, <1>4, <1>5 DEF NewestQueued, Updates
  <2>2. ~NoneQueued(f)'
    BY <1>2, <1>4, <1>5 DEF NoneQueued, Updates
  <2>. QED
    BY <1>2, <1>5, <2>1, <2>2 DEF NewestIs
<1>6. CASE ~Updates(e, f)
  <2>1. ASSUME NEW i \in 1 .. (n + 1), NewestQueued(f, i)'
        PROVE  i \in 1 .. n /\ NewestQueued(f, i)
    <3>1. i \in 1 .. n
      BY <1>2, <1>4, <1>6, <2>1 DEF NewestQueued, Updates
    <3>2. \A j \in (i + 1) .. n : j \in 1 .. n /\ j \in (i + 1) .. (n + 1)
      BY <1>3, <3>1
    <3>. QED
      BY <1>2, <2>1, <3>1, <3>2 DEF NewestQueued, Updates, n
  <2>2. NoneQueued(f)' => NoneQueued(f)
    BY <1>2, <1>4 DEF NoneQueued, Updates, n
  <2>3. \A s \in Stream : Holds(s, f)' <=> Holds(s, f)
    BY DEF Holds, Updates
  <2>4. \A i \in 1 .. n : NewestQueued(f, i) => outEvents[i].text = t
    BY <1>6 DEF NewestIs, n
  <2>. QED
    BY <1>2, <1>6, <2>1, <2>2, <2>3, <2>4 DEF NewestIs
<1>. QED
  BY <1>5, <1>6

LEMMA NewestTaken ==
  ASSUME StreamTypes, NEW s \in Stream, TakeEvent(s), NEW f \in File, NEW t,
         NewestIs(f, t)
  PROVE  NewestIs(f, t)'
<1>1. /\ outEvents \in Seq(Event) /\ outEvents # <<>> /\ Len(outEvents) \in Nat
      /\ sender \in [Stream -> {"none", "waiting", "holding", "gone"}]
      /\ held \in [Stream -> Event]
  BY DEF StreamTypes, TakeEvent
<1>2. /\ outEvents' = Tail(outEvents) /\ UNCHANGED <<conn, told>>
      /\ sender[s] = "waiting" /\ sender' = [sender EXCEPT ![s] = "holding"]
      /\ held' = [held EXCEPT ![s] = outEvents[1]]
      /\ crossed'[f] <=> IF Updates(outEvents[1], f)
                           THEN \E r \in Stream : conn[r] = "open" /\ Holds(r, f)
                           ELSE crossed[f]
  <2>1. Head(outEvents) = outEvents[1]
    BY <1>1
  <2>. QED
    BY <2>1 DEF TakeEvent
<1>. DEFINE n == Len(outEvents)
<1>3. n \in Nat \ {0}
  BY <1>1
<1>4. Len(outEvents') = n - 1 /\ \A i \in 1 .. (n - 1) : outEvents'[i] = outEvents[i + 1]
  BY <1>1, <1>2
<1>. HIDE DEF n
<1>5. /\ \A i \in 1 .. (n - 1) : i + 1 \in 1 .. n
      /\ \A i \in 1 .. n : i = 1 \/ i - 1 \in 1 .. (n - 1)
      /\ 1 \in 1 .. n
  BY <1>3
<1>6. ASSUME NEW i \in 1 .. (n - 1), NewestQueued(f, i)'
      PROVE  NewestQueued(f, i + 1)
  <2>1. ASSUME NEW j \in ((i + 1) + 1) .. n PROVE ~Updates(outEvents[j], f)
    <3>1. j - 1 \in (i + 1) .. (n - 1) /\ j - 1 \in 1 .. (n - 1) /\ (j - 1) + 1 = j
      BY <1>3, <2>1
    <3>2. ~Updates(outEvents'[j - 1], f)
      BY <1>4, <1>6, <3>1 DEF NewestQueued, Updates
    <3>. QED
      BY <1>4, <3>1, <3>2
  <2>. QED
    BY <1>4, <1>6, <2>1 DEF NewestQueued, Updates, n
<1>7. \A i \in 1 .. (n - 1) : NewestQueued(f, i)' => outEvents'[i].text = t
  <2>1. \A i \in 1 .. n : NewestQueued(f, i) => outEvents[i].text = t
    BY DEF NewestIs, n
  <2>. QED
    BY <1>4, <1>5, <1>6, <2>1
<1>8. \A r \in Stream : r # s => (Holds(r, f)' <=> Holds(r, f)) /\ held'[r] = held[r]
  BY <1>1, <1>2 DEF Holds, Updates
<1>9. ~Holds(s, f) /\ (Holds(s, f)' <=> Updates(outEvents[1], f)) /\ held'[s] = outEvents[1]
  BY <1>1, <1>2 DEF Holds, Updates
<1>10. ASSUME NoneQueued(f)', ~crossed'[f], \A r \in Stream : Holds(r, f)' => conn[r] = "open"
       PROVE  /\ \A r \in Stream : Holds(r, f)' => held'[r].text = t
              /\ (\A r \in Stream : ~Holds(r, f)') => told[f] = t
  <2>1. \A i \in 1 .. (n - 1) : ~Updates(outEvents[i + 1], f)
    BY <1>4, <1>10 DEF NoneQueued, Updates
  <2>2. ASSUME NEW i \in 1 .. n, i # 1 PROVE ~Updates(outEvents[i], f)
    <3>1. i - 1 \in 1 .. (n - 1) /\ (i - 1) + 1 = i
      BY <1>3, <2>2
    <3>. QED
      BY <2>1, <3>1
  <2>3. CASE Updates(outEvents[1], f)
    <3>1. NewestQueued(f, 1)
      <4>1. \A j \in (1 + 1) .. n : j \in 1 .. n /\ j # 1
        BY <1>3
      <4>. QED
        BY <2>2, <2>3, <4>1 DEF NewestQueued, n
    <3>2. outEvents[1].text = t
      BY <1>5, <3>1 DEF NewestIs, n
    <3>3. \A r \in Stream : Holds(r, f)' => r = s
      BY <1>2, <1>8, <1>10, <2>3
    <3>. QED
      BY <1>9, <2>3, <3>2, <3>3
  <2>4. CASE ~Updates(outEvents[1], f)
    <3>1. NoneQueued(f)
      BY <2>2, <2>4 DEF NoneQueued, n
    <3>2. \A r \in Stream : Holds(r, f) => conn[r] = "open"
      BY <1>8, <1>9, <1>10
    <3>. QED
      BY <1>2, <1>8, <1>9, <1>10, <2>4, <3>1, <3>2 DEF NewestIs
  <2>. QED
    BY <2>3, <2>4
<1>. QED
  BY <1>2, <1>4, <1>7, <1>10 DEF NewestIs

(* The end of a stream, or the opening of one whose sender holds nothing.  *)
LEMMA NewestSwitched ==
  ASSUME NEW f \in File, NEW t, NewestIs(f, t), UNCHANGED <<outEvents, held, told, crossed>>,
         \A s \in Stream : Holds(s, f)' <=> Holds(s, f),
         \A s \in Stream : Holds(s, f) /\ conn'[s] = "open" => conn[s] = "open"
  PROVE  NewestIs(f, t)'
<1>1. \A i \in 1 .. Len(outEvents) : NewestQueued(f, i)' = NewestQueued(f, i)
  BY DEF NewestQueued, Updates
<1>2. NoneQueued(f)' = NoneQueued(f)
  BY DEF NoneQueued, Updates
<1>. QED
  BY <1>1, <1>2 DEF NewestIs

(* A send: the open stream tells the Overlord, another loses the event.    *)
LEMMA NewestSent ==
  ASSUME StreamTypes, HolderInv, NEW s \in Stream, SendEvent(s) \/ SendFails(s),
         NEW f \in File, NEW t, NewestIs(f, t), ~missed'[f]
  PROVE  NewestIs(f, t)'
<1>1. /\ sender \in [Stream -> {"none", "waiting", "holding", "gone"}]
      /\ held \in [Stream -> Event] /\ missed \in [File -> BOOLEAN]
      /\ told \in [File -> Nat]
  BY DEF StreamTypes
<1>2. /\ UNCHANGED <<outEvents, conn, crossed>> /\ sender[s] = "holding"
      /\ sender'[s] # "holding" /\ \A r \in Stream : r # s => sender'[r] = sender[r]
      /\ \A r \in Stream : r # s => held'[r] = held[r]
  BY <1>1 DEF SendEvent, SendFails
<1>3. /\ \A r \in Stream : r # s => (Holds(r, f)' <=> Holds(r, f))
      /\ ~Holds(s, f)'
  BY <1>2 DEF Holds, Updates
<1>4. /\ \A i \in 1 .. Len(outEvents) : NewestQueued(f, i)' = NewestQueued(f, i)
      /\ NoneQueued(f)' = NoneQueued(f)
  BY <1>2 DEF NewestQueued, NoneQueued, Updates
<1>6. CASE SendEvent(s) /\ conn[s] = "open"
  <2>1. told' = [g \in File |-> IF Updates(held[s], g) THEN held[s].text ELSE told[g]]
    BY <1>6 DEF SendEvent
  <2>2. told'[f] = IF Updates(held[s], f) THEN held[s].text ELSE told[f]
    BY <2>1
  <2>3. CASE Holds(s, f)
    <3>1. ASSUME NoneQueued(f), ~crossed[f], \A r \in Stream : Holds(r, f)' => conn[r] = "open"
          PROVE  /\ \A r \in Stream : ~Holds(r, f)'
                 /\ told'[f] = t
      <4>1. \A r \in Stream : Holds(r, f) => conn[r] = "open"
        BY <1>3, <1>6, <3>1
      <4>2. \A r \in Stream : Holds(r, f) => r = s
        BY <1>6, <2>3, <3>1, <4>1 DEF HolderInv, OneHolder
      <4>3. held[s].text = t
        BY <2>3, <3>1, <4>1 DEF NewestIs
      <4>. QED
        BY <1>3, <2>2, <2>3, <4>2, <4>3 DEF Holds
    <3>. QED
      BY <1>2, <1>4, <3>1 DEF NewestIs
  <2>4. CASE ~Holds(s, f)
    <3>1. told'[f] = told[f]
      BY <1>2, <2>2, <2>4 DEF Holds
    <3>2. \A r \in Stream : (Holds(r, f)' <=> Holds(r, f)) /\ (Holds(r, f) => held'[r] = held[r])
      BY <1>2, <1>3, <2>4
    <3>. QED
      BY <1>2, <1>4, <3>1, <3>2 DEF NewestIs
  <2>. QED
    BY <2>3, <2>4
<1>7. CASE Lose(held[s]) /\ told' = told
  <2>1. ~Holds(s, f)
    <3>1. ASSUME Updates(held[s], f) PROVE missed'[f]
      BY <1>7, <3>1 DEF Lose
    <3>. QED
      BY <3>1 DEF Holds
  <2>2. \A r \in Stream : (Holds(r, f)' <=> Holds(r, f)) /\ (Holds(r, f) => held'[r] = held[r])
    BY <1>2, <1>3, <2>1
  <2>. QED
    BY <1>2, <1>4, <1>7, <2>2 DEF NewestIs
<1>. QED
  BY <1>6, <1>7 DEF SendEvent, SendFails

LEMMA NewestSame ==
  ASSUME NEW f \in File, NEW t, NewestIs(f, t), UNCHANGED streamVars
  PROVE  NewestIs(f, t)'
BY DEF NewestIs, NewestQueued, NoneQueued, Holds, Updates, streamVars

(* A file nobody writes about stays up to date while the streams go on.    *)
LEMMA StaysUpToDate ==
  ASSUME NEW f \in File, UNCHANGED <<lastSync, file, blurred>>,
         missed[f] => missed'[f], missed[f] \/ UpToDate(f),
         \A t : ~missed'[f] /\ NewestIs(f, t) => NewestIs(f, t)'
  PROVE  missed'[f] \/ UpToDate(f)'
BY DEF UpToDate

(* A push about f makes its text the newest, and leaves the other files    *)
(* alone; a full channel drops it.                                         *)
LEMMA PushedNewest ==
  ASSUME StreamTypes, NEW e \in Event, Push(e), UNCHANGED <<conn, sender, held, told, crossed>>
  PROVE  \A f \in File :
           IF Updates(e, f)
             THEN missed'[f] \/ NewestIs(f, e.text)'
             ELSE /\ missed'[f] = missed[f]
                  /\ \A t : NewestIs(f, t) => NewestIs(f, t)'
<1>. TAKE f \in File
<1>1. missed \in [File -> BOOLEAN]
  BY DEF StreamTypes
<1>2. CASE Len(outEvents) < OutCap
  <2>1. outEvents' = Append(outEvents, e)
    BY <1>2 DEF Push
  <2>2. CASE Updates(e, f)
    <3>1. NewestIs(f, e.text)'
      BY <2>1, <2>2, NewestPushed
    <3>. QED
      BY <2>2, <3>1
  <2>3. CASE ~Updates(e, f)
    <3>1. missed'[f] = missed[f]
      BY <1>2, <2>3 DEF Push
    <3>2. ASSUME NEW t, NewestIs(f, t) PROVE NewestIs(f, t)'
      BY <2>1, <2>3, <3>2, NewestPushed
    <3>. QED
      BY <2>3, <3>1, <3>2
  <2>. QED
    BY <2>2, <2>3
<1>3. CASE ~(Len(outEvents) < OutCap)
  <2>1. outEvents' = outEvents
        /\ missed' = [g \in File |-> IF Updates(e, g) THEN TRUE ELSE missed[g]]
    BY <1>3 DEF Push
  <2>2. CASE Updates(e, f)
    <3>1. missed'[f]
      BY <1>1, <2>1, <2>2 DEF Updates
    <3>. QED
      BY <2>2, <3>1
  <2>3. CASE ~Updates(e, f)
    <3>1. missed'[f] = missed[f]
      BY <1>1, <2>1, <2>3 DEF Updates
    <3>2. ASSUME NEW t, NewestIs(f, t) PROVE NewestIs(f, t)'
      BY <2>1, <3>2 DEF NewestIs, NewestQueued, NoneQueued, Holds, Updates
    <3>. QED
      BY <2>3, <3>1, <3>2
  <2>. QED
    BY <2>2, <2>3
<1>. QED
  BY <1>2, <1>3

LEMMA SyncNext ==
  TypeInv /\ StreamInv /\ HolderInv /\ TimesInv /\ SyncInv /\ [Next]_vars => SyncInv'
<1>. SUFFICES ASSUME TypeInv, StreamInv, HolderInv, TimesInv, SyncInv, [Next]_vars
              PROVE  SyncInv'
  OBVIOUS
<1>1. StreamTypes /\ SyncTypes
  BY DEF TypeInv, TypeOK
<1>2. /\ missed \in [File -> BOOLEAN] /\ held \in [Stream -> Event]
      /\ sender \in [Stream -> {"none", "waiting", "holding", "gone"}]
      /\ conn \in [Stream -> {"closed", "open", "cut", "ended"}]
      /\ lastSync \in [File -> Nat] /\ texts \in Nat
      /\ file \in [File -> [time : Nat, text : Nat]]
  BY <1>1 DEF StreamTypes, SyncTypes
<1>3. ASSUME UNCHANGED <<lastSync, file, blurred, missed, streamVars>> PROVE SyncInv'
  BY <1>3, NewestSame DEF SyncInv, UpToDate
<1>4. ASSUME UNCHANGED <<lastSync, file, blurred, missed, outEvents, held, told, crossed>>,
             \A r \in Stream : sender'[r] = "holding" <=> sender[r] = "holding",
             \A r \in Stream : sender[r] = "holding" /\ conn'[r] = "open" => conn[r] = "open"
      PROVE  SyncInv'
  <2>1. ASSUME NEW f \in File, NEW t, NewestIs(f, t) PROVE NewestIs(f, t)'
    <3>1. \A s \in Stream : Holds(s, f)' <=> Holds(s, f)
      BY <1>4 DEF Holds, Updates
    <3>2. \A s \in Stream : Holds(s, f) /\ conn'[s] = "open" => conn[s] = "open"
      BY <1>4 DEF Holds
    <3>. QED
      BY <1>4, <2>1, <3>1, <3>2, NewestSwitched
  <2>. QED
    BY <1>4, <2>1, StaysUpToDate DEF SyncInv
<1>5. ASSUME NEW s \in Stream, OpenStream(s) PROVE SyncInv'
  <2>1. sender[s] = "none"
    BY <1>5 DEF OpenStream, StreamInv, SenderOnce
  <2>. QED
    BY <1>2, <1>4, <1>5, <2>1 DEF OpenStream, notStreams, syncVars, fileVars
<1>6. ASSUME NEW s \in Stream, CutStream(s) \/ EndStream(s) PROVE SyncInv'
  BY <1>2, <1>4, <1>6 DEF CutStream, EndStream, notStreams, syncVars, fileVars
<1>7. ASSUME NEW s \in Stream, QuitSender(s) PROVE SyncInv'
  BY <1>2, <1>4, <1>7 DEF QuitSender, notStreams, syncVars, fileVars
<1>8. ASSUME NEW s \in Stream, TakeEvent(s) PROVE SyncInv'
  <2>1. UNCHANGED <<lastSync, file, blurred, missed>>
    BY <1>8 DEF TakeEvent, notStreams, syncVars, fileVars
  <2>2. ASSUME NEW f \in File, NEW t, NewestIs(f, t) PROVE NewestIs(f, t)'
    BY <1>1, <1>8, <2>2, NewestTaken
  <2>. QED
    BY <2>1, <2>2, StaysUpToDate DEF SyncInv
<1>9. ASSUME NEW s \in Stream, SendEvent(s) \/ SendFails(s) PROVE SyncInv'
  <2>1. UNCHANGED <<lastSync, file, blurred>>
    BY <1>9 DEF SendEvent, SendFails, notStreams, syncVars, fileVars
  <2>2. ASSUME NEW f \in File PROVE missed[f] => missed'[f]
    <3>1. missed' = missed \/ Lose(held[s])
      BY <1>9 DEF SendEvent, SendFails
    <3>. QED
      BY <1>2, <3>1 DEF Lose
  <2>3. ASSUME NEW f \in File, NEW t, ~missed'[f], NewestIs(f, t) PROVE NewestIs(f, t)'
    BY <1>1, <1>9, <2>3, NewestSent
  <2>. QED
    BY <2>1, <2>2, <2>3, StaysUpToDate DEF SyncInv
<1>10. CASE Alert \/ TakeAlert \/ LogEntry \/ UNCHANGED vars
  BY <1>3, <1>10 DEF Alert, TakeAlert, LogEntry, vars, notLoop, syncVars, fileVars
<1>11. CASE Diagnosed
  <2>1. /\ Push(AlertEvent)
        /\ UNCHANGED <<lastSync, file, blurred, conn, sender, held, told, crossed>>
    BY <1>11 DEF Diagnosed, syncVars, fileVars
  <2>2. AlertEvent \in Event /\ \A f \in File : ~Updates(AlertEvent, f)
    BY OtherEvents
  <2>3. \A f \in File : /\ missed'[f] = missed[f]
                        /\ \A t : NewestIs(f, t) => NewestIs(f, t)'
    BY <1>1, <2>1, <2>2, PushedNewest
  <2>. QED
    BY <2>1, <2>3, StaysUpToDate DEF SyncInv
<1>12. CASE Start \/ StartScan \/ StartGone \/ EndScan
  BY <1>3, <1>12 DEF Start, StartScan, StartGone, EndScan, notSync, syncVars, fileVars, streamVars
<1>13. ASSUME NEW f \in File, StatFile(f) PROVE SyncInv'
  BY <1>3, <1>13 DEF StatFile, notSync, fileVars, streamVars
<1>14. ASSUME NEW f \in File, NEW x \in Nat, NEW y \in Nat,
              Push([about |-> f, text |-> x]), lastSync' = [lastSync EXCEPT ![f] = y],
              UNCHANGED <<file, blurred, conn, sender, held, told, crossed>>,
              file[f].text = x
       PROVE  SyncInv'
  <2>. DEFINE e == [about |-> f, text |-> x]
  <2>1. e \in [about : File, text : Nat] /\ e.about = f /\ e.text = x
    OBVIOUS
  <2>2. e \in Event
    BY <2>1 DEF Event
  <2>4. Push(e)
    BY <1>14
  <2>. HIDE DEF e
  <2>5. \A g \in File : Updates(e, g) <=> g = f
    BY <2>1 DEF Updates
  <2>6. missed'[f] \/ NewestIs(f, x)'
    BY <1>1, <1>14, <2>1, <2>2, <2>4, <2>5, PushedNewest
  <2>7. \A g \in File : g # f =>
          missed'[g] = missed[g] /\ \A t : NewestIs(g, t) => NewestIs(g, t)'
    BY <1>1, <1>14, <2>2, <2>4, <2>5, PushedNewest
  <2>8. missed'[f] \/ UpToDate(f)'
    <3>1. lastSync'[f] = y /\ file' = file
      BY <1>2, <1>14
    <3>. QED
      BY <1>14, <2>6, <3>1 DEF UpToDate
  <2>9. ASSUME NEW g \in File, g # f PROVE missed'[g] \/ UpToDate(g)'
    <3>1. lastSync'[g] = lastSync[g] /\ UNCHANGED <<file, blurred>>
      BY <1>2, <1>14, <2>9
    <3>2. missed[g] \/ UpToDate(g)
      BY DEF SyncInv
    <3>. QED
      BY <2>7, <2>9, <3>1, <3>2 DEF UpToDate
  <2>. QED
    BY <2>8, <2>9 DEF SyncInv
<1>15. ASSUME NEW f \in File, PushFile(f) PROVE SyncInv'
  <2>1. UNCHANGED <<file, blurred, conn, sender, held, told, crossed, stolen>>
    BY <1>15 DEF PushFile, notSync, fileVars
  <2>2. CASE file[f] = Absent
    BY <1>3, <1>15, <2>1, <2>2 DEF PushFile, streamVars
  <2>3. CASE file[f] # Absent
    <3>1. read.time \in Nat /\ read.time # 0 /\ file[f].text \in Nat
      <4>1. read # None
        <5>1. None.path = "none"
          BY DEF None
        <5>. QED
          BY <1>15, <5>1, PathAssumption DEF PushFile
      <4>2. read.time \in 1 .. texts
        BY <4>1 DEF TimesInv
      <4>. QED
        BY <1>2, <4>2
    <3>2. /\ Push([about |-> f, text |-> file[f].text])
          /\ lastSync' = [lastSync EXCEPT ![f] = read.time]
      BY <1>15, <2>3 DEF PushFile
    <3>. QED
      BY <1>14, <2>1, <3>1, <3>2
  <2>. QED
    BY <2>2, <2>3
<1>16. ASSUME NEW f \in File, CheckGone(f) PROVE SyncInv'
  <2>1. UNCHANGED <<file, blurred, conn, sender, held, told, crossed, stolen>>
    BY <1>16 DEF CheckGone, notSync, fileVars
  <2>2. CASE file[f] = Absent
    <3>1. /\ Push(GoneEvent)
          /\ lastSync' = [lastSync EXCEPT ![f] = 0]
      BY <1>16, <2>2 DEF CheckGone
    <3>2. GoneEvent \in Event /\ \A g \in File : ~Updates(GoneEvent, g)
      BY OtherEvents
    <3>3. \A g \in File : /\ missed'[g] = missed[g]
                          /\ \A t : NewestIs(g, t) => NewestIs(g, t)'
      BY <1>1, <2>1, <3>1, <3>2, PushedNewest
    <3>4. lastSync'[f] = 0 /\ \A g \in File : g # f => lastSync'[g] = lastSync[g]
      BY <1>2, <3>1
    <3>5. ASSUME NEW g \in File PROVE missed'[g] \/ UpToDate(g)'
      BY <2>1, <3>3, <3>4 DEF SyncInv, UpToDate
    <3>. QED
      BY <3>5 DEF SyncInv
  <2>3. CASE file[f] # Absent
    BY <1>3, <1>16, <2>1, <2>3 DEF CheckGone, streamVars
  <2>. QED
    BY <2>2, <2>3
<1>17. ASSUME NEW f \in File, Change(f) PROVE SyncInv'
  <2>1. UNCHANGED <<streamVars, missed, lastSync>>
    BY <1>17 DEF Change, syncVars
  <2>2. PICK same \in BOOLEAN :
          /\ file' = [file EXCEPT ![f] =
                        [time |-> IF same THEN @.time ELSE texts', text |-> texts']]
          /\ blurred' = [blurred EXCEPT ![f] = same]
    BY <1>17 DEF Change
  <2>3. texts' = texts + 1 /\ blurred \in [File -> BOOLEAN]
    BY <1>1, <1>17 DEF Change, SyncTypes
  <2>4. blurred'[f] \/ ~(file'[f].time <= lastSync'[f])
    <3>1. CASE same
      BY <2>2, <2>3, <3>1
    <3>2. CASE ~same
      <4>1. file'[f].time = texts + 1
        BY <1>2, <2>2, <2>3, <3>2
      <4>2. lastSync'[f] \in 0 .. texts
        BY <2>1 DEF TimesInv
      <4>. QED
        BY <1>2, <4>1, <4>2
    <3>. QED
      BY <3>1, <3>2
  <2>5. \A g \in File : g # f => file'[g] = file[g] /\ blurred'[g] = blurred[g]
    BY <1>2, <2>2, <2>3
  <2>6. \A g \in File : \A t : NewestIs(g, t) => NewestIs(g, t)'
    BY <2>1, NewestSame
  <2>7. \A g \in File : missed'[g] \/ UpToDate(g)'
    BY <2>1, <2>4, <2>5, <2>6 DEF SyncInv, UpToDate
  <2>. QED
    BY <2>7 DEF SyncInv
<1>18. ASSUME NEW f \in File, Delete(f) PROVE SyncInv'
  <2>1. UNCHANGED <<streamVars, missed, lastSync, blurred>>
    BY <1>18 DEF Delete, syncVars
  <2>2. file'[f] = Absent /\ \A g \in File : g # f => file'[g] = file[g]
    BY <1>2, <1>18 DEF Delete
  <2>3. \A g \in File : \A t : NewestIs(g, t) => NewestIs(g, t)'
    BY <2>1, NewestSame
  <2>4. \A g \in File : missed'[g] \/ UpToDate(g)'
    BY <2>1, <2>2, <2>3 DEF SyncInv, UpToDate
  <2>. QED
    BY <2>4 DEF SyncInv
<1>19. CASE Stop
  BY <1>19 DEF Stop, SyncInv
<1>. QED
  BY <1>5, <1>6, <1>7, <1>8, <1>9, <1>10, <1>11, <1>12, <1>13, <1>15, <1>16, <1>17, <1>18,
     <1>19 DEF Next, Sender, Handler, Syncer

LEMMA SyncInit == Init => TimesInv /\ HolderInv /\ SyncInv
<1>. SUFFICES ASSUME Init PROVE TimesInv /\ HolderInv /\ SyncInv
  OBVIOUS
<1>1. TimesInv
  BY DEF Init, TimesInv
<1>2. HolderInv
  BY DEF Init, HolderInv, OneHolder
<1>3. SyncInv
  BY DEF Init, SyncInv, UpToDate
<1>. QED
  BY <1>1, <1>2, <1>3

(* For any files, streams and capacities, through any crashes and lost     *)
(* streams: what the scan has no more reason to report is known, or was    *)
(* lost on the way.                                                        *)
THEOREM NoFileForgotten == Spec => []NothingForgotten
<1>1. TypeInv /\ TimesInv /\ SyncInv => NothingForgotten
  <2>. SUFFICES ASSUME TypeInv, TimesInv, SyncInv, NEW f \in File, Settled(f),
                       ~missed[f], ~crossed[f], ~blurred[f]
                PROVE  told[f] = file[f].text
    BY DEF NothingForgotten
  <2>1. UpToDate(f)
    BY DEF SyncInv
  <2>2. \A t : NewestIs(f, t) => told[f] = t
    BY DEF NewestIs, Settled
  <2>3. lastSync[f] # 0
    <3>1. file[f].time \in 1 .. texts /\ file[f].time <= lastSync[f]
      BY DEF TimesInv, Settled
    <3>. QED
      BY <3>1
  <2>. QED
    BY <2>1, <2>2, <2>3 DEF UpToDate, Settled
<1>. QED
  BY <1>1, TypeInit, TypeNext, StreamInit, StreamNext, SyncInit, HolderNext, TimesNext, SyncNext,
     PTL DEF Spec
=============================================================================
