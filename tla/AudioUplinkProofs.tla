-------------------------- MODULE AudioUplinkProofs --------------------------
(* Theorems about AudioUplink for every size of the preroll buffer, every  *)
(* number of frames and of faults, with and without ZH_ENABLE_AEC.         *)
EXTENDS AudioUplink, TLAPS, SequenceTheorems

\* A sentence has been found and its preroll is not yet sent.
Starting == {"begin", "round", "preroll"}

\* The frame kept d frames before the last one.
Recent(d) == ring[Slot(Kept - d)]

-----------------------------------------------------------------------------
(* The inductive invariant.                                                *)

\* The thread has its copy of the connection only within a frame.
PlaceInv ==
  /\ ws => at \notin {"none", "open", "read", "gone"}
  /\ at \in Starting \cup {"frame", "end"} => ws
  /\ at \in Starting \cup {"frame"} => speech
  /\ at = "end" => ~speech
  /\ app = "start" => at = "none"
  /\ app \in {"start", "connect"} => ~conn
  /\ app = "set" => ~ws /\ open # "sentence"

\* When a sentence still owes the server an END.
OpenInv ==
  /\ app = "loop" /\ at \in {"taken", "detect"} /\ ~ws => open # "sentence"
  /\ open = "sentence" /\ conn /\ app = "loop" /\ faults = 0 =>
       speech \/ at = "end"

\* The buffer holds frames in order, and all the last ones since the sentence
\* before, as many as it has room for.
RingInv ==
  /\ \A d \in 0..Kept - 1 : Recent(d) \in 1..frame
  /\ \A d, e \in 0..Kept - 1 : d < e => Recent(e) < Recent(d)
  /\ ~speech \/ at \in Starting =>
       \A d \in 0..Preroll - 1 :
         frame - d > spent => d < Kept /\ Recent(d) = frame - d

\* What is sent is older than the frame in hand.
SentInv ==
  /\ SentInOrder
  /\ \A i \in 1..Len(sent) :
       sent[i] <= frame /\ (at = "frame" => sent[i] < frame)
  /\ at \in Starting => sent = <<>> /\ spent < frame
  /\ at = "frame" => frame # 0

\* What is due has been sent, is in hand or is in the buffer.
DueInv ==
  /\ at = "begin" => ~unhindered
  /\ at \in Starting => due = {i \in spent + 1..frame : i + Preroll > frame}
  /\ unhindered /\ at \notin Starting =>
       \A i \in due :
         (\E k \in 1..Len(sent) : sent[k] = i) \/ (at = "frame" /\ i = frame)

IInv ==
  TypeOK /\ PlaceInv /\ OpenInv /\ RingInv /\ SentInv /\ DueInv

-----------------------------------------------------------------------------
(* The buffer.                                                             *)

RingTyped ==
  /\ ring \in [0..Preroll - 1 -> 0..MaxFrames]
  /\ pos \in 0..Preroll - 1 /\ full \in BOOLEAN

\* What Store does, seen from the last frame kept.
LEMMA StoreKeeps ==
  ASSUME RingTyped, Store, frame' \in 0..MaxFrames
  PROVE  /\ RingTyped'
         /\ Kept' = IF Kept < Preroll THEN Kept + 1 ELSE Kept
         /\ Recent(0)' = frame'
         /\ \A d \in 1..Kept' - 1 : d - 1 < Kept /\ Recent(d)' = Recent(d - 1)
<1> USE PrerollAssumption DEF RingTyped
<1>1. RingTyped'
  BY DEF Store
<1>2. CASE full
  <2>1. full' /\ Kept = Preroll /\ Kept' = Preroll
    BY <1>2 DEF Store, Kept
  <2>2. \A i \in 0..Preroll - 1 :
          ring'[i] = IF i = pos THEN frame' ELSE ring[i]
    BY DEF Store
  <2>3. CASE pos + 1 = Preroll
    <3>1. pos' = 0
      BY <2>3 DEF Store
    <3>2. Slot(Kept)' = pos
      BY <2>1, <2>3, <3>1 DEF Slot
    <3>3. \A d \in 1..Preroll - 1 :
            Slot(Kept - d)' = Slot(Kept - (d - 1)) /\ Slot(Kept - d)' # pos
                /\ Slot(Kept - d)' \in 0..Preroll - 1
      BY <1>2, <2>1, <2>3, <3>1 DEF Slot
    <3> QED BY <1>1, <2>1, <2>2, <3>2, <3>3 DEF Recent
  <2>4. CASE pos + 1 # Preroll
    <3>1. pos' = pos + 1
      BY <2>4 DEF Store
    <3>2. Slot(Kept)' = pos
      BY <2>1, <2>4, <3>1 DEF Slot
    <3>3. \A d \in 1..Preroll - 1 :
            Slot(Kept - d)' = Slot(Kept - (d - 1)) /\ Slot(Kept - d)' # pos
                /\ Slot(Kept - d)' \in 0..Preroll - 1
      BY <1>2, <2>1, <2>4, <3>1 DEF Slot
    <3> QED BY <1>1, <2>1, <2>2, <3>2, <3>3 DEF Recent
  <2> QED BY <2>3, <2>4
<1>3. CASE ~full
  <2>1. Kept = pos /\ Kept' = pos + 1
    BY <1>3 DEF Store, Kept
  <2>2. \A i \in 0..Preroll - 1 :
          ring'[i] = IF i = pos THEN frame' ELSE ring[i]
    BY DEF Store
  <2>3. \A k \in 1..Kept' : Slot(k)' = k - 1 /\ Slot(k) = k - 1
    BY <1>3, <2>1 DEF Store, Slot
  <2> QED BY <1>1, <2>1, <2>2, <2>3 DEF Recent
<1> QED BY <1>2, <1>3

\* What the flush sends: the kept frames in order, up to a refused one.
LEMMA FlushedFrames ==
  ASSUME RingTyped, RingInv, frame \in 0..MaxFrames, NEW count \in 0..Kept
  PROVE  /\ Flushed(count) \in Seq(1..MaxFrames) /\ Len(Flushed(count)) = count
         /\ \A k \in 1..count : Flushed(count)[k] = Recent(Kept - k)
         /\ \A i, j \in 1..count :
              i < j => Flushed(count)[i] < Flushed(count)[j]
         /\ \A i \in 1..count :
              Flushed(count)[i] <= frame
                /\ (count < Kept => Flushed(count)[i] < frame)
<1> USE PrerollAssumption, BoundsAssumption DEF RingTyped
<1>1. Kept \in 0..Preroll
  BY DEF Kept
<1>2. \A k \in 1..count : Kept - k \in 0..Kept - 1 /\ Kept - (Kept - k) = k
  BY <1>1
<1>3. \A k \in 1..count : ring[Slot(k)] = Recent(Kept - k)
  BY <1>2 DEF Recent
<1>4. \A k \in 1..count : ring[Slot(k)] \in 1..frame
  BY <1>2, <1>3 DEF RingInv
<1>5. Flushed(count) \in Seq(1..MaxFrames) /\ Len(Flushed(count)) = count
  BY <1>1, <1>4 DEF Flushed
<1>6. \A k \in 1..count : Flushed(count)[k] = Recent(Kept - k)
  BY <1>3 DEF Flushed
<1>7. ASSUME NEW i \in 1..count, NEW j \in 1..count, i < j
      PROVE  Flushed(count)[i] < Flushed(count)[j]
  <2>1. Kept - i \in 0..Kept - 1 /\ Kept - j \in 0..Kept - 1
          /\ Kept - j < Kept - i
    BY <1>1, <1>7
  <2> QED BY <1>6, <2>1 DEF RingInv
<1>8. ASSUME NEW i \in 1..count, count < Kept
      PROVE  Flushed(count)[i] < frame
  <2>1. 0 \in 0..Kept - 1 /\ Kept - i \in 0..Kept - 1 /\ 0 < Kept - i
    BY <1>1, <1>8
  <2>2. Recent(Kept - i) < Recent(0) /\ Recent(0) \in 1..frame
          /\ Recent(Kept - i) \in 1..frame
    BY <2>1 DEF RingInv
  <2> QED BY <1>6, <2>2
<1>9. \A i \in 1..count : Flushed(count)[i] <= frame
  BY <1>2, <1>6 DEF RingInv
<1> QED BY <1>5, <1>6, <1>7, <1>8, <1>9

\* Kept and Recent are about the buffer alone.
LEMMA SameRing ==
  ASSUME UNCHANGED ringVars
  PROVE  Kept' = Kept /\ \A d : Recent(d)' = Recent(d)
BY DEF ringVars, Recent, Slot, Kept

-----------------------------------------------------------------------------
(* What whose steps leave alone.                                           *)

LEMMA OthersKeep ==
  ASSUME App \/ World
  PROVE  /\ UNCHANGED <<ws, speech, ringVars, frame>>
         /\ UNCHANGED <<sent, due, spent, unhindered>>
         /\ at' = at \/ (app = "start" /\ at' = "open")
<1>1. CASE App
  BY <1>1 DEF App, Start, StartFails, Connect, NoConnection, SetWs, LoopEnds,
     Close, AppOnly, appVars
<1>2. CASE World
  BY <1>2 DEF World, Drop, SttCompleted, TtsCompleted, ResetRound, MoreToPlay,
     Plays, PreparesMusic, Others, historyVars
<1> QED BY <1>1, <1>2

LEMMA ThreadKeeps ==
  ASSUME Thread
  PROVE  UNCHANGED <<app, conn, voice>>
BY DEF Thread, Opened, SetupFails, SkipPlaying, Take, SkipAnswer, Listen,
   DetectFails, Silence, SpeechStarts, SpeechGoesOn, SpeechEnds, Detect,
   SendStart, StartRound, NoStart, FlushPreroll, FlushFails, SubmitFrame,
   SubmitFails, SendEnd, NoEnd, Send, ThreadOnly, appVars

\* Steps at which a frame has not been looked at, or only the round changes.
Waits ==
  Opened \/ SetupFails \/ Take \/ Listen \/ DetectFails \/ SendStart
    \/ StartRound \/ NoStart \/ SendEnd \/ NoEnd

LEMMA WaitsKeep ==
  ASSUME Waits
  PROVE  UNCHANGED <<speech, ringVars, frame, sent, due, spent>>
BY DEF Waits, Opened, SetupFails, Take, Listen, DetectFails, SendStart,
   StartRound, NoStart, SendEnd, NoEnd, Send, historyVars

LEMMA ThreadSteps ==
  Thread <=>
    \/ Waits
    \/ SkipPlaying \/ SkipAnswer
    \/ Silence \/ SpeechStarts \/ SpeechGoesOn \/ SpeechEnds
    \/ FlushPreroll \/ FlushFails \/ SubmitFrame \/ SubmitFails
BY DEF Thread, Waits

-----------------------------------------------------------------------------
(* Every step keeps the buffer in order.                                   *)

LEMMA RingStep ==
  ASSUME TypeOK, RingInv, SentInv, PlaceInv, [Next]_vars
  PROVE  RingInv'
<1> USE PrerollAssumption, BoundsAssumption
<1>1. RingTyped /\ frame \in 0..MaxFrames /\ spent \in 0..frame
        /\ Kept \in 0..Preroll
  BY DEF TypeOK, RingTyped, Kept
<1>2. ASSUME UNCHANGED <<ringVars, frame, spent>>,
             ~speech' \/ at' \in Starting => ~speech \/ at \in Starting
      PROVE  RingInv'
  <2>1. Kept' = Kept /\ \A d : Recent(d)' = Recent(d)
    BY <1>2, SameRing
  <2> QED BY <1>2, <2>1 DEF RingInv
<1>3. ASSUME Store, frame' \in 1..MaxFrames, frame' = frame + 1,
             ~speech, spent' = spent
      PROVE  RingInv'
  <2>1. /\ Kept' = IF Kept < Preroll THEN Kept + 1 ELSE Kept
        /\ Recent(0)' = frame'
        /\ \A d \in 1..Kept' - 1 : d - 1 < Kept /\ Recent(d)' = Recent(d - 1)
    BY <1>1, <1>3, StoreKeeps
  <2>2. PICK n \in 1..Preroll : Kept' = n
    BY <1>1, <2>1
  <2>3. \A d \in 1..n - 1 :
          /\ d - 1 \in 0..Kept - 1 /\ Recent(d)' = Recent(d - 1)
          /\ Recent(d)' \in 1..frame
    BY <1>1, <2>1, <2>2 DEF RingInv
  <2>4. \A d \in 0..n - 1 : Recent(d)' \in 1..frame'
    BY <1>1, <1>3, <2>1, <2>2, <2>3
  <2>5. ASSUME NEW d \in 0..Preroll - 1, NEW e \in 0..Preroll - 1, d < e,
               e < n
        PROVE  Recent(e)' < Recent(d)'
    <3>1. e \in 1..n - 1
      BY <2>2, <2>5
    <3>2. CASE d = 0
      BY <1>1, <1>3, <2>1, <2>3, <3>1, <3>2
    <3>3. CASE d # 0
      <4>1. d \in 1..n - 1 /\ d - 1 < e - 1
        BY <2>2, <2>5, <3>3
      <4>2. d - 1 \in 0..Kept - 1 /\ e - 1 \in 0..Kept - 1
        BY <2>3, <3>1, <4>1
      <4>3. Recent(e - 1) < Recent(d - 1)
        BY <4>1, <4>2 DEF RingInv
      <4> QED BY <2>3, <3>1, <4>1, <4>3
    <3> QED BY <3>2, <3>3
  <2>6. ASSUME NEW d \in 0..Preroll - 1, frame' - d > spent'
        PROVE  d < n /\ Recent(d)' = frame' - d
    <3>1. CASE d = 0
      BY <1>1, <1>3, <2>1, <2>2, <3>1
    <3>2. CASE d # 0
      <4>1. d - 1 \in 0..Preroll - 1 /\ frame - (d - 1) > spent
        BY <1>1, <1>3, <2>6, <3>2
      <4>2. d - 1 < Kept /\ Recent(d - 1) = frame - (d - 1)
        BY <1>3, <4>1 DEF RingInv
      <4>3. d \in 1..n - 1
        BY <1>1, <2>1, <2>2, <3>2, <4>2
      <4> QED BY <1>1, <1>3, <2>3, <4>2, <4>3
    <3> QED BY <3>1, <3>2
  <2>7. \A d, e \in 0..n - 1 : d < e => Recent(e)' < Recent(d)'
    BY <2>2, <2>5
  <2> QED BY <2>2, <2>4, <2>6, <2>7 DEF RingInv
<1>4. CASE App \/ World
  <2>1. UNCHANGED <<ringVars, frame, spent, speech>>
          /\ (at' \in Starting => at \in Starting)
    BY <1>4, OthersKeep DEF Starting
  <2> QED BY <1>2, <2>1
<1>5. CASE Waits
  <2>1. UNCHANGED <<ringVars, frame, spent, speech>>
    BY <1>5, WaitsKeep
  <2>2. at' \in Starting => at \in Starting
    BY <1>5 DEF Waits, Opened, SetupFails, Take, Listen, DetectFails,
       SendStart, StartRound, NoStart, SendEnd, NoEnd, Go, Starting
  <2> QED BY <1>2, <2>1, <2>2
<1>6. CASE SkipPlaying \/ SkipAnswer
  <2>1. ResetVadRound
    BY <1>6 DEF SkipPlaying, SkipAnswer
  <2>2. Kept' = 0 /\ frame' = frame /\ spent' = frame
    BY <2>1 DEF ResetVadRound, EmptyRing, Kept
  <2>3. \A d \in 0..Preroll - 1 : ~(frame' - d > spent')
    BY <1>1, <2>2
  <2>4. \A d \in 0..Kept' - 1 : FALSE
    BY <2>2
  <2> QED BY <2>3, <2>4 DEF RingInv
<1>7. CASE Silence \/ SpeechStarts
  <2>1. Store /\ ~speech /\ frame' = frame + 1 /\ frame < MaxFrames
          /\ spent' = spent
    BY <1>7 DEF Silence, SpeechStarts, Detect
  <2> QED BY <1>1, <1>3, <2>1
<1>8. CASE SpeechGoesOn
  <2>1. UNCHANGED ringVars /\ speech' /\ at' \notin Starting
          /\ frame' = frame + 1
    BY <1>8 DEF SpeechGoesOn, Detect, Go, Starting, TypeOK
  <2>2. Kept' = Kept /\ \A d : Recent(d)' = Recent(d)
    BY <2>1, SameRing
  <2>3. \A d \in 0..Kept - 1 : Recent(d) \in 1..frame'
    BY <1>1, <2>1 DEF RingInv
  <2> QED BY <2>1, <2>2, <2>3 DEF RingInv
<1>9. CASE SpeechEnds
  <2>1. UNCHANGED ringVars /\ frame' = frame + 1 /\ spent' = frame'
    BY <1>9 DEF SpeechEnds, Detect
  <2>2. Kept' = Kept /\ \A d : Recent(d)' = Recent(d)
    BY <2>1, SameRing
  <2>3. \A d \in 0..Kept - 1 : Recent(d) \in 1..frame'
    BY <1>1, <2>1 DEF RingInv
  <2>4. \A d \in 0..Preroll - 1 : ~(frame' - d > spent')
    BY <1>1, <2>1
  <2> QED BY <2>2, <2>3, <2>4 DEF RingInv
<1>10. CASE FlushPreroll \/ FlushFails \/ SubmitFrame \/ SubmitFails
  <2>1. UNCHANGED <<ringVars, frame, spent, speech>> /\ at' \notin Starting
    BY <1>10 DEF FlushPreroll, FlushFails, SubmitFrame, SubmitFails, Send, Go,
       Starting
  <2> QED BY <1>2, <2>1
<1>11. CASE UNCHANGED vars
  <2>1. UNCHANGED <<ringVars, frame, spent, speech, at>>
    BY <1>11 DEF vars, historyVars
  <2> QED BY <1>2, <2>1
<1> QED BY <1>4, <1>5, <1>6, <1>7, <1>8, <1>9, <1>10, <1>11, ThreadSteps
        DEF Next

-----------------------------------------------------------------------------
(* ... the places and the connection, ...                                  *)

LEMMA PlaceStep ==
  ASSUME TypeOK, PlaceInv, [Next]_vars
  PROVE  PlaceInv'
<1> USE DEF PlaceInv, Starting
<1>1. CASE App
  <2>1. CASE Start
    BY <2>1 DEF Start, AppOnly
  <2>2. CASE StartFails
    BY <2>2 DEF StartFails, AppOnly
  <2>3. CASE NoConnection \/ Close
    BY <2>3 DEF NoConnection, Close, AppOnly, NextTry
  <2>4. CASE Connect
    BY <2>4 DEF Connect, AppOnly, FrameIsOver
  <2>5. CASE SetWs \/ LoopEnds
    BY <2>5 DEF SetWs, LoopEnds, AppOnly
  <2> QED BY <1>1, <2>1, <2>2, <2>3, <2>4, <2>5 DEF App
<1>2. CASE World
  BY <1>2 DEF World, Drop, SttCompleted, TtsCompleted, ResetRound, MoreToPlay,
     Plays, PreparesMusic, Others, appVars, historyVars, roundVars
<1>3. CASE Thread
  <2>1. UNCHANGED <<app, conn>>
    BY <1>3, ThreadKeeps
  <2>2. at # "none" /\ at' # "none" /\ app # "start"
    BY <1>3 DEF Thread, Opened, SetupFails, SkipPlaying, Take, SkipAnswer,
       Listen, DetectFails, Silence, SpeechStarts, SpeechGoesOn, SpeechEnds,
       Detect, SendStart, StartRound, NoStart, FlushPreroll, FlushFails,
       SubmitFrame, SubmitFails, SendEnd, NoEnd, Go
  <2>3. CASE Opened
    BY <2>1, <2>2, <2>3 DEF Opened, Go, historyVars
  <2>4. CASE SetupFails
    BY <2>1, <2>2, <2>4 DEF SetupFails, Go, historyVars
  <2>5. CASE DetectFails
    BY <2>1, <2>2, <2>5 DEF DetectFails, Go, historyVars
  <2>6. CASE Listen
    BY <2>1, <2>2, <2>6 DEF Listen, Go, historyVars, TypeOK
  <2>7. CASE Take
    BY <2>1, <2>2, <2>7 DEF Take, historyVars, Handle
  <2>8. CASE SkipPlaying \/ SkipAnswer
    BY <2>1, <2>2, <2>8 DEF SkipPlaying, SkipAnswer, Go, ResetVadRound,
       DropSegment, TypeOK
  <2>9. CASE Silence \/ SpeechStarts \/ SpeechGoesOn \/ SpeechEnds
    BY <2>1, <2>2, <2>9 DEF Silence, SpeechStarts, SpeechGoesOn, SpeechEnds,
       Detect, Go, TypeOK
  <2>10. CASE SendStart \/ StartRound \/ NoStart
    BY <2>1, <2>2, <2>10 DEF SendStart, StartRound, NoStart, Send, Go, TypeOK
  <2>11. CASE FlushPreroll \/ FlushFails \/ SubmitFrame \/ SubmitFails
    BY <2>1, <2>2, <2>11 DEF FlushPreroll, FlushFails, SubmitFrame,
       SubmitFails, Send, Go, TypeOK
  <2>12. CASE SendEnd \/ NoEnd
    BY <2>1, <2>2, <2>12 DEF SendEnd, EndAnyway, NoEnd, Send, Go, TypeOK
  <2> QED BY <1>3, <2>3, <2>4, <2>5, <2>6, <2>7, <2>8, <2>9, <2>10, <2>11,
             <2>12 DEF Thread
<1>4. CASE UNCHANGED vars
  BY <1>4 DEF vars, appVars, historyVars
<1> QED BY <1>1, <1>2, <1>3, <1>4 DEF Next

(* ... who owes an END, ...                                                *)

LEMMA OpenStep ==
  ASSUME TypeOK, PlaceInv, OpenInv, [Next]_vars
  PROVE  OpenInv'
<1> USE DEF OpenInv
<1>1. CASE App
  <2>1. CASE Start \/ StartFails \/ NoConnection \/ Close \/ Connect
    <3>1. app' # "loop"
      BY <2>1 DEF Start, StartFails, NoConnection, Close, Connect, NextTry
    <3> QED BY <3>1
  <2>2. CASE SetWs
    BY <2>2 DEF SetWs, PlaceInv
  <2>3. CASE LoopEnds
    BY <2>3 DEF LoopEnds
  <2> QED BY <1>1, <2>1, <2>2, <2>3 DEF App
<1>2. CASE World
  BY <1>2 DEF World, Drop, SttCompleted, TtsCompleted, ResetRound, MoreToPlay,
     Plays, PreparesMusic, Others, appVars, historyVars, roundVars
<1>3. CASE Thread
  <2> USE ThreadKeeps
  <2>1. CASE Opened \/ Take \/ Listen
    <3>1. UNCHANGED <<open, faults>> /\ (speech' <=> speech) /\ at # "end"
      BY <2>1 DEF Opened, Take, Listen, Go, historyVars
    <3>2. CASE Opened
      BY <1>3, <3>1, <3>2 DEF Opened, Go
    <3>3. CASE Take
      <4>1. at = "read" /\ at' = "taken" /\ (app = "loop" => ws')
        BY <3>3 DEF Take, Handle
      <4>2. UNCHANGED <<app, conn>>
        BY <1>3
      <4> QED BY <3>1, <4>1, <4>2
    <3>4. CASE Listen
      <4>1. at = "taken" /\ at' = "detect" /\ (~ws' => ~ws)
        BY <3>4 DEF Listen, Go
      <4> QED BY <1>3, <3>1, <4>1
    <3> QED BY <2>1, <3>2, <3>3, <3>4
  <2>2. CASE SetupFails \/ DetectFails
    <3>1. faults' = faults + 1 /\ faults \in Nat
      BY <2>2, BoundsAssumption DEF SetupFails, DetectFails, FaultIf, TypeOK
    <3>2. faults' # 0
      BY <3>1
    <3> QED BY <1>3, <2>2, <3>2 DEF SetupFails, DetectFails, Go
  <2>3. CASE SkipPlaying \/ SkipAnswer
    BY <2>3 DEF SkipPlaying, SkipAnswer, ResetVadRound, DropSegment
  <2>4. CASE Silence \/ SpeechStarts \/ SpeechGoesOn \/ SpeechEnds
    <3>1. UNCHANGED <<open, faults>> /\ at = "detect"
      BY <2>4 DEF Silence, SpeechStarts, SpeechGoesOn, SpeechEnds, Detect, Go
    <3>2. at' \notin {"taken", "detect"}
      BY <2>4 DEF Silence, SpeechStarts, SpeechGoesOn, SpeechEnds, Detect, Go
    <3>3. CASE SpeechEnds
      BY <1>3, <3>1, <3>2, <3>3 DEF SpeechEnds, Detect, Go
    <3>4. CASE SpeechStarts \/ SpeechGoesOn
      BY <1>3, <3>1, <3>2, <3>4 DEF SpeechStarts, SpeechGoesOn, TypeOK
    <3>5. CASE Silence
      BY <1>3, <3>1, <3>2, <3>5 DEF Silence
    <3> QED BY <2>4, <3>3, <3>4, <3>5
  <2>5. CASE SendStart \/ StartRound \/ NoStart
    <3>1. speech' = speech /\ speech /\ at' \notin {"taken", "detect"}
      BY <2>5 DEF SendStart, StartRound, NoStart, Send, Go, PlaceInv, Starting
    <3> QED BY <3>1
  <2>6. CASE FlushPreroll \/ FlushFails \/ SubmitFrame \/ SubmitFails
    <3>1. speech' = speech /\ speech /\ at' \notin {"taken", "detect"}
      BY <2>6 DEF FlushPreroll, FlushFails, SubmitFrame, SubmitFails, Send, Go,
         PlaceInv, Starting
    <3> QED BY <3>1
  <2>7. CASE SendEnd
    BY <2>7 DEF SendEnd, EndAnyway
  <2>8. CASE NoEnd
    <3>1. CASE conn
      <4>1. faults' = faults + 1 /\ faults \in Nat
        BY <2>8, <3>1, BoundsAssumption DEF NoEnd, FaultIf, TypeOK
      <4>2. faults' # 0 /\ at' \notin {"taken", "detect"}
        BY <2>8, <4>1 DEF NoEnd, Go
      <4> QED BY <4>2
    <3>2. CASE ~conn
      BY <1>3, <2>8, <3>2 DEF NoEnd, Go
    <3> QED BY <3>1, <3>2
  <2> QED BY <1>3, <2>1, <2>2, <2>3, <2>4, <2>5, <2>6, <2>7, <2>8 DEF Thread
<1>4. CASE UNCHANGED vars
  BY <1>4 DEF vars, appVars, historyVars
<1> QED BY <1>1, <1>2, <1>3, <1>4 DEF Next

(* ... the order of what is sent, ...                                      *)

LEMMA SentStep ==
  ASSUME TypeOK, PlaceInv, RingInv, SentInv, [Next]_vars
  PROVE  SentInv'
<1> USE PrerollAssumption, BoundsAssumption
<1>1. /\ RingTyped /\ frame \in 0..MaxFrames /\ spent \in 0..frame
      /\ sent \in Seq(1..MaxFrames) /\ Kept \in 0..Preroll
  BY DEF TypeOK, RingTyped, Kept
<1>2. ASSUME UNCHANGED <<sent, frame, spent>>,
             at' = "frame" => at \in Starting \cup {"frame"},
             at' \in Starting => at \in Starting
      PROVE  SentInv'
  BY <1>1, <1>2 DEF SentInv, SentInOrder, Starting
<1>3. ASSUME sent' = <<>>, at' # "frame",
             at' \in Starting => spent' < frame'
      PROVE  SentInv'
  BY <1>3 DEF SentInv, SentInOrder
<1>4. CASE App \/ World
  <2>1. UNCHANGED <<sent, frame, spent>> /\ (at' = at \/ at' = "open")
    BY <1>4, OthersKeep
  <2> QED BY <1>2, <2>1 DEF Starting
<1>5. CASE Waits
  <2>1. UNCHANGED <<sent, frame, spent>>
    BY <1>5, WaitsKeep
  <2>2. /\ at' \in Starting => at \in Starting
        /\ at' = "frame" => at \in Starting
    BY <1>5 DEF Waits, Opened, SetupFails, Take, Listen, DetectFails,
       SendStart, StartRound, NoStart, SendEnd, NoEnd, Go, Starting
  <2> QED BY <1>2, <2>1, <2>2
<1>6. CASE SkipPlaying \/ SkipAnswer
  BY <1>3, <1>6 DEF SkipPlaying, SkipAnswer, ResetVadRound, NoSentence, Go,
     Starting
<1>7. CASE Silence
  BY <1>3, <1>7 DEF Silence, NoSentence, Detect, Go, Starting
<1>8. CASE SpeechStarts
  BY <1>1, <1>3, <1>8 DEF SpeechStarts, Detect, Go
<1>9. CASE SpeechGoesOn \/ SpeechEnds
  <2>1. sent' = sent /\ frame' = frame + 1 /\ at' \notin Starting
    BY <1>9 DEF SpeechGoesOn, SpeechEnds, Detect, Go, Starting
  <2> QED BY <1>1, <2>1 DEF SentInv, SentInOrder
<1>10. CASE FlushPreroll
  <2>1. sent' = Flushed(Kept) /\ at' = "read" /\ frame' = frame
    BY <1>10 DEF FlushPreroll, Send, Go
  <2>2. Kept \in 0..Kept
    BY <1>1
  <2> QED BY <1>1, <2>1, <2>2, FlushedFrames DEF SentInv, SentInOrder, Starting
<1>11. CASE FlushFails
  <2>1. PICK count \in 0..Kept - 1 : sent' = Flushed(count)
    BY <1>11 DEF FlushFails
  <2>2. at' = "frame" /\ frame' = frame
    BY <1>11 DEF FlushFails, Send, Go
  <2>3. count \in 0..Kept /\ count < Kept
    BY <1>1
  <2>4. frame # 0
    BY <1>1, <1>11 DEF FlushFails, Go, SentInv, Starting
  <2> QED BY <1>1, <2>1, <2>2, <2>3, <2>4, FlushedFrames
          DEF SentInv, SentInOrder, Starting
<1>12. CASE SubmitFrame
  <2>1. /\ sent' = Append(sent, frame) /\ at = "frame" /\ at' = "read"
        /\ frame' = frame
    BY <1>12 DEF SubmitFrame, Send, Go
  <2>2. /\ Len(sent') = Len(sent) + 1
        /\ \A i \in 1..Len(sent) : sent'[i] = sent[i]
        /\ sent'[Len(sent) + 1] = frame
    BY <1>1, <2>1
  <2>3. \A i \in 1..Len(sent) : sent[i] < frame
    BY <2>1 DEF SentInv
  <2> QED BY <1>1, <2>1, <2>2, <2>3 DEF SentInv, SentInOrder, Starting
<1>13. CASE SubmitFails
  BY <1>2, <1>13 DEF SubmitFails, Send, Go, Starting
<1>14. CASE UNCHANGED vars
  BY <1>2, <1>14 DEF vars, historyVars
<1> QED BY <1>4, <1>5, <1>6, <1>7, <1>8, <1>9, <1>10, <1>11, <1>12, <1>13,
        <1>14, ThreadSteps DEF Next

(* ... what is due, ...                                                    *)

LEMMA DueStep ==
  ASSUME TypeOK, PlaceInv, RingInv, SentInv, DueInv, [Next]_vars
  PROVE  DueInv'
<1> USE PrerollAssumption, BoundsAssumption DEF DueInv
<1>1. /\ RingTyped /\ frame \in 0..MaxFrames /\ spent \in 0..frame
      /\ sent \in Seq(1..MaxFrames) /\ Kept \in 0..Preroll
      /\ due \subseteq 1..MaxFrames /\ unhindered \in BOOLEAN
  BY DEF TypeOK, RingTyped, Kept
<1>2. ASSUME ~unhindered', at' \notin Starting
      PROVE  DueInv'
  BY <1>2 DEF Starting
<1>3. CASE App \/ World
  BY <1>3, OthersKeep DEF Starting, PlaceInv
<1>4. CASE Waits
  <2>1. UNCHANGED <<sent, frame, spent, due>>
    BY <1>4, WaitsKeep
  <2>2. CASE SendStart \/ StartRound
    BY <2>1, <2>2 DEF SendStart, StartRound, Go, Starting
  <2>3. CASE NoStart
    BY <1>2, <2>3 DEF NoStart, Go, Starting
  <2>4. CASE ~(SendStart \/ StartRound \/ NoStart)
    <3>1. /\ unhindered' = unhindered /\ at \notin Starting \cup {"frame"}
          /\ at' \notin Starting
      BY <1>4, <2>4 DEF Waits, Opened, SetupFails, Take, Listen, DetectFails,
         SendEnd, NoEnd, Go, Starting, historyVars
    <3> QED BY <2>1, <3>1 DEF Starting
  <2> QED BY <1>4, <2>2, <2>3, <2>4
<1>5. CASE SkipPlaying \/ SkipAnswer \/ Silence
  <2>1. ~unhindered' /\ at' = "read"
    BY <1>5 DEF SkipPlaying, SkipAnswer, ResetVadRound, Silence, NoSentence,
       Detect, Go
  <2> QED BY <1>2, <2>1 DEF Starting
<1>6. CASE SpeechStarts
  BY <1>6 DEF SpeechStarts, Starting
<1>7. CASE SpeechGoesOn
  <2>1. /\ at = "detect" /\ sent' = sent /\ due' = due \cup {frame'}
        /\ at' \notin Starting
        /\ unhindered' => unhindered /\ at' = "frame"
    BY <1>1, <1>7 DEF SpeechGoesOn, Detect, Go, Starting
  <2> QED BY <2>1 DEF Starting
<1>8. CASE SpeechEnds
  <2>1. /\ at = "detect" /\ UNCHANGED <<sent, due, unhindered>>
        /\ at' \notin Starting
    BY <1>8 DEF SpeechEnds, Detect, Go, Starting
  <2> QED BY <2>1 DEF Starting
<1>9. CASE FlushPreroll
  <2>1. /\ at = "preroll" /\ at' = "read" /\ sent' = Flushed(Kept)
        /\ due' = due
    BY <1>9 DEF FlushPreroll, Send, Go
  <2>2. /\ Len(Flushed(Kept)) = Kept
        /\ \A k \in 1..Kept : Flushed(Kept)[k] = Recent(Kept - k)
    <3>1. Kept \in 0..Kept
      BY <1>1
    <3> QED BY <1>1, <3>1, FlushedFrames
  <2>3. ASSUME NEW i \in due
        PROVE  \E k \in 1..Len(sent') : sent'[k] = i
    <3>1. i \in spent + 1..frame /\ i + Preroll > frame
      BY <2>1 DEF Starting
    <3>2. frame - i \in 0..Preroll - 1 /\ frame - (frame - i) = i /\ i > spent
      BY <1>1, <3>1
    <3>3. frame - i < Kept /\ Recent(frame - i) = i
      BY <2>1, <3>2 DEF RingInv, Starting
    <3>4. Kept - (frame - i) \in 1..Kept
            /\ Kept - (Kept - (frame - i)) = frame - i
      BY <1>1, <3>2, <3>3
    <3>5. Flushed(Kept)[Kept - (frame - i)] = i
      BY <2>2, <3>3, <3>4
    <3> QED BY <2>1, <2>2, <3>4, <3>5
  <2> QED BY <2>1, <2>3 DEF Starting
<1>10. CASE FlushFails \/ SubmitFails
  BY <1>2, <1>10 DEF FlushFails, SubmitFails, Go, Starting
<1>11. CASE SubmitFrame
  <2>1. /\ sent' = Append(sent, frame) /\ at = "frame" /\ at' = "read"
        /\ frame' = frame /\ UNCHANGED <<due, unhindered>>
    BY <1>11 DEF SubmitFrame, Send, Go
  <2>2. /\ Len(sent') = Len(sent) + 1
        /\ \A i \in 1..Len(sent) : sent'[i] = sent[i]
        /\ sent'[Len(sent) + 1] = frame
    BY <1>1, <2>1
  <2>3. ASSUME NEW i \in due, unhindered
        PROVE  \E k \in 1..Len(sent') : sent'[k] = i
    <3>1. CASE i = frame
      <4>1. Len(sent) + 1 \in 1..Len(sent')
        BY <1>1, <2>2
      <4> QED BY <2>2, <3>1, <4>1
    <3>2. CASE i # frame
      <4>1. PICK k \in 1..Len(sent) : sent[k] = i
        BY <2>1, <2>3, <3>2 DEF Starting
      <4>2. k \in 1..Len(sent')
        BY <1>1, <2>2
      <4> QED BY <2>2, <4>1, <4>2
    <3> QED BY <3>1, <3>2
  <2> QED BY <2>1, <2>3 DEF Starting
<1>12. CASE UNCHANGED vars
  BY <1>12 DEF vars, historyVars, Starting
<1> QED BY <1>3, <1>4, <1>5, <1>6, <1>7, <1>8, <1>9, <1>10, <1>11, <1>12,
        ThreadSteps DEF Next

(* ... and the types.                                                      *)

\* Of what the app, the world and the thread's places are made of, ...
PlacesTyped ==
  /\ app \in {"start", "connect", "set", "loop", "close"}
  /\ conn \in BOOLEAN
  /\ stt \in BOOLEAN /\ completed \in BOOLEAN /\ recognized \in BOOLEAN
  /\ voice \in Voices
  /\ at \in Places /\ ws \in BOOLEAN
  /\ speech \in BOOLEAN
  /\ open \in {"none", "sentence", "dropped", "music"}
  /\ unhindered \in BOOLEAN

\* ... and of numbers.
NumbersTyped ==
  /\ RingTyped
  /\ frame \in 0..MaxFrames /\ faults \in 0..MaxFaults
  /\ sent \in Seq(1..MaxFrames)
  /\ due \subseteq 1..MaxFrames /\ spent \in 0..frame

LEMMA TypeParts == TypeOK <=> PlacesTyped /\ NumbersTyped
BY DEF TypeOK, PlacesTyped, NumbersTyped, RingTyped

LEMMA PlacesStep ==
  ASSUME PlacesTyped, [Next]_vars
  PROVE  PlacesTyped'
<1> USE DEF PlacesTyped
<1>1. CASE App
  <2> USE DEF AppOnly, roundVars
  <2>1. CASE Start
    BY <2>1 DEF Start, Places
  <2>2. CASE StartFails
    BY <2>2 DEF StartFails
  <2>3. CASE Connect
    BY <2>3 DEF Connect, SessionReset, ClearRound
  <2>4. CASE NoConnection
    BY <2>4 DEF NoConnection, SessionReset, ClearRound, NextTry
  <2>5. CASE SetWs \/ LoopEnds
    BY <2>5 DEF SetWs, LoopEnds
  <2>6. CASE Close
    BY <2>6 DEF Close, NextTry
  <2> QED BY <1>1, <2>1, <2>2, <2>3, <2>4, <2>5, <2>6 DEF App
<1>2. CASE World
  <2> USE DEF Others, historyVars, roundVars
  <2>1. CASE Drop \/ SttCompleted \/ TtsCompleted
    BY <2>1 DEF Drop, SttCompleted, TtsCompleted
  <2>2. CASE ResetRound \/ MoreToPlay
    BY <2>2 DEF ResetRound, ClearRound, MoreToPlay
  <2>3. CASE Plays
    BY <2>3 DEF Plays
  <2>4. CASE PreparesMusic
    BY <2>4 DEF PreparesMusic, appVars
  <2> QED BY <1>2, <2>1, <2>2, <2>3, <2>4 DEF World
<1>3. CASE Thread
  <2> USE ThreadKeeps DEF Places, Send, Go, roundVars, historyVars
  <2>1. CASE Opened \/ SetupFails \/ Listen \/ DetectFails
    BY <1>3, <2>1 DEF Opened, SetupFails, Listen, DetectFails
  <2>2. CASE Take
    BY <1>3, <2>2 DEF Take, Handle
  <2>3. CASE SkipPlaying \/ SkipAnswer
    BY <1>3, <2>3 DEF SkipPlaying, SkipAnswer, ResetVadRound, DropSegment,
       NoSentence
  <2>4. CASE Silence \/ SpeechStarts \/ SpeechGoesOn \/ SpeechEnds
    BY <1>3, <2>4 DEF Silence, SpeechStarts, SpeechGoesOn, SpeechEnds, Detect,
       NoSentence
  <2>5. CASE SendStart \/ StartRound \/ NoStart
    BY <1>3, <2>5 DEF SendStart, StartRound, NoStart, ClearRound
  <2>6. CASE FlushPreroll \/ FlushFails \/ SubmitFrame \/ SubmitFails
    BY <1>3, <2>6 DEF FlushPreroll, FlushFails, SubmitFrame, SubmitFails
  <2>7. CASE SendEnd \/ NoEnd
    BY <1>3, <2>7 DEF SendEnd, EndAnyway, NoEnd
  <2> QED BY <1>3, <2>1, <2>2, <2>3, <2>4, <2>5, <2>6, <2>7 DEF Thread
<1>4. CASE UNCHANGED vars
  BY <1>4 DEF vars, appVars, roundVars, historyVars
<1> QED BY <1>1, <1>2, <1>3, <1>4 DEF Next

LEMMA NumbersStep ==
  ASSUME NumbersTyped, PlaceInv, RingInv, SentInv, [Next]_vars
  PROVE  NumbersTyped'
<1> USE PrerollAssumption, BoundsAssumption DEF NumbersTyped
<1>1. ASSUME faults' = faults \/ (faults < MaxFaults /\ faults' = faults + 1)
      PROVE  faults' \in 0..MaxFaults
  BY <1>1
<1>2. CASE App \/ World
  <2>1. UNCHANGED <<ringVars, frame, sent, due, spent>>
    BY <1>2, OthersKeep
  <2>2. faults' \in 0..MaxFaults
    BY <1>1, <1>2 DEF App, World, Start, StartFails, Connect, NoConnection,
       SetWs, LoopEnds, Close, Drop, SttCompleted, TtsCompleted, ResetRound,
       MoreToPlay, Plays, PreparesMusic, Others, FaultIf
  <2> QED BY <2>1, <2>2 DEF RingTyped, ringVars
<1>3. CASE Waits
  <2>1. UNCHANGED <<ringVars, frame, sent, due, spent>>
    BY <1>3, WaitsKeep
  <2>2. faults' \in 0..MaxFaults
    BY <1>1, <1>3 DEF Waits, Opened, SetupFails, Take, Listen, DetectFails,
       SendStart, StartRound, NoStart, SendEnd, NoEnd, FaultIf
  <2> QED BY <2>1, <2>2 DEF RingTyped, ringVars
<1>4. CASE SkipPlaying \/ SkipAnswer
  <2>1. /\ UNCHANGED <<ring, frame, faults>> /\ pos' = 0 /\ full' = FALSE
        /\ sent' = <<>> /\ due' = {} /\ spent' = frame
    BY <1>4 DEF SkipPlaying, SkipAnswer, ResetVadRound, EmptyRing, NoSentence
  <2>2. ring' \in [0..Preroll - 1 -> 0..MaxFrames]
    BY <2>1 DEF RingTyped
  <2>3. pos' \in 0..Preroll - 1
    <3>1. 0 \in 0..Preroll - 1
      OBVIOUS
    <3> QED BY <2>1, <3>1
  <2>4. sent' \in Seq(1..MaxFrames) /\ due' \subseteq 1..MaxFrames
    BY <2>1
  <2>5. full' \in BOOLEAN
    BY <2>1
  <2> QED BY <2>1, <2>2, <2>3, <2>4, <2>5 DEF RingTyped
<1>5. CASE Silence \/ SpeechStarts \/ SpeechGoesOn \/ SpeechEnds
  <2>1. frame' = frame + 1 /\ frame < MaxFrames /\ faults' = faults
    BY <1>5 DEF Silence, SpeechStarts, SpeechGoesOn, SpeechEnds, Detect
  <2>2. frame' \in 1..MaxFrames /\ frame \in 0..frame'
    BY <2>1
  <2>3. CASE Silence \/ SpeechStarts
    <3>1. Store
      BY <2>3 DEF Silence, SpeechStarts
    <3>2. RingTyped'
      BY <2>2, <3>1, StoreKeeps
    <3>3. sent' = <<>> /\ spent' = spent /\ due' \subseteq 1..MaxFrames
      BY <2>2, <2>3 DEF Silence, SpeechStarts, NoSentence
    <3> QED BY <2>1, <2>2, <3>2, <3>3
  <2>4. CASE SpeechGoesOn
    BY <2>1, <2>2, <2>4 DEF SpeechGoesOn, RingTyped, ringVars
  <2>5. CASE SpeechEnds
    BY <2>1, <2>2, <2>5 DEF SpeechEnds, RingTyped, ringVars
  <2> QED BY <1>5, <2>3, <2>4, <2>5
<1>6. CASE FlushPreroll \/ FlushFails
  <2>1. PICK count \in 0..Kept : sent' = Flushed(count)
    <3>1. Kept \in 0..Preroll
      BY DEF Kept, RingTyped
    <3> QED BY <1>6, <3>1 DEF FlushPreroll, FlushFails
  <2>2. sent' \in Seq(1..MaxFrames)
    BY <2>1, FlushedFrames
  <2>3. faults' \in 0..MaxFaults
    BY <1>1, <1>6 DEF FlushPreroll, FlushFails, FaultIf
  <2> QED BY <1>6, <2>2, <2>3 DEF FlushPreroll, FlushFails, Send, RingTyped,
          ringVars
<1>7. CASE SubmitFrame
  <2>1. frame \in 1..MaxFrames
    BY <1>7 DEF SubmitFrame, Go, SentInv
  <2> QED BY <1>7, <2>1 DEF SubmitFrame, Send, RingTyped, ringVars
<1>8. CASE SubmitFails
  <2>1. faults' \in 0..MaxFaults
    BY <1>1, <1>8 DEF SubmitFails, FaultIf
  <2> QED BY <1>8, <2>1 DEF SubmitFails, Send, RingTyped, ringVars
<1>9. CASE UNCHANGED vars
  BY <1>9 DEF vars, historyVars, RingTyped, ringVars
<1> QED BY <1>2, <1>3, <1>4, <1>5, <1>6, <1>7, <1>8, <1>9, ThreadSteps
        DEF Next

-----------------------------------------------------------------------------
(* Its steps are steps of Sentences: those of the app and the world, ...   *)

LEMMA AroundSays ==
  ASSUME PlaceInv, App \/ World
  PROVE  [Said!Next]_Said!vars
<1>1. UNCHANGED <<speech, sent>>
  BY OthersKeep
<1>2. CASE Connect
  <2>1. Said!Connect
    BY <1>1, <1>2 DEF Connect, PlaceInv, Said!Connect
  <2> QED BY <2>1 DEF Said!Next
<1>3. CASE Close \/ Drop
  <2>1. Said!Lose
    BY <1>1, <1>3 DEF Close, Drop, Others, historyVars, Said!Lose
  <2> QED BY <2>1 DEF Said!Next
<1>4. CASE PreparesMusic
  <2>1. Said!Intrude
    BY <1>1, <1>4 DEF PreparesMusic, appVars, Said!Intrude
  <2> QED BY <2>1 DEF Said!Next
<1>5. CASE ~(Connect \/ Close \/ Drop \/ PreparesMusic)
  <2>1. UNCHANGED <<conn, open>>
    BY <1>5 DEF App, World, Start, StartFails, NoConnection, SetWs, LoopEnds,
       SttCompleted, TtsCompleted, ResetRound, MoreToPlay, Plays, Others,
       historyVars
  <2> QED BY <1>1, <2>1 DEF Said!vars
<1> QED BY <1>2, <1>3, <1>4, <1>5

\* ... the frames that are sent, which those lemmas put in order, ...
LEMMA DeliverySays ==
  ASSUME TypeOK, PlaceInv, RingInv, SentInv,
         FlushPreroll \/ FlushFails \/ SubmitFrame
  PROVE  Said!Deliver
<1>1. /\ RingTyped /\ frame \in 0..MaxFrames /\ Kept \in 0..Preroll
      /\ sent \in Seq(1..MaxFrames)
  BY PrerollAssumption DEF TypeOK, RingTyped, Kept
<1>2. speech /\ UNCHANGED <<conn, speech, open>>
  BY DEF FlushPreroll, FlushFails, SubmitFrame, Send, Go, ThreadOnly, appVars,
     PlaceInv, Starting
<1>3. CASE FlushPreroll \/ FlushFails
  <2>1. sent = <<>>
    BY <1>3 DEF FlushPreroll, FlushFails, Go, SentInv, Starting
  <2>2. PICK count \in 0..Kept : sent' = Flushed(count)
    BY <1>1, <1>3, PrerollAssumption DEF FlushPreroll, FlushFails
  <2>3. /\ Len(sent') = count
        /\ \A i, j \in 1..count : i < j => sent'[i] < sent'[j]
    BY <1>1, <2>2, FlushedFrames
  <2>4. Len(sent) = 0
    BY <2>1
  <2> QED BY <1>1, <1>2, <2>3, <2>4 DEF Said!Deliver
<1>4. CASE SubmitFrame
  <2>1. sent' = Append(sent, frame) /\ at = "frame"
    BY <1>4 DEF SubmitFrame, Go
  <2>2. /\ Len(sent') = Len(sent) + 1
        /\ \A i \in 1..Len(sent) : sent'[i] = sent[i]
        /\ sent'[Len(sent) + 1] = frame
    BY <1>1, <2>1
  <2>3. \A i \in 1..Len(sent) : sent[i] < frame
    BY <2>1 DEF SentInv
  <2>4. \A i, j \in 1..Len(sent') : i < j => sent'[i] < sent'[j]
    BY <1>1, <2>2, <2>3 DEF SentInv, SentInOrder
  <2> QED BY <1>1, <1>2, <2>2, <2>4 DEF Said!Deliver
<1> QED BY <1>3, <1>4

\* ... and the others of the thread.
LEMMA ThreadSays ==
  ASSUME TypeOK, PlaceInv, RingInv, SentInv, Thread
  PROVE  [Said!Next]_Said!vars
<1>1. UNCHANGED conn
  BY ThreadKeeps
<1>2. CASE Waits
  <2>1. UNCHANGED <<speech, sent>>
    BY <1>2, WaitsKeep
  <2>2. CASE SendStart
    <3>1. Said!SendStart
      BY <1>1, <2>1, <2>2 DEF SendStart, Go, PlaceInv, SentInv, Starting,
         Said!SendStart
    <3> QED BY <3>1 DEF Said!Next
  <2>3. CASE SendEnd
    <3>1. Said!SendEnd
      BY <1>1, <2>1, <2>3 DEF SendEnd, EndAnyway, Go, PlaceInv,
         Said!SendEnd
    <3> QED BY <3>1 DEF Said!Next
  <2>4. CASE ~(SendStart \/ SendEnd)
    <3>1. UNCHANGED open
      BY <1>2, <2>4 DEF Waits, Opened, SetupFails, Take, Listen, DetectFails,
         StartRound, NoStart, NoEnd, historyVars
    <3> QED BY <1>1, <2>1, <3>1 DEF Said!vars
  <2> QED BY <2>2, <2>3, <2>4
<1>3. CASE SkipPlaying \/ SkipAnswer
  <2>1. Said!Abandon
    BY <1>1, <1>3 DEF SkipPlaying, SkipAnswer, ResetVadRound, DropSegment,
       NoSentence, Said!Abandon
  <2> QED BY <2>1 DEF Said!Next
<1>4. CASE Silence
  <2>1. Said!Forget
    BY <1>1, <1>4 DEF Silence, Detect, NoSentence, Said!Forget
  <2> QED BY <2>1 DEF Said!Next
<1>5. CASE SpeechStarts
  <2>1. Said!Find
    BY <1>1, <1>5 DEF SpeechStarts, Detect, Said!Find
  <2> QED BY <2>1 DEF Said!Next
<1>6. CASE SpeechGoesOn \/ SubmitFails
  BY <1>1, <1>6 DEF SpeechGoesOn, Detect, SubmitFails, Send, Said!vars
<1>7. CASE SpeechEnds
  <2>1. Said!Finish
    BY <1>1, <1>7 DEF SpeechEnds, Detect, Said!Finish
  <2> QED BY <2>1 DEF Said!Next
<1>8. CASE FlushPreroll \/ FlushFails \/ SubmitFrame
  BY <1>8, DeliverySays DEF Said!Next
<1> QED BY <1>2, <1>3, <1>4, <1>5, <1>6, <1>7, <1>8, ThreadSteps

-----------------------------------------------------------------------------
(* The theorems.                                                           *)

LEMMA InitInv == Init => IInv
<1> SUFFICES ASSUME Init PROVE IInv
  OBVIOUS
<1> USE PrerollAssumption, BoundsAssumption DEF Init
<1>1. PlacesTyped
  BY DEF PlacesTyped, Voices, Places
<1>2. NumbersTyped
  <2>1. ring \in [0..Preroll - 1 -> 0..MaxFrames]
    OBVIOUS
  <2>2. pos \in 0..Preroll - 1 /\ sent \in Seq(1..MaxFrames)
    OBVIOUS
  <2>3. full \in BOOLEAN
    OBVIOUS
  <2>4. /\ frame \in 0..MaxFrames /\ faults \in 0..MaxFaults
        /\ due \subseteq 1..MaxFrames /\ spent \in 0..frame
    OBVIOUS
  <2> QED BY <2>1, <2>2, <2>3, <2>4 DEF NumbersTyped, RingTyped
<1>3. Kept = 0
  BY DEF Kept
<1>4. \A d \in 0..Kept - 1 : FALSE
  BY <1>3
<1>5. RingInv
  BY <1>4 DEF RingInv
<1>6. PlaceInv /\ OpenInv
  BY DEF PlaceInv, OpenInv, Starting
<1>7. SentInv /\ DueInv
  BY DEF SentInv, SentInOrder, DueInv, Starting
<1> QED BY <1>1, <1>2, <1>5, <1>6, <1>7, TypeParts DEF IInv

LEMMA StepInv == IInv /\ [Next]_vars => IInv'
<1> SUFFICES ASSUME IInv, [Next]_vars PROVE IInv'
  OBVIOUS
<1> USE DEF IInv
<1>1. PlacesTyped' /\ NumbersTyped'
  BY TypeParts, PlacesStep, NumbersStep
<1>2. TypeOK'
  BY <1>1 DEF PlacesTyped, NumbersTyped, RingTyped, TypeOK
<1> QED BY <1>2, PlaceStep, OpenStep, RingStep, SentStep, DueStep

\* The strengthened invariant of the thread that sends the microphone: types,
\* where it has a connection, what its buffer holds, what it still owes.
THEOREM UplinkInductive == Spec => []IInv
BY InitInv, StepInv, PTL DEF Spec

\* Every variable has its type: the position stays within the buffer
\* (audio_uplink.c:918), and what is sent are frames that were taken.
THEOREM UplinkTypeCorrect == Spec => []TypeOK
<1>1. IInv => TypeOK
  BY DEF IInv
<1> QED BY <1>1, UplinkInductive, PTL

\* What is sent of a sentence is in the order in which it was taken, for
\* every size of the buffer (audio_uplink.c:637-670, 963-974).
THEOREM SentIsInOrder == Spec => []SentInOrder
<1>1. IInv => SentInOrder
  BY DEF IInv, SentInv
<1> QED BY <1>1, UplinkInductive, PTL

\* What nothing keeps from being sent is sent: the frames of the sentence and
\* those right before it, as many as the buffer has room for.
THEOREM NothingIsLost == Spec => []NothingLost
<1>1. IInv => NothingLost
  BY DEF IInv, DueInv, NothingLost, Starting
<1> QED BY <1>1, UplinkInductive, PTL

\* The START of a sentence that is not dropped gets its END when its end is
\* heard, on a connection that is served and on which nothing has failed
\* (audio_uplink.c:976-986).  Dropped ones (:146) and the START that
\* music_play_pre sends are not promised one, and the code sends them none.
THEOREM SentencesAreEnded == Spec => []StartIsEnded
<1>1. IInv => StartIsEnded
  BY DEF IInv, OpenInv, StartIsEnded, Handle
<1> QED BY <1>1, UplinkInductive, PTL

\* The thread implements Sentences: its START goes out on a live connection and
\* not after a frame of its sentence, frames go out once, in their order and
\* while the sentence lasts, an END not within it, whatever is reset, refused,
\* cut off or said by another thread in between (audio_uplink.c:829-986).
THEOREM UplinkSaysSentences == Spec => SentencesSpec
<1>1. Init => Said!Init
  BY DEF Init, Said!Init
<1>2. IInv /\ [Next]_vars => [Said!Next]_Said!vars
  <2>1. CASE UNCHANGED vars
    BY <2>1 DEF vars, appVars, historyVars, Said!vars
  <2> QED BY <2>1, AroundSays, ThreadSays DEF IInv, Next
<1> QED BY <1>1, <1>2, UplinkInductive, PTL DEF Spec, SentencesSpec, Said!Spec
=============================================================================
