---------------------------- MODULE AudioUplink ----------------------------
(* The microphone's way to the server (audio_uplink.c): the thread takes   *)
(* frames from the device, has the core look for speech in them and sends  *)
(* START, what it kept from before the speech, the speech itself and END.  *)
(* Around it the app connects and reconnects, the server marks the round   *)
(* and the client plays.                                                   *)
(*                                                                         *)
(* A frame is its number in the order in which the detection took them.    *)
(* Left out: dumps, opus, the messages about music and dialog, and the     *)
(* mark of speech of the face module, which is `active' of FaceEngine.     *)
EXTENDS Naturals, Sequences

CONSTANTS
  Aec,         \* ZH_ENABLE_AEC: speech is found while the client plays
  Preroll,     \* ZH_VAD_PREROLL_FRAMES
  MaxFrames,   \* bound on the frames
  MaxFaults    \* bound on what fails although it could succeed

ASSUME AecAssumption     == Aec \in BOOLEAN
ASSUME PrerollAssumption == Preroll \in Nat \ {0}
ASSUME BoundsAssumption  == MaxFrames \in Nat /\ MaxFaults \in Nat

VARIABLES
  \* the app's place, and whether the connection is up
  app, conn,
  \* the round's marks in the session, the second for: TTS_COMPLETED and
  \* nothing received is left to play; what the client plays
  stt, completed, voice,
  \* the thread: place, and its copy of g_uplink_ws being set
  at, ws,
  \* speech_active
  speech,
  \* preroll, preroll_pos, preroll_full
  ring, pos, full,
  \* the last frame taken
  frame,
  faults,
  \* history: which START the server has of this connection without an END
  \* after it (of the sentence being said, of one that was dropped, of
  \* music_play_pre, or none), the frames of the sentence in hand that the core
  \* accepted, those due to it, the last frame before the sentence, whether
  \* nothing has kept a due frame from being sent, and whether the server has
  \* recognized something on this connection
  open, sent, due, spent, unhindered, recognized

appVars    == <<app, conn>>
roundVars  == <<stt, completed, recognized>>
ringVars   == <<ring, pos, full>>
historyVars == <<open, sent, due, spent, unhindered>>

vars == <<appVars, roundVars, voice, at, ws, speech, ringVars,
          frame, faults, historyVars>>

Voices == {"quiet", "speech", "music"}

Init ==
  /\ app = "start" /\ conn = FALSE
  /\ stt = FALSE /\ completed = FALSE /\ recognized = FALSE
  /\ voice = "quiet"
  /\ at = "none" /\ ws = FALSE
  /\ speech = FALSE
  /\ ring = [i \in 0..Preroll - 1 |-> 0] /\ pos = 0 /\ full = FALSE
  /\ frame = 0
  /\ faults = 0
  /\ open = "none" /\ sent = <<>> /\ due = {} /\ spent = 0
  /\ unhindered = FALSE

FaultIf(good) ==
  IF good THEN faults < MaxFaults /\ faults' = faults + 1
          ELSE UNCHANGED faults

-----------------------------------------------------------------------------
(* The app: zh_run_session, as far as it concerns the microphone.          *)

AppOnly ==
  UNCHANGED <<voice, ws, speech, ringVars, frame, sent, due, spent,
              unhindered>>

Handle == app = "loop"

NextTry == IF at = "none" THEN "start" ELSE "connect"

\* zh_audio_uplink_start, once; again in the next session if it failed.
Start ==
  /\ app = "start" /\ app' = "connect"
  /\ at' = "open"
  /\ AppOnly /\ UNCHANGED <<conn, roundVars, faults, open>>

StartFails ==
  /\ app = "start" /\ app' = "connect"
  /\ FaultIf(TRUE)
  /\ AppOnly /\ UNCHANGED <<conn, roundVars, at, open>>

\* zh_ws_reset_round_state_locked.
ClearRound == stt' = FALSE /\ completed' = FALSE

\* Mutant: a new session starts with the marks of the former one.
KeepRound == UNCHANGED <<stt, completed>>

\* zh_ws_session_reset.
SessionReset == ClearRound

\* The app has waited ZH_WS_RECONNECT_INTERVAL_MS: the frame that was taken
\* for the former connection is done with.
FrameIsOver == at \in {"none", "open", "read", "gone"} \/ ~ws

Connect ==
  /\ app = "connect" /\ app' = "set"
  /\ FrameIsOver
  /\ conn' = TRUE /\ open' = "none"
  /\ SessionReset /\ recognized' = FALSE
  /\ AppOnly /\ UNCHANGED <<at, faults>>

NoConnection ==
  /\ app = "connect" /\ app' = NextTry
  /\ SessionReset
  /\ AppOnly /\ UNCHANGED <<conn, recognized, at, faults, open>>

SetWs ==
  /\ app = "set" /\ app' = "loop"
  /\ AppOnly /\ UNCHANGED <<conn, roundVars, at, faults, open>>

\* zh_ws_run_loop returns; zh_audio_uplink_set_ws(NULL).
LoopEnds ==
  /\ app = "loop" /\ app' = "close"
  /\ AppOnly /\ UNCHANGED <<conn, roundVars, at, faults, open>>

Close ==
  /\ app = "close" /\ app' = NextTry
  /\ conn' = FALSE /\ recognized' = FALSE
  /\ AppOnly /\ UNCHANGED <<stt, completed, at, faults, open>>

App ==
  \/ Start \/ StartFails \/ Connect \/ NoConnection \/ SetWs \/ LoopEnds
  \/ Close

-----------------------------------------------------------------------------
(* The server and the players.                                             *)

Others ==
  UNCHANGED <<app, at, ws, speech, ringVars, frame, faults,
              historyVars>>

Drop ==
  /\ conn /\ conn' = FALSE /\ recognized' = FALSE
  /\ Others /\ UNCHANGED <<stt, completed, voice>>

SttCompleted ==
  /\ conn
  /\ stt' = TRUE /\ recognized' = TRUE
  /\ Others /\ UNCHANGED <<conn, completed, voice>>

\* ... and the player has taken what came before it.
TtsCompleted ==
  /\ conn
  /\ completed' = TRUE
  /\ Others /\ UNCHANGED <<conn, stt, recognized, voice>>

\* The core says that speech is active.
ResetRound ==
  /\ ClearRound
  /\ Others /\ UNCHANGED <<conn, recognized, voice>>

\* zh_udp_tts_begin_subround, or one more packet.
MoreToPlay ==
  /\ completed' = FALSE
  /\ Others /\ UNCHANGED <<conn, stt, recognized, voice>>

Plays ==
  /\ voice' \in Voices \ {voice}
  /\ Others /\ UNCHANGED <<conn, roundVars>>

\* music_play_pre: the connection's thread sends a START of its own, whatever
\* the microphone's is doing, and nobody sends an END for it.
PreparesMusic ==
  /\ conn
  /\ open' = IF open = "sentence" THEN open ELSE "music"
  /\ UNCHANGED <<appVars, roundVars, voice, at, ws, speech, ringVars, frame,
                 faults, sent, due, spent, unhindered>>

World ==
  \/ Drop \/ SttCompleted \/ TtsCompleted \/ ResetRound \/ MoreToPlay
  \/ Plays \/ PreparesMusic

\* zh_music_player_is_active or zh_udp_tts_is_playing.
Playing == voice \in {"speech", "music"}

\* zh_udp_tts_is_round_done.
RoundDone == completed /\ voice # "speech"

-----------------------------------------------------------------------------
(* The thread: zh_audio_uplink_thread_main.                                *)

\* ws is local to a turn of the loop.
Go(from, to) ==
  /\ at = from /\ at' = to
  /\ ws' = (ws /\ to # "read")

ThreadOnly == UNCHANGED <<appVars, voice>>

\* The device is tried until it opens, ...
Opened ==
  /\ Go("open", "read")
  /\ ThreadOnly
  /\ UNCHANGED <<roundVars, speech, ringVars, frame, faults, historyVars>>

\* ... but nothing else is: without detection or encoder the thread leaves.
SetupFails ==
  /\ Go("open", "gone")
  /\ FaultIf(TRUE)
  /\ ThreadOnly
  /\ UNCHANGED <<roundVars, speech, ringVars, frame, historyVars>>

EmptyRing == pos' = 0 /\ full' = FALSE /\ UNCHANGED ring

\* zh_core_uplink_reset: the core drops what it holds of the sentence.  The
\* server is sent nothing, and has the START still.
DropSegment == open' = IF open = "sentence" THEN "dropped" ELSE open

NoSentence == sent' = <<>> /\ due' = {} /\ unhindered' = FALSE

\* Mutant: speech_active is not reset.
ResetRingOnly ==
  /\ UNCHANGED speech
  /\ EmptyRing
  /\ DropSegment
  /\ NoSentence /\ spent' = frame
  /\ UNCHANGED <<frame, faults>>

\* zh_audio_uplink_reset_vad_round.
ResetVadRound ==
  /\ speech' = FALSE
  /\ EmptyRing
  /\ DropSegment
  /\ NoSentence /\ spent' = frame
  /\ UNCHANGED <<frame, faults>>

\* A frame taken while the client plays, by a build that would hear itself.
\* The code resets at the first of them only; the others find all reset.
SkipPlaying ==
  /\ Go("read", "read")
  /\ ~Aec /\ Playing
  /\ ResetVadRound
  /\ ThreadOnly /\ UNCHANGED roundVars

Take ==
  /\ at = "read" /\ at' = "taken"
  /\ Aec \/ ~Playing
  /\ ws' = Handle
  /\ ThreadOnly
  /\ UNCHANGED <<roundVars, speech, ringVars, frame, faults, historyVars>>

\* The answer to what was recognized is not over.
SuppressAfterStt == ~Aec /\ ws /\ stt /\ ~RoundDone

SkipAnswer ==
  /\ Go("taken", "read")
  /\ SuppressAfterStt
  /\ ResetVadRound
  /\ ThreadOnly /\ UNCHANGED roundVars

Listen ==
  /\ Go("taken", "detect")
  /\ ~SuppressAfterStt
  /\ ThreadOnly
  /\ UNCHANGED <<roundVars, speech, ringVars, frame, faults, historyVars>>

\* zh_core_vad_process fails: the frame is lost for everyone.
DetectFails ==
  /\ Go("detect", "read")
  /\ FaultIf(TRUE)
  /\ ThreadOnly
  /\ UNCHANGED <<roundVars, speech, ringVars, frame, historyVars>>

Detect(to) ==
  /\ Go("detect", to)
  /\ frame < MaxFrames /\ frame' = frame + 1
  /\ ThreadOnly /\ UNCHANGED <<roundVars, faults, open>>

\* Mutant: the frame in which speech is found is not kept.
StoreSilence ==
  IF speech' THEN UNCHANGED ringVars
  ELSE /\ ring' = [ring EXCEPT ![pos] = frame']
       /\ pos' = IF pos + 1 = Preroll THEN 0 ELSE pos + 1
       /\ full' = (full \/ pos + 1 = Preroll)

\* A frame is kept that comes before speech, or with which it is found.
Store ==
  /\ ring' = [ring EXCEPT ![pos] = frame']
  /\ pos' = IF pos + 1 = Preroll THEN 0 ELSE pos + 1
  /\ full' = (full \/ pos + 1 = Preroll)

Silence ==
  /\ ~speech /\ UNCHANGED speech
  /\ Detect("read") /\ Store
  /\ NoSentence /\ UNCHANGED spent

SpeechStarts ==
  /\ ~speech /\ speech' = TRUE
  /\ Detect(IF ws THEN "begin" ELSE "read") /\ Store
  /\ sent' = <<>> /\ unhindered' = FALSE
  /\ due' = {i \in spent + 1..frame' : i + Preroll > frame'}
  /\ UNCHANGED spent

SpeechGoesOn ==
  /\ speech
  /\ Detect(IF ws THEN "frame" ELSE "read")
  /\ due' = due \cup {frame'}
  /\ unhindered' = (unhindered /\ ws)
  /\ UNCHANGED <<speech, ringVars, sent, spent>>

SpeechEnds ==
  /\ speech /\ speech' = FALSE
  /\ Detect(IF ws THEN "end" ELSE "read")
  /\ spent' = frame'
  /\ UNCHANGED <<ringVars, sent, due, unhindered>>

Send ==
  /\ ThreadOnly
  /\ UNCHANGED <<speech, ringVars, frame, due, spent>>

\* zh_core_uplink_begin_segment: START, and then the round's marks.
SendStart ==
  /\ Go("begin", "round")
  /\ conn
  /\ open' = "sentence" /\ unhindered' = TRUE
  /\ Send /\ UNCHANGED <<roundVars, faults, sent>>

StartRound ==
  /\ Go("round", "preroll")
  /\ ClearRound
  /\ Send /\ UNCHANGED <<recognized, faults, open, sent, unhindered>>

NoStart ==
  /\ Go("begin", "frame")
  /\ FaultIf(conn)
  /\ Send /\ UNCHANGED <<roundVars, open, sent, unhindered>>

\* What is kept, the oldest first.
Kept == IF full THEN Preroll ELSE pos

\* Mutant: from the first slot, though the buffer has wrapped.
FirstSlot(k) == k - 1

Slot(k) ==
  IF ~full THEN k - 1
  ELSE IF pos + k > Preroll THEN pos + k - 1 - Preroll
  ELSE pos + k - 1

Flushed(count) == [k \in 1..count |-> ring[Slot(k)]]

\* zh_audio_uplink_flush_preroll: it ends with the frame in hand, ...
FlushPreroll ==
  /\ Go("preroll", "read")
  /\ sent' = Flushed(Kept)
  /\ Send /\ UNCHANGED <<roundVars, faults, open, unhindered>>

\* ... which is sent by itself when one before it was refused.
FlushFails ==
  /\ Go("preroll", "frame")
  /\ \E count \in 0..Kept - 1 : sent' = Flushed(count)
  /\ unhindered' = FALSE
  /\ FaultIf(conn)
  /\ Send /\ UNCHANGED <<roundVars, open>>

SubmitFrame ==
  /\ Go("frame", "read")
  /\ sent' = Append(sent, frame)
  /\ Send /\ UNCHANGED <<roundVars, faults, open, unhindered>>

SubmitFails ==
  /\ Go("frame", "read")
  /\ unhindered' = FALSE
  /\ FaultIf(conn)
  /\ Send /\ UNCHANGED <<roundVars, open, sent>>

\* Mutant: no END after a tail that was not flushed in time.
EndAfterTail == open' \in {open, "none"}

\* The tail is flushed, or is not within ZH_UPLINK_END_FLUSH_WAIT_MS.
EndAnyway == open' = "none"

SendEnd ==
  /\ Go("end", "read")
  /\ conn
  /\ EndAnyway
  /\ Send /\ UNCHANGED <<roundVars, faults, sent, unhindered>>

NoEnd ==
  /\ Go("end", "read")
  /\ FaultIf(conn)
  /\ Send /\ UNCHANGED <<roundVars, open, sent, unhindered>>

Thread ==
  \/ Opened \/ SetupFails
  \/ SkipPlaying \/ Take \/ SkipAnswer \/ Listen
  \/ DetectFails \/ Silence \/ SpeechStarts \/ SpeechGoesOn \/ SpeechEnds
  \/ SendStart \/ StartRound \/ NoStart \/ FlushPreroll \/ FlushFails
  \/ SubmitFrame \/ SubmitFails \/ SendEnd \/ NoEnd

-----------------------------------------------------------------------------

Next == App \/ World \/ Thread

Spec == Init /\ [][Next]_vars

\* The thread and the app run, the app's loop ends when the connection does;
\* the server and the players promise nothing.
Fairness ==
  /\ WF_vars(Thread)
  /\ WF_vars(Start \/ Connect \/ SetWs \/ Close)
  /\ WF_vars(~conn /\ LoopEnds)

FairSpec == Spec /\ Fairness

-----------------------------------------------------------------------------
(* Correctness.                                                            *)

Places == {"none", "open", "read", "taken", "detect", "begin", "round",
           "preroll", "frame", "end", "gone"}

TypeOK ==
  /\ app \in {"start", "connect", "set", "loop", "close"}
  /\ conn \in BOOLEAN
  /\ stt \in BOOLEAN /\ completed \in BOOLEAN /\ recognized \in BOOLEAN
  /\ voice \in Voices
  /\ at \in Places /\ ws \in BOOLEAN
  /\ speech \in BOOLEAN
  /\ ring \in [0..Preroll - 1 -> 0..MaxFrames]
  /\ pos \in 0..Preroll - 1 /\ full \in BOOLEAN
  /\ frame \in 0..MaxFrames /\ faults \in 0..MaxFaults
  /\ open \in {"none", "sentence", "dropped", "music"}
  /\ sent \in Seq(1..MaxFrames)
  /\ due \subseteq 1..MaxFrames /\ spent \in 0..frame
  /\ unhindered \in BOOLEAN

\* What is sent after a START is in the order in which it was taken, no
\* frame twice: the wrapped buffer, what was left in it, the frame in hand
\* and the frames after it, whatever is refused in between.
SentInOrder ==
  \A i, j \in 1..Len(sent) : i < j => sent[i] < sent[j]

\* Nothing of a sentence is lost between buffer and speech: if nothing kept
\* it from being sent, its frames and those right before it have been.
NothingLost ==
  at = "read" /\ unhindered =>
    \A i \in due : \E k \in 1..Len(sent) : sent[k] = i

\* The START of a sentence gets its END when the detection has heard the end,
\* as long as its connection is served and nothing has failed on it: between
\* frames it waits for one only while speech goes on (audio_uplink.c:976-986),
\* whenever the connection, the playing and the reset of the round come
\* between its frames.  A sentence that is dropped because the client plays or
\* answers gets none (:146), nor does the START of music_play_pre: the server
\* keeps those until the END of a later sentence.
StartIsEnded ==
  at = "read" /\ open = "sentence" /\ conn /\ Handle /\ faults = 0 => speech

\* What the thread sends are sentences as module Sentences has them: no START
\* of its own after a frame, frames in order while the sentence lasts and no
\* END within it, through resets in the midst of it, refusals, new connections
\* and the START of another thread (audio_uplink.c:829-986).
Said == INSTANCE Sentences WITH up <- conn, speaking <- speech, begun <- open

SentencesSpec == Said!Spec

\* The client is not deaf for ever: once nothing plays any more, and nothing
\* more is recognized on any connection or the answer is over for good,
\* frames reach the detection again and again.  What a connection that was
\* lost has left behind does not prevent it.
HearsAgain ==
  <>[](~Playing /\ ~recognized) \/ <>[](~Playing /\ RoundDone) =>
    []<>(at \in {"detect", "none", "gone"})

=============================================================================
