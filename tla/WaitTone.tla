------------------------------- MODULE WaitTone -------------------------------
(***************************************************************************)
(* The tone that loops while the server searches the web, and the music    *)
(* held back while the client speaks: src/src/prompt_tone.c and the parts  *)
(* of src/src/bithion_core_compat.c that start, stop and defer them.       *)
(*                                                                         *)
(* Three kinds of thread meet here: the ws thread with the server's        *)
(* messages, the TTS player, and the short-lived threads the first two     *)
(* create, one kind that waits for the speech to end (a waiter) and one    *)
(* that repeats the tone.  The TTS player and the music player are reduced *)
(* to what is asked of them here; TtsPlayback and MusicPlayer have them in *)
(* full.                                                                   *)
(***************************************************************************)
EXTENDS Naturals

CONSTANTS
  Threads,     \* places for threads of each kind: creating one more fails
  MaxFrames,   \* bound on the packets of speech waiting to be played
  MaxStarts    \* bound on WEB_SEARCH_WAIT_AUDIO_START

ASSUME BoundsAssumption == MaxFrames \in Nat /\ MaxStarts \in Nat

VARIABLES
  \* the session, under its mutex
  pending, waiterRunning, pendingMusic, vadStarted, completed,
  \* the tone, under g_prompt_mutex
  active, toneRunning,
  \* the places of the threads
  waiter, tone, w, t,
  \* zh_music_player_is_active(): the tone, a list or a Baidu query is in
  \* the music player's hands
  musicActive,
  \* the speech: packets to be played, g_tts_playing
  frames, speaking,
  \* bound
  starts

sessionVars == <<pending, waiterRunning, pendingMusic, vadStarted, completed>>
toneVars    == <<active, toneRunning>>
places      == <<waiter, tone, w, t>>
speechVars  == <<frames, speaking>>

vars == <<sessionVars, toneVars, places, musicActive, speechVars,
          starts>>

-----------------------------------------------------------------------------
\* zh_udp_tts_is_busy()
Busy == speaking \/ frames > 0

\* zh_udp_tts_is_round_done(), away from the sub-rounds of TtsPlayback
RoundDone == completed /\ ~Busy

\* A request to the music player replaces what it has; an item that is
\* interrupted may take its time.
PlayMusic == musicActive' = TRUE

InterruptMusic == musicActive' \in {musicActive, FALSE}

Init ==
  /\ pending = FALSE /\ waiterRunning = FALSE /\ pendingMusic = FALSE
  /\ vadStarted = FALSE /\ completed = FALSE
  /\ active = FALSE /\ toneRunning = FALSE
  /\ waiter = [i \in Threads |-> "none"]
  /\ tone = [i \in Threads |-> "none"]
  /\ w = "idle" /\ t = "read"
  /\ musicActive = FALSE
  /\ frames = 0 /\ speaking = FALSE
  /\ starts = 0

\* A place for one more thread.
HasFree(threads) == \E i \in Threads : threads[i] = "none"

Free(threads) == CHOOSE i \in Threads : threads[i] = "none"

-----------------------------------------------------------------------------
(* zh_prompt_tone_start_web_search_wait and _stop_web_search_wait, for the *)
(* thread that calls them.                                                 *)

\* Under the mutex: raise active, claim the thread when there is none.
RaiseTone ==
  /\ active' = TRUE
  /\ toneRunning' = TRUE

\* pthread_create, or its failure.
CreateTone ==
  \/ /\ HasFree(tone)
     /\ tone' = [tone EXCEPT ![Free(tone)] = "top"]
     /\ UNCHANGED toneVars
  \/ active' = FALSE /\ toneRunning' = FALSE /\ UNCHANGED tone

\* Mutant: the thread counts as gone as soon as it is told to stop.
LowerBoth == active' = FALSE /\ toneRunning' = FALSE

LowerTone == active' = FALSE /\ UNCHANGED toneRunning

-----------------------------------------------------------------------------
(* The thread that repeats the tone.                                       *)

MoveTone(i, from, to) ==
  /\ tone[i] = from
  /\ tone' = [tone EXCEPT ![i] = to]
  /\ UNCHANGED <<sessionVars, waiter, w, t, speechVars, starts>>

ToneTop(i) ==
  /\ MoveTone(i, "top", IF active THEN "check" ELSE "leave")
  /\ UNCHANGED <<toneVars, musicActive>>

\* The music player was started before (zh_app_start_with_config).
ToneCheck(i) ==
  /\ MoveTone(i, "check", IF musicActive THEN "wait" ELSE "play")
  /\ UNCHANGED <<toneVars, musicActive>>

TonePlay(i) ==
  /\ MoveTone(i, "play", "wait")
  /\ PlayMusic
  /\ UNCHANGED toneVars

\* Mutant: the loop waits for the music alone.
WaitForMusic == ~musicActive

WaitIsOver == ~active \/ ~musicActive

ToneWait(i) ==
  /\ WaitIsOver
  /\ MoveTone(i, "wait", "top")
  /\ UNCHANGED <<toneVars, musicActive>>

\* The mark is lowered in a critical section of its own.
ToneLeave(i) ==
  /\ MoveTone(i, "leave", "none")
  /\ toneRunning' = FALSE
  /\ UNCHANGED <<active, musicActive>>

-----------------------------------------------------------------------------
(* The thread that waits for the speech to end.                            *)

WaiterBusy(i) ==
  /\ waiter[i] = "busy"
  /\ waiter' = [waiter EXCEPT ![i] = IF Busy THEN "poll" ELSE "decide"]
  /\ UNCHANGED <<sessionVars, toneVars, tone, w, t, musicActive, speechVars,
                 starts>>

WaiterPoll(i) ==
  /\ waiter[i] = "poll"
  /\ waiter' = [waiter EXCEPT ![i] = IF pending THEN "busy" ELSE "decide"]
  /\ UNCHANGED <<sessionVars, toneVars, tone, w, t, musicActive, speechVars,
                 starts>>

\* Mutant: a waiter with nothing left to start does not give up its mark.
RetireOnStart == pending' = FALSE /\ waiterRunning' = ~pending

Retire == pending' = FALSE /\ waiterRunning' = FALSE

\* What it found is acted upon after the mutex is released.
WaiterDecide(i) ==
  /\ waiter[i] = "decide"
  /\ waiter' = [waiter EXCEPT ![i] = IF pending THEN "start" ELSE "none"]
  /\ Retire
  /\ UNCHANGED <<pendingMusic, vadStarted, completed, toneVars, tone, w, t,
                 musicActive, speechVars, starts>>

WaiterStart(i) ==
  /\ waiter[i] = "start"
  /\ RaiseTone
  /\ waiter' = [waiter EXCEPT ![i] = IF toneRunning THEN "none" ELSE "create"]
  /\ UNCHANGED <<sessionVars, tone, w, t, musicActive, speechVars, starts>>

WaiterCreate(i) ==
  /\ waiter[i] = "create"
  /\ CreateTone
  /\ waiter' = [waiter EXCEPT ![i] = "none"]
  /\ UNCHANGED <<sessionVars, w, t, musicActive, speechVars, starts>>

-----------------------------------------------------------------------------
(* The ws thread: one message at a time.                                   *)

\* WEB_SEARCH_WAIT_AUDIO_START: at once when the client is not speaking.
WaitAudioStart ==
  /\ w = "idle" /\ starts < MaxStarts
  /\ starts' = starts + 1
  /\ w' = IF Busy THEN "arm" ELSE "start"
  /\ UNCHANGED <<sessionVars, toneVars, waiter, tone, t, musicActive,
                 speechVars>>

WsStart ==
  /\ w = "start"
  /\ RaiseTone
  /\ w' = IF toneRunning THEN "idle" ELSE "create"
  /\ UNCHANGED <<sessionVars, waiter, tone, t, musicActive, speechVars,
                 starts>>

WsCreate ==
  /\ w = "create"
  /\ CreateTone
  /\ w' = "idle"
  /\ UNCHANGED <<sessionVars, waiter, t, musicActive, speechVars, starts>>

Arm ==
  /\ w = "arm"
  /\ pending' = TRUE
  /\ waiterRunning' = TRUE
  /\ w' = IF waiterRunning THEN "idle" ELSE "createWaiter"
  /\ UNCHANGED <<pendingMusic, vadStarted, completed, toneVars, waiter, tone,
                 t, musicActive, speechVars, starts>>

CreateWaiter ==
  /\ w = "createWaiter"
  /\ w' = "idle"
  /\ \/ /\ HasFree(waiter)
        /\ waiter' = [waiter EXCEPT ![Free(waiter)] = "busy"]
        /\ UNCHANGED <<pending, waiterRunning>>
     \/ pending' = FALSE /\ waiterRunning' = FALSE /\ UNCHANGED waiter
  /\ UNCHANGED <<pendingMusic, vadStarted, completed, toneVars, tone, t,
                 musicActive, speechVars, starts>>

\* VAD_START stops the tone but leaves pending as it is, ...
VadStop ==
  /\ w = "idle"
  /\ LowerTone
  /\ w' = "vadMark"
  /\ UNCHANGED <<sessionVars, waiter, tone, t, musicActive, speechVars,
                 starts>>

\* ... interrupts the music when it was on, then the speech, once in a
\* round.
VadMark ==
  /\ w = "vadMark"
  /\ InterruptMusic
  /\ vadStarted' = TRUE
  /\ completed' = (completed /\ vadStarted)
  /\ w' = IF vadStarted THEN "idle" ELSE "interrupt"
  /\ UNCHANGED <<pending, waiterRunning, pendingMusic, toneVars, waiter, tone,
                 t, speechVars, starts>>

\* zh_udp_tts_interrupt lowers g_tts_playing and has the packets dropped.
InterruptSpeech ==
  /\ w = "interrupt"
  /\ speaking' = FALSE
  /\ frames' \in {0, frames}
  /\ w' = "idle"
  /\ UNCHANGED <<sessionVars, toneVars, waiter, tone, t, musicActive, starts>>

\* music_server: play at once, or hold the list back while speaking.
MusicServer ==
  /\ w = "idle"
  /\ w' = IF Busy THEN "queueList" ELSE "playList"
  /\ UNCHANGED <<sessionVars, toneVars, waiter, tone, t, musicActive,
                 speechVars, starts>>

QueueList ==
  /\ w = "queueList"
  /\ pendingMusic' = TRUE
  /\ w' = "idle"
  /\ UNCHANGED <<pending, waiterRunning, vadStarted, completed, toneVars,
                 waiter, tone, t, musicActive, speechVars, starts>>

PlayList ==
  /\ w = "playList"
  /\ PlayMusic
  /\ w' = "idle"
  /\ UNCHANGED <<sessionVars, toneVars, waiter, tone, t, speechVars, starts>>

BaiduAudio ==
  /\ w = "idle"
  /\ PlayMusic
  /\ UNCHANGED <<sessionVars, toneVars, places, speechVars, starts>>

TtsCompleted ==
  /\ w = "idle"
  /\ completed' = TRUE
  /\ UNCHANGED <<pending, waiterRunning, pendingMusic, vadStarted, toneVars,
                 places, musicActive, speechVars, starts>>

\* The uplink's START and the core's voice detection begin a round.
ResetRound ==
  /\ vadStarted' = FALSE
  /\ completed' = FALSE
  /\ UNCHANGED <<pending, waiterRunning, pendingMusic, toneVars, places,
                 musicActive, speechVars, starts>>

\* The session ends and the next one begins: zh_ws_close and
\* zh_ws_session_reset drop the held list, and leave the tone alone.
Reconnect ==
  /\ w = "idle" /\ t = "read"
  /\ pendingMusic' = FALSE /\ vadStarted' = FALSE /\ completed' = FALSE
  /\ frames' = 0 /\ speaking' = FALSE
  /\ UNCHANGED <<pending, waiterRunning, toneVars, places, musicActive,
                 starts>>

-----------------------------------------------------------------------------
(* The TTS player, from a packet read to its playing, and its idle turns.  *)

Receive ==
  /\ frames < MaxFrames
  /\ frames' = frames + 1
  /\ UNCHANGED <<sessionVars, toneVars, places, musicActive, speaking, starts>>

MoveTts(from, to) ==
  /\ t = from
  /\ t' = to
  /\ UNCHANGED <<vadStarted, completed, waiterRunning, waiter, tone, w,
                 starts>>

TakeFrame == frames' = frames - 1

\* A packet is read, and dropped when it is an interrupted round's.
TtsRead ==
  /\ frames > 0
  /\ TakeFrame
  /\ t' \in {"read", "cancel"}
  /\ t = "read"
  /\ UNCHANGED <<sessionVars, toneVars, waiter, tone, w, musicActive, speaking,
                 starts>>

\* zh_ws_cancel_web_search_wait_audio
TtsCancel ==
  /\ MoveTts("cancel", "stop")
  /\ pending' = FALSE
  /\ UNCHANGED <<pendingMusic, toneVars, musicActive, speechVars>>

TtsStopTone ==
  /\ MoveTts("stop", "music")
  /\ LowerTone
  /\ UNCHANGED <<pending, pendingMusic, musicActive, speechVars>>

\* The music is interrupted when the tone was on, and again unless it waits
\* for this very speech.
TtsMusic ==
  /\ MoveTts("music", "play")
  /\ InterruptMusic
  /\ UNCHANGED <<pending, pendingMusic, toneVars, speechVars>>

\* The frame is played, unless the device does not open or a flush is due.
TtsPlay ==
  /\ MoveTts("play", "inner")
  /\ speaking' \in {speaking, TRUE}
  /\ UNCHANGED <<pending, pendingMusic, toneVars, musicActive, frames, starts>>

\* The inner loop plays what has arrived; the device is released at the
\* end of the round and on a flush.
TtsInner ==
  /\ MoveTts("inner", "read")
  /\ frames' \in 0..frames
  /\ speaking' \in {speaking, FALSE}
  /\ UNCHANGED <<pending, pendingMusic, toneVars, musicActive, starts>>

\* Nothing to read: the idle timeout stops the playback, ...
TtsIdle ==
  /\ t = "read" /\ frames = 0
  /\ speaking
  /\ speaking' = FALSE
  /\ UNCHANGED <<sessionVars, toneVars, places, musicActive, frames, starts>>

\* Mutant: the held list waits for other music to end.
TakeWhenSilent == frames = 0 /\ RoundDone /\ ~musicActive

MayTake == frames = 0 /\ RoundDone

\* ... and a round that is done lets the held list go.
TakeMusic ==
  /\ MayTake /\ pendingMusic
  /\ MoveTts("read", "playList")
  /\ pendingMusic' = FALSE
  /\ UNCHANGED <<pending, toneVars, musicActive, speechVars, starts>>

PlayTaken ==
  /\ MoveTts("playList", "read")
  /\ PlayMusic
  /\ UNCHANGED <<pending, pendingMusic, toneVars, speechVars, starts>>

-----------------------------------------------------------------------------
(* The music player.                                                       *)

MusicEnds ==
  /\ musicActive
  /\ musicActive' = FALSE
  /\ UNCHANGED <<sessionVars, toneVars, places, speechVars, starts>>

-----------------------------------------------------------------------------
ToneThread(i) ==
  ToneTop(i) \/ ToneCheck(i) \/ TonePlay(i) \/ ToneWait(i) \/ ToneLeave(i)

WaiterThread(i) ==
  \/ WaiterBusy(i) \/ WaiterPoll(i) \/ WaiterDecide(i) \/ WaiterStart(i)
  \/ WaiterCreate(i)

\* A message that is being handled.
Handling ==
  \/ WsStart \/ WsCreate \/ Arm \/ CreateWaiter \/ VadMark
  \/ InterruptSpeech \/ QueueList \/ PlayList

Message ==
  WaitAudioStart \/ VadStop \/ MusicServer \/ BaiduAudio \/ TtsCompleted

Tts ==
  \/ TtsRead \/ TtsCancel \/ TtsStopTone \/ TtsMusic \/ TtsPlay
  \/ TtsInner \/ TtsIdle \/ TakeMusic \/ PlayTaken

Next ==
  \/ \E i \in Threads : ToneThread(i) \/ WaiterThread(i)
  \/ Handling \/ Message \/ ResetRound \/ Reconnect
  \/ Receive \/ Tts \/ MusicEnds

Spec == Init /\ [][Next]_vars

(* The threads are scheduled; the music need not end, nor the server speak *)
(* again.                                                                  *)
LiveSpec ==
  /\ Spec
  /\ WF_vars(\E i \in Threads : ToneThread(i))
  /\ WF_vars(Handling)
  /\ WF_vars(Tts)

\* Each thread by itself, the waiters too: what a refutation may assume.
FairSpec ==
  /\ LiveSpec
  /\ \A i \in Threads : WF_vars(ToneThread(i)) /\ WF_vars(WaiterThread(i))

-----------------------------------------------------------------------------
(* Properties.                                                             *)

MarksTyped ==
  /\ pending \in BOOLEAN /\ waiterRunning \in BOOLEAN
  /\ pendingMusic \in BOOLEAN /\ vadStarted \in BOOLEAN
  /\ completed \in BOOLEAN /\ active \in BOOLEAN /\ toneRunning \in BOOLEAN
  /\ musicActive \in BOOLEAN /\ speaking \in BOOLEAN

PlacesTyped ==
  /\ waiter \in [Threads -> {"none", "busy", "poll", "decide", "start",
                             "create"}]
  /\ tone \in [Threads -> {"none", "top", "check", "play", "wait", "leave"}]
  /\ w \in {"idle", "arm", "start", "create", "createWaiter", "vadMark",
            "interrupt", "queueList", "playList"}
  /\ t \in {"read", "cancel", "stop", "music", "play", "inner", "playList"}

CountsTyped == frames \in Nat /\ starts \in Nat

(* Every variable has its type.                                            *)
TypeOK == MarksTyped /\ PlacesTyped /\ CountsTyped

\* The threads in their loops.
Looping == {i \in Threads : tone[i] # "none"}
Waiting == {i \in Threads : waiter[i] \in {"busy", "poll", "decide"}}

(* However starts, stops and failed creations interleave, there is at most *)
(* one thread repeating the tone and one waiting for the speech to end:    *)
(* the two marks are raised and lowered with their threads.                *)
OneOfEach ==
  /\ \A i, j \in Looping : i = j
  /\ \A i, j \in Waiting : i = j

(* A tone that was put off is always in someone's hands: the waiter's mark *)
(* never says that someone waits when no one does, though the waiter may   *)
(* be just leaving (bithion_core_compat.c:248, 277).                       *)
PendingHasWaiter == pending => Waiting # {} \/ w = "createWaiter"

(* A stopped loop ends, whatever else the music player is playing.         *)
ToneLoopEnds == ~active ~> (active \/ Looping = {})

(* A list held back while the client was busy is let go once the round is  *)
(* done, though it may be queued after the end was reported.               *)
HeldListIsPlayed == pendingMusic ~> (~pendingMusic \/ ~RoundDone)

-----------------------------------------------------------------------------
(* What the proofs of WaitToneProofs add to the properties above to make   *)
(* them inductive.                                                         *)

\* Whoever has claimed the tone's thread and is about to create it, and the
\* thread itself: at most one of all these, and the mark is up for it.
ToneInv ==
  /\ \A i, j \in Threads : waiter[i] = "create" /\ waiter[j] = "create" => i = j
  /\ w = "create" => toneRunning /\ \A i \in Threads : waiter[i] # "create"
  /\ \A i \in Threads : waiter[i] = "create" => toneRunning
  /\ \A i, j \in Looping : i = j
  /\ Looping # {} => /\ toneRunning
                    /\ w # "create"
                    /\ \A i \in Threads : waiter[i] # "create"

\* The same of the waiter, and its mark is up for nothing else.
WaiterInv ==
  /\ \A i, j \in Waiting : i = j
  /\ w = "createWaiter" => Waiting = {}
  /\ waiterRunning <=> Waiting # {} \/ w = "createWaiter"
  /\ pending => waiterRunning
=============================================================================
