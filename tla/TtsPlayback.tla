----------------------------- MODULE TtsPlayback -----------------------------
(***************************************************************************)
(* src/src/udp_tts.c: the thread that plays the server's speech, and the   *)
(* functions other threads call on it.  Except for the audio device, which *)
(* g_tts_playback_mutex guards, they share plain volatile variables, so    *)
(* each access of them is a step of its own (on the target's single core a *)
(* thread may be preempted between any two).                               *)
(*                                                                         *)
(* A packet of speech has no content here.  The jitter buffer, the message *)
(* TTS_COMPLETED and the chat count of STT_COMPLETED belong to the core    *)
(* library and the session; they are modelled as this file uses them.      *)
(***************************************************************************)
EXTENDS Naturals

CONSTANTS
  MaxFrames,    \* bound on the packets received
  MaxRequests,  \* bound on interrupts and sub-rounds
  MaxChats,     \* bound on the rounds of conversation
  MaxStarts     \* bound on the sessions that start playback

ASSUME BoundsAssumption ==
  /\ MaxFrames \in Nat
  /\ MaxRequests \in Nat
  /\ MaxChats \in Nat
  /\ MaxStarts \in Nat

NoChat == 0   \* the code's chat count of -1

VARIABLES
  \* the shared variables
  running, flush, playing, drop, gen, packetChat, reported, waitingFirst,
  lastAudio,
  \* g_tts_playback_mutex, and g_tts_active_playback being set
  lock, active,
  \* the player thread: its place, the place to go to after a release or a
  \* report, and its locals
  pc, then, open, readGen, got, pend, chat,
  \* the thread that calls in, at most one at a time: its place
  w,
  \* the session: TTS_COMPLETED, the chat count of STT_COMPLETED, and the last
  \* one of the server, which counts the rounds
  completed, stt, round,
  \* the transport: it runs, and the packets it holds
  transport, net,
  \* bounds, and history: the chats whose end was reported since the record of
  \* reports was last cleared, and the reports that name no chat
  received, requests, starts, sent, blanks

flags   == <<running, flush, playing, drop, gen, packetChat, reported,
             waitingFirst, lastAudio>>
device  == <<lock, active>>
locals  == <<then, open, readGen, got, pend, chat>>
session == <<completed, stt, round>>
netVars == <<transport, net>>
history == <<received, requests, starts, sent, blanks>>

vars == <<flags, device, pc, locals, w, session, netVars, history>>

-----------------------------------------------------------------------------
HasPending == net > 0

\* Mutant: what is being played is not looked at.
RoundDoneWhilePlaying == TRUE

Silent == ~playing

Init ==
  /\ running = FALSE /\ flush = FALSE /\ playing = FALSE /\ drop = FALSE
  /\ gen = 0 /\ packetChat = NoChat /\ reported = NoChat
  /\ waitingFirst = FALSE /\ lastAudio = FALSE
  /\ lock = "free" /\ active = FALSE
  /\ pc = "none" /\ then = "top" /\ open = FALSE /\ readGen = 0
  /\ got = "none" /\ pend = FALSE /\ chat = NoChat
  /\ w = "idle"
  /\ completed = FALSE /\ stt = NoChat /\ round = NoChat
  /\ transport = FALSE /\ net = 0
  /\ received = 0 /\ requests = 0 /\ starts = 0 /\ sent = {} /\ blanks = 0

-----------------------------------------------------------------------------
(* The player thread.  Some of its steps only test and move on.            *)

Goto(place) ==
  /\ pc' = place
  /\ UNCHANGED <<flags, device, locals, w, session, netVars, history>>

\* zh_tts_release_playback, then on to `place`.
Release(place) ==
  /\ pc' = "relLock"
  /\ then' = place
  /\ UNCHANGED <<flags, device, open, readGen, got, pend, chat, w, session,
                 netVars, history>>

\* A flush that was asked for is done, and then, or else, the thread goes on.
FlushAt(from, place, after) ==
  /\ pc = from
  /\ \/ flush /\ Release(after)
     \/ ~flush /\ Goto(place)

Top ==
  /\ pc = "top"
  /\ \/ ~running /\ Release("exit")
     \/ running /\ Goto("topFlush")

TopFlush == FlushAt("topFlush", "gen", "gen")

\* A flush waits for the mutex, and for the audio to drain at a round's end.
ReleaseLock ==
  /\ pc = "relLock" /\ lock = "free"
  /\ lock' = "player"
  /\ pc' = "relClose"
  /\ UNCHANGED <<flags, active, locals, w, session, netVars, history>>

\* Mutant: the closed device stays published to the interrupting thread.
KeepDevicePublished == open' = FALSE /\ UNCHANGED active

CloseDevice == open' = FALSE /\ active' = FALSE

ReleaseClose ==
  /\ pc = "relClose"
  /\ CloseDevice
  /\ lock' = "free"
  /\ lastAudio' = FALSE
  /\ playing' = FALSE
  /\ IF then \in {"gen", "dropCheck", "tail"}
     THEN pc' = "clear" /\ UNCHANGED then
     ELSE pc' = then /\ then' = "top"
  /\ UNCHANGED <<running, flush, drop, gen, packetChat, reported,
                 waitingFirst, readGen, got, pend, chat, w, session,
                 netVars, history>>

\* flush_pending is taken down after the release it asked for, whoever
\* raised it again meanwhile.
ClearFlush ==
  /\ pc = "clear"
  /\ flush' = FALSE
  /\ pc' = then /\ then' = "top"
  /\ UNCHANGED <<running, playing, drop, gen, packetChat, reported,
                 waitingFirst, lastAudio, device, open, readGen, got, pend,
                 chat, w, session, netVars, history>>

CopyGeneration ==
  /\ pc \in {"gen", "innerGen"}
  /\ readGen' = gen
  /\ pc' = IF pc = "gen" THEN "read" ELSE "innerRead"
  /\ UNCHANGED <<flags, device, then, open, got, pend, chat, w, session,
                 netVars, history>>

TakePacket == net' = net - 1

\* zh_core_tts_read_opus_with_meta: a packet, none for now, or an error or
\* an empty packet, which are not played.
Read ==
  /\ pc \in {"read", "innerRead"}
  /\ \/ HasPending /\ got' \in {"frame", "skip"} /\ TakePacket
     \/ ~HasPending /\ got' = "none" /\ UNCHANGED net
  /\ pc' = IF pc = "read" THEN "checkRead" ELSE "innerCheck"
  /\ UNCHANGED <<flags, device, then, open, readGen, pend, chat, w, session,
                 transport, history>>

\* What was read is judged, and not looked at again.
Judged ==
  /\ readGen' = 0 /\ got' = "none"
  /\ UNCHANGED <<flags, device, open, pend, chat, w, session, netVars,
                 history>>

CheckRead ==
  /\ pc = "checkRead"
  /\ \/ ~running /\ pc' = "relLock" /\ then' = "exit" /\ Judged
     \/ running /\ Goto("checkGen")

CheckGen ==
  /\ pc = "checkGen"
  /\ pc' = CASE readGen # gen \/ got = "skip" -> "top"
             [] readGen = gen /\ got = "none" -> "idle"
             [] readGen = gen /\ got = "frame" -> "first"
  /\ Judged /\ UNCHANGED then

-----------------------------------------------------------------------------
(* Nothing was read.                                                       *)

SamplePending ==
  /\ pc = "idle"
  /\ pend' = HasPending
  /\ pc' = "idleDrop"
  /\ UNCHANGED <<flags, device, then, open, readGen, got, chat, w, session,
                 netVars, history>>

\* Mutant: an interrupt's drop mark is taken down by begin_subround alone.
KeepDropping == UNCHANGED drop

StopDropping == drop' = (drop /\ pend)

IdleDrop ==
  /\ pc = "idleDrop"
  /\ StopDropping
  /\ pc' = "idleTimeout"
  /\ UNCHANGED <<running, flush, playing, gen, packetChat, reported,
                 waitingFirst, lastAudio, device, locals, w, session,
                 netVars, history>>

\* ZH_TTS_IDLE_TIMEOUT_MS after the last audio, if there is a last audio.
IdleTimeout ==
  /\ pc = "idleTimeout"
  /\ open /\ ~pend /\ lastAudio
  /\ Release("idleRound")

IdleNotYet ==
  /\ pc = "idleTimeout"
  /\ Goto("idleRound")

\* The two places that ask whether the round is done: the first of four
\* reads of zh_udp_tts_is_round_done().
RoundEnd ==
  /\ pc \in {"idleRound", "tailRound"}
  /\ LET home == IF pc = "idleRound" THEN "idleEnd" ELSE "top"
     IN  IF waitingFirst THEN pc' = home /\ UNCHANGED then
         ELSE pc' = "roundCompleted" /\ then' = home
  /\ UNCHANGED <<flags, device, open, readGen, got, pend, chat, w, session,
                 netVars, history>>

\* The report is over, made or not.
Skip == pc' = then /\ then' = "top"

\* One of several tests of a report, each with its own read.
TestAt(from, passes, place) ==
  /\ pc = from
  /\ IF passes THEN pc' = place /\ UNCHANGED then ELSE Skip

\* The other three, and the test that zh_tts_report_playback_stopped_once
\* begins with.
RoundDone ==
  /\ \/ TestAt("roundCompleted", completed, "roundPlaying")
     \/ TestAt("roundPlaying", Silent, "roundPending")
     \/ TestAt("roundPending", ~HasPending, "report")
     \/ TestAt("report", ~waitingFirst, "chatTest")
  /\ UNCHANGED <<flags, device, open, readGen, got, pend, chat, w, session,
                 netVars, history>>

\* zh_tts_get_current_chat_count() reads the packets' chat twice: it may have
\* been forgotten in between, and the report is then of no chat (0xFFFFFFFF).
CurrentChat ==
  /\ \/ /\ pc = "chatTest"
        /\ pc' = IF packetChat # NoChat THEN "chatRead" ELSE "sttRead"
        /\ UNCHANGED <<then, chat>>
     \/ /\ pc = "chatRead" /\ chat' = packetChat
        /\ pc' = "compare" /\ UNCHANGED then
     \/ /\ chat' = stt
        /\ TestAt("sttRead", stt # NoChat, "compare")
  /\ UNCHANGED <<flags, device, open, readGen, got, pend, w, session,
                 netVars, history>>

\* Mutant: the record of what was reported is not consulted.
ReportAgain == TRUE

IsNew == chat # reported

Report ==
  /\ TestAt("compare", IsNew, "send")
  /\ IF IsNew
     THEN /\ blanks' = IF chat = NoChat THEN blanks + 1 ELSE blanks
          /\ UNCHANGED chat
     ELSE chat' = NoChat /\ UNCHANGED blanks
  /\ UNCHANGED <<flags, device, open, readGen, got, pend, w, session,
                 netVars, received, requests, starts, sent>>

\* A report of no chat will overwrite the record.
SendReport ==
  /\ pc = "send"
  /\ \/ /\ pc' = "mark"
        /\ sent' = IF chat = NoChat THEN {} ELSE sent \union {chat}
        /\ UNCHANGED <<then, chat>>
     \/ Skip /\ chat' = NoChat /\ UNCHANGED sent
  /\ UNCHANGED <<flags, device, open, readGen, got, pend, w, session,
                 netVars, received, requests, starts, blanks>>

MarkReported ==
  /\ pc = "mark"
  /\ reported' = chat /\ chat' = NoChat
  /\ Skip
  /\ UNCHANGED <<running, flush, playing, drop, gen, packetChat,
                 waitingFirst, lastAudio, device, open, readGen, got, pend, w,
                 session, netVars, history>>

IdleEnd ==
  /\ pc = "idleEnd"
  /\ IF transport \/ pend
     THEN pc' = "top" /\ UNCHANGED then
     ELSE pc' = "relLock" /\ then' = "exit"
  /\ pend' = FALSE
  /\ UNCHANGED <<flags, device, open, readGen, got, chat, w, session, netVars,
                 history>>

-----------------------------------------------------------------------------
(* A packet was read.                                                      *)

FirstFrame ==
  /\ pc = "first"
  /\ waitingFirst' = FALSE
  /\ pc' = "midFlush"
  /\ UNCHANGED <<running, flush, playing, drop, gen, packetChat, reported,
                 lastAudio, device, locals, w, session, netVars, history>>

MidFlush == FlushAt("midFlush", "dropCheck", "dropCheck")

\* The web search tone and the music are silenced between this step and
\* the next; the wait for the music ends by itself.
DropCheck ==
  /\ pc = "dropCheck"
  /\ Goto(IF drop THEN "top" ELSE IF open THEN "process" ELSE "openDevice")

OpenDevice ==
  /\ pc = "openDevice"
  /\ \/ open' = TRUE /\ pc' = "publish"
     \/ UNCHANGED open /\ pc' = "top"
  /\ UNCHANGED <<flags, device, then, readGen, got, pend, chat, w, session,
                 netVars, history>>

PublishDevice ==
  /\ pc = "publish" /\ lock = "free"
  /\ active' = TRUE
  /\ pc' = "process"
  /\ UNCHANGED <<flags, lock, locals, w, session, netVars, history>>

\* zh_tts_process_opus up to its mutex.
Process ==
  /\ pc = "process"
  /\ Goto(IF flush \/ ~running \/ ~open THEN "inner" ELSE "playLock")

PlayLock ==
  /\ pc = "playLock" /\ lock = "free"
  /\ lock' = "player"
  /\ pc' = "playCheck"
  /\ UNCHANGED <<flags, active, locals, w, session, netVars, history>>

\* Mutant: the early way out of the critical section keeps the mutex.
LeaveLocked == UNCHANGED lock

LeaveUnlocked == lock' = "free"

PlayCheck ==
  /\ pc = "playCheck"
  /\ IF active /\ ~flush /\ running
     THEN pc' = "play" /\ UNCHANGED lock
     ELSE pc' = "inner" /\ LeaveUnlocked
  /\ UNCHANGED <<flags, active, locals, w, session, netVars, history>>

\* Under the mutex, which keeps no call but the flush of the device away: the
\* chat of STT_COMPLETED is read, it becomes that of the packets, the mark is
\* raised, and the frame written.
ReadStt ==
  /\ pc = "play"
  /\ chat' = stt
  /\ pc' = "setChat"
  /\ UNCHANGED <<flags, device, then, open, readGen, got, pend, w, session,
                 netVars, history>>

SetPacketChat ==
  /\ pc = "setChat"
  /\ packetChat' = IF chat # NoChat THEN chat ELSE packetChat
  /\ chat' = NoChat
  /\ pc' = "setPlaying"
  /\ UNCHANGED <<running, flush, playing, drop, gen, reported, waitingFirst,
                 lastAudio, device, then, open, readGen, got, pend, w,
                 session, netVars, history>>

SetPlaying ==
  /\ pc = "setPlaying"
  /\ playing' = TRUE
  /\ pc' = "write"
  /\ UNCHANGED <<running, flush, drop, gen, packetChat, reported,
                 waitingFirst, lastAudio, device, locals, w, session,
                 netVars, history>>

WriteFrame ==
  /\ pc = "write"
  /\ lastAudio' = TRUE
  /\ lock' = "free"
  /\ pc' = "inner"
  /\ UNCHANGED <<running, flush, playing, drop, gen, packetChat, reported,
                 waitingFirst, active, locals, w, session, netVars, history>>

-----------------------------------------------------------------------------
(* The inner loop plays what has already arrived.                          *)

Inner ==
  /\ pc = "inner"
  /\ Goto(IF running THEN "innerFlush" ELSE "tail")

InnerFlush == FlushAt("innerFlush", "innerGen", "tail")

\* An error ends the loop, as no packet does; an empty packet does not.
InnerCheck ==
  /\ pc = "innerCheck"
  /\ IF readGen = gen /\ got # "none"
     THEN Goto("innerDrop")
     ELSE /\ pc' = IF readGen # gen THEN "inner" ELSE "tail"
          /\ Judged /\ UNCHANGED then

InnerDrop ==
  /\ pc = "innerDrop"
  /\ \/ drop /\ pc' = "inner"
     \/ ~drop /\ got = "frame" /\ pc' = "process"
     \/ got = "skip" /\ pc' \in {"inner", "tail"}
  /\ Judged /\ UNCHANGED then

Tail ==
  /\ pc = "tail"
  /\ Goto(IF open /\ completed THEN "tailPending" ELSE "top")

TailPending ==
  /\ pc = "tailPending"
  /\ \/ ~HasPending /\ Release("tailRound")
     \/ HasPending /\ Goto("top")

Exit ==
  /\ pc = "exit"
  /\ running' = FALSE
  /\ playing' = FALSE
  /\ pc' = "exited"
  /\ UNCHANGED <<flush, drop, gen, packetChat, reported, waitingFirst,
                 lastAudio, device, locals, w, session, netVars, history>>

-----------------------------------------------------------------------------
(* The calling threads.  The session's thread handles one message at a     *)
(* time; the app starts playback before and stops it after the session.    *)

\* One write to a shared variable, then on to `place`.
Called(place) ==
  /\ w' = place
  /\ UNCHANGED <<pc, locals>>

\* VAD_START clears the round's state, then calls zh_udp_tts_interrupt.
VadStart ==
  /\ w = "idle" /\ requests < MaxRequests
  /\ requests' = requests + 1
  /\ completed' = FALSE /\ stt' = NoChat
  /\ Called("int1")
  /\ UNCHANGED <<flags, device, round, netVars, received, starts, sent,
                 blanks>>

InterruptFlags ==
  /\ \/ /\ w = "int1" /\ flush' = TRUE /\ Called("int2")
        /\ UNCHANGED <<playing, drop, gen, lastAudio, packetChat,
                       waitingFirst>>
     \/ /\ w = "int2" /\ playing' = FALSE /\ Called("int3")
        /\ UNCHANGED <<flush, drop, gen, lastAudio, packetChat,
                       waitingFirst>>
     \/ /\ w = "int3" /\ drop' = TRUE /\ Called("int4")
        /\ UNCHANGED <<flush, playing, gen, lastAudio, packetChat,
                       waitingFirst>>
     \/ /\ w = "int4" /\ gen' = gen + 1 /\ Called("int5")
        /\ UNCHANGED <<flush, playing, drop, lastAudio, packetChat,
                       waitingFirst>>
     \/ /\ w = "int5" /\ lastAudio' = FALSE /\ Called("int6")
        /\ UNCHANGED <<flush, playing, drop, gen, packetChat, waitingFirst>>
     \/ /\ w = "int6" /\ packetChat' = NoChat /\ Called("int7")
        /\ UNCHANGED <<flush, playing, drop, gen, lastAudio, waitingFirst>>
     \/ /\ w = "int7" /\ waitingFirst' = FALSE /\ Called("int8")
        /\ UNCHANGED <<flush, playing, drop, gen, lastAudio, packetChat>>
  /\ UNCHANGED <<running, reported, device, session, netVars, history>>

\* The device is flushed under the mutex, from this thread.
InterruptDevice ==
  /\ w = "int8" /\ lock = "free"
  /\ Called("int9")
  /\ UNCHANGED <<flags, device, session, netVars, history>>

\* The core drops what it buffers, or leaves it to drop_stale_pending.
InterruptTransport ==
  /\ w = "int9"
  /\ net' \in {0, net}
  /\ Called("idle")
  /\ UNCHANGED <<flags, device, session, transport, history>>

\* BAIDU_AUDIO_TTS_START calls zh_udp_tts_begin_subround.
SubroundStart ==
  /\ w = "idle" /\ requests < MaxRequests
  /\ requests' = requests + 1
  /\ Called("sub1")
  /\ UNCHANGED <<flags, device, session, netVars, received, starts, sent,
                 blanks>>

SubroundFlags ==
  /\ \/ /\ w = "sub1" /\ flush' = TRUE /\ Called("sub2")
        /\ UNCHANGED <<drop, gen, waitingFirst, packetChat, reported,
                       lastAudio, sent>>
     \/ /\ w = "sub2" /\ drop' = FALSE /\ Called("sub3")
        /\ UNCHANGED <<flush, gen, waitingFirst, packetChat, reported,
                       lastAudio, sent>>
     \/ /\ w = "sub3" /\ gen' = gen + 1 /\ Called("sub4")
        /\ UNCHANGED <<flush, drop, waitingFirst, packetChat, reported,
                       lastAudio, sent>>
     \/ /\ w = "sub4" /\ waitingFirst' = TRUE /\ Called("sub5")
        /\ UNCHANGED <<flush, drop, gen, packetChat, reported, lastAudio,
                       sent>>
     \/ /\ w = "sub5" /\ packetChat' = NoChat /\ Called("sub6")
        /\ UNCHANGED <<flush, drop, gen, waitingFirst, reported, lastAudio,
                       sent>>
     \/ /\ w = "sub6" /\ reported' = NoChat /\ sent' = {} /\ Called("sub7")
        /\ UNCHANGED <<flush, drop, gen, waitingFirst, packetChat, lastAudio>>
     \/ /\ w = "sub7" /\ lastAudio' = FALSE /\ Called("sub8")
        /\ UNCHANGED <<flush, drop, gen, waitingFirst, packetChat, reported,
                       sent>>
  /\ UNCHANGED <<running, playing, device, session, netVars, received,
                 requests, starts, blanks>>

\* The core empties its buffer, then TTS_COMPLETED is forgotten.
SubroundSession ==
  /\ \/ /\ w = "sub8" /\ net' = 0 /\ Called("sub9")
        /\ UNCHANGED completed
     \/ /\ w = "sub9" /\ completed' = FALSE /\ Called("idle")
        /\ UNCHANGED net
  /\ UNCHANGED <<flags, device, stt, round, transport, history>>

SttCompleted ==
  /\ w = "idle" /\ round < MaxChats
  /\ round' = round + 1 /\ stt' = round'
  /\ Called("idle")
  /\ UNCHANGED <<flags, device, completed, netVars, history>>

TtsCompleted ==
  /\ w = "idle" /\ ~completed
  /\ completed' = TRUE
  /\ Called("idle")
  /\ UNCHANGED <<flags, device, stt, round, netVars, history>>

\* zh_udp_tts_start.  The app waits ZH_WS_RECONNECT_INTERVAL_MS between two
\* sessions, and by then the thread of the last one has left.
Start ==
  /\ w = "idle" /\ pc \in {"none", "exited"} /\ starts < MaxStarts
  /\ starts' = starts + 1
  /\ flush' = FALSE /\ playing' = FALSE /\ drop' = FALSE /\ gen' = 0
  /\ packetChat' = NoChat /\ reported' = NoChat /\ waitingFirst' = FALSE
  /\ lastAudio' = FALSE
  /\ sent' = {}
  /\ \/ running' = TRUE /\ transport' = TRUE /\ pc' = "top"
     \/ running' = FALSE /\ transport' = FALSE /\ UNCHANGED pc
  /\ UNCHANGED <<device, locals, w, session, net, received, requests, blanks>>

\* zh_udp_tts_stop, on the app's thread once the session's loop is over.  The
\* three marks fall in one step: the player is in its last turn, in which no
\* two of them make a difference that one of them does not.
Stop ==
  /\ \/ /\ w = "idle" /\ running /\ running' = FALSE /\ Called("stop2")
        /\ UNCHANGED <<flush, playing, drop, waitingFirst, transport>>
     \/ /\ w = "stop2" /\ flush' = TRUE /\ Called("stop3")
        /\ UNCHANGED <<running, playing, drop, waitingFirst, transport>>
     \/ /\ w = "stop3" /\ playing' = FALSE /\ drop' = FALSE
        /\ waitingFirst' = FALSE /\ Called("stop4")
        /\ UNCHANGED <<running, flush, transport>>
     \/ /\ w = "stop4" /\ transport' = FALSE /\ Called("idle")
        /\ UNCHANGED <<running, flush, playing, drop, waitingFirst>>
  /\ UNCHANGED <<gen, packetChat, reported, lastAudio, device, session, net,
                 history>>

Receive ==
  /\ transport /\ received < MaxFrames
  /\ net' = net + 1
  /\ received' = received + 1
  /\ UNCHANGED <<flags, device, pc, locals, w, session, transport, requests,
                 starts, sent, blanks>>

-----------------------------------------------------------------------------
Player ==
  \/ Top \/ TopFlush \/ ReleaseLock \/ ReleaseClose \/ ClearFlush
  \/ CopyGeneration \/ Read \/ CheckRead \/ CheckGen \/ SamplePending
  \/ IdleDrop \/ IdleTimeout \/ IdleNotYet \/ RoundEnd \/ RoundDone
  \/ CurrentChat \/ Report \/ SendReport \/ MarkReported \/ IdleEnd
  \/ FirstFrame \/ MidFlush \/ DropCheck \/ OpenDevice \/ PublishDevice
  \/ Process \/ PlayLock \/ PlayCheck \/ ReadStt \/ SetPacketChat
  \/ SetPlaying \/ WriteFrame \/ Inner \/ InnerFlush \/ InnerCheck
  \/ InnerDrop \/ Tail \/ TailPending \/ Exit

\* A call that has begun.
Returning ==
  \/ InterruptFlags \/ InterruptDevice \/ InterruptTransport
  \/ SubroundFlags \/ SubroundSession
  \/ w # "idle" /\ Stop

Caller ==
  \/ VadStart \/ InterruptFlags \/ InterruptDevice \/ InterruptTransport
  \/ SubroundStart \/ SubroundFlags \/ SubroundSession
  \/ SttCompleted \/ TtsCompleted \/ Start \/ Stop

Next == Player \/ Caller \/ Receive

Spec == Init /\ [][Next]_vars

(* The player thread and a thread inside a call are scheduled, the mutex   *)
(* is handed over in the end, and once no packet comes the idle time of    *)
(* the player runs out.                                                    *)
FairSpec ==
  /\ Spec
  /\ WF_vars(Player)
  /\ SF_vars(Returning)
  /\ SF_vars(IdleTimeout)

-----------------------------------------------------------------------------
(* Properties.                                                             *)

(* Every variable has its type.                                            *)
TypeOK ==
  /\ running \in BOOLEAN /\ flush \in BOOLEAN /\ playing \in BOOLEAN
  /\ drop \in BOOLEAN /\ gen \in Nat
  /\ packetChat \in Nat /\ reported \in Nat
  /\ waitingFirst \in BOOLEAN /\ lastAudio \in BOOLEAN
  /\ lock \in {"free", "player"} /\ active \in BOOLEAN
  /\ pc \in {"none", "top", "topFlush", "relLock", "relClose", "clear", "gen",
             "read", "checkRead", "checkGen", "idle", "idleDrop",
             "idleTimeout", "idleRound", "roundCompleted", "roundPlaying",
             "roundPending", "report", "chatTest", "chatRead", "sttRead",
             "compare", "send", "mark", "idleEnd", "first", "midFlush",
             "dropCheck", "openDevice", "publish", "process", "playLock",
             "playCheck", "play", "setChat", "setPlaying", "write", "inner",
             "innerFlush", "innerGen", "innerRead", "innerCheck",
             "innerDrop", "tail", "tailPending", "tailRound", "exit",
             "exited"}
  /\ then \in {"top", "gen", "dropCheck", "tail", "idleRound", "idleEnd",
               "tailRound", "exit"}
  /\ open \in BOOLEAN /\ readGen \in Nat /\ got \in {"frame", "none", "skip"}
  /\ pend \in BOOLEAN /\ chat \in Nat
  /\ w \in {"idle", "int1", "int2", "int3", "int4", "int5", "int6", "int7",
            "int8", "int9", "sub1", "sub2", "sub3", "sub4", "sub5", "sub6",
            "sub7", "sub8", "sub9", "stop2", "stop3", "stop4"}
  /\ completed \in BOOLEAN /\ stt \in Nat /\ round \in Nat
  /\ transport \in BOOLEAN /\ net \in Nat
  /\ received \in Nat /\ requests \in Nat /\ starts \in Nat
  /\ sent \subseteq Nat /\ blanks \in Nat

(* The device an interrupting thread flushes is one the player has open:   *)
(* it is never a handle that was closed (udp_tts.c:424, 772).              *)
FlushedDeviceIsOpen ==
  active /\ lock = "free" => open

(* The server is told at most once that the speech of a chat has stopped,  *)
(* unless a sub-round, or a report of no chat, cleared the record in       *)
(* between (udp_tts.c:391).                                                *)
StopReportedOnce ==
  pc = "send" /\ chat # NoChat => chat \notin sent

Reporting ==
  {"roundPending", "report", "chatTest", "chatRead", "sttRead", "compare",
   "send", "mark"}

(* The server is told that the speech has stopped only while the client    *)
(* itself does not think that it plays: on both ways to the report, from   *)
(* the read of that mark (udp_tts.c:814) to the record (:420).             *)
QuietWhenReporting ==
  pc \in Reporting => ~playing

(* What the server is told is that of module RoundReports: each round once  *)
(* and in their order, however the reads, the message and the record of it *)
(* (udp_tts.c:379-420, 807-817) interleave with interrupts and sub-rounds;  *)
(* and of no round at most once for each of those.                         *)
Telling == pc = "send"

Told == IF Telling THEN chat ELSE NoChat

Reports == INSTANCE RoundReports WITH
             telling <- Telling, what <- Told, told <- sent,
             cuts <- requests

ReportsSpec == Reports!Spec

(* An interrupt's drop mark does not outlive the old packets: the next     *)
(* round is heard (udp_tts.c:575).                                         *)
DropEnds == (drop /\ running) ~> (~drop \/ ~running)

(* A flush asked for with the device open does close the device, however   *)
(* the request and the player's own clearing of the mark interleave.       *)
FlushReleases == (flush /\ open) ~> ~open

(* The two marks an interrupt raises do their work and no more.            *)
MarksEnd == DropEnds /\ FlushReleases

(* A call returns: the player never keeps the mutex from it.               *)
CallsReturn == (w # "idle") ~> (w = "idle")

(* config.h:105 says the idle timeout keeps the client from being stuck    *)
(* playing: once raised, the mark "playing" comes down again.              *)
PlayingEnds == playing ~> ~playing
=============================================================================
