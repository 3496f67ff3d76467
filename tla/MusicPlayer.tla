----------------------------- MODULE MusicPlayer -----------------------------
(***************************************************************************)
(* src/src/music_player.c: one detached worker thread plays a list of      *)
(* items (a local mp3, an http stream or a Baidu SSE query) that any       *)
(* thread may replace or clear under g_music.mutex.  A token counts the    *)
(* requests: the worker copies it when it takes an item and gives the item *)
(* up once the copy is out of date.  A Baidu item also waits at a gate     *)
(* that two server messages open: BAIDU_AUDIO_TTS_DONE and                 *)
(* BAIDU_AUDIO_CANCEL.                                                     *)
(*                                                                         *)
(* Audio is abstracted to chunks, a url to the kind of item it selects.    *)
(* The transfer functions of the core library (http get and post) deliver  *)
(* data while g_music_stream_running is set and return at any moment.      *)
(***************************************************************************)
EXTENDS Naturals, Sequences

CONSTANTS
  MaxToken,    \* bound on requests and interrupts
  MaxList,     \* bound on the length of a url list
  MaxChunks,   \* bound on the pieces of data one transfer delivers
  None         \* a null item pointer

Kinds == {"local", "stream", "baidu"}

Item == [gen : Nat, pos : Nat, kind : Kinds]

ASSUME BoundsAssumption ==
  /\ MaxToken \in Nat
  /\ MaxList \in Nat
  /\ MaxChunks \in Nat

ASSUME NoneAssumption == None \notin Item

VARIABLES
  \* g_music, under its mutex
  running, stop, head, pending, playing, token,
  \* g_music_stream_running, a plain int the transfers poll
  streamRunning,
  \* the worker's locals
  pc, cur, wtoken, mode, left, toPlay, interrupted,
  \* the context of a Baidu request
  buffered, playable, gotAudio, hasUrl, posted,
  \* the Baidu gate, under g_baidu_tts_mutex
  requestId, ttsDone, waitingTts, cancelled,
  \* the ws thread inside zh_music_player_baidu_cancel, past the gate's mutex
  cancelTail,
  \* history: requests the server was told of, those it said TTS_DONE and
  \* CANCEL for, and chunks of cur heard since cur was superseded
  reported, doneFor, cancelFor, stale

playerVars == <<running, stop, head, pending, playing, token>>
localVars  == <<cur, wtoken, mode, left, toPlay, interrupted>>
baiduVars  == <<buffered, playable, gotAudio, hasUrl, posted>>
gateVars   == <<requestId, ttsDone, waitingTts, cancelled>>
historyVars == <<reported, doneFor, cancelFor>>

vars == <<playerVars, streamRunning, pc, localVars, baiduVars, gateVars,
          cancelTail, historyVars, stale>>

-----------------------------------------------------------------------------
(* What the queue holds, and what the predicates of the code answer.       *)

Queue == head \o pending

\* Mutant: the worker forgets that its request may have been replaced.
ShouldAbortOnStopOnly == stop

\* zh_music_should_abort(token)
ShouldAbort == stop \/ token # wtoken

\* zh_music_player_is_active()
IsActive == playing \/ head # <<>> \/ pending # <<>>

\* zh_baidu_tts_is_done(ctx.request_id)
TtsIsDone == requestId = wtoken /\ ttsDone

\* The worker thread exists and has not left its loop.
Alive == pc \notin {"none", "creating", "exited"}

Init ==
  /\ running = FALSE /\ stop = FALSE /\ playing = FALSE
  /\ head = <<>> /\ pending = <<>> /\ token = 0
  /\ streamRunning = FALSE
  /\ pc = "none" /\ cur = None /\ wtoken = 0 /\ mode = "local"
  /\ left = 0 /\ toPlay = 0 /\ interrupted = FALSE
  /\ buffered = 0 /\ playable = TRUE /\ gotAudio = FALSE /\ hasUrl = FALSE
  /\ posted = FALSE
  /\ requestId = 0 /\ ttsDone = FALSE /\ waitingTts = FALSE
  /\ cancelled = FALSE
  /\ cancelTail = FALSE
  /\ reported = {} /\ doneFor = {} /\ cancelFor = {} /\ stale = 0

-----------------------------------------------------------------------------
(* zh_music_player_start: running is set before the thread exists.         *)

Start ==
  /\ ~running
  /\ running' = TRUE
  /\ stop' = FALSE
  /\ pc' = "creating"
  /\ UNCHANGED <<head, pending, playing, token, streamRunning, localVars,
                 baiduVars, gateVars, cancelTail, historyVars, stale>>

StartCreated ==
  /\ pc = "creating"
  /\ \/ pc' = "top" /\ UNCHANGED running
     \/ pc' = "none" /\ running' = FALSE
  /\ UNCHANGED <<stop, head, pending, playing, token, streamRunning,
                 localVars, baiduVars, gateVars, cancelTail, historyVars,
                 stale>>

\* Mutant: the queue changes and nobody tells the worker.
ChangeSilently == UNCHANGED pc

\* pthread_cond_broadcast(&g_music.cond): only the worker ever waits on it.
Broadcast == pc' = IF pc = "asleep" THEN "top" ELSE pc

(* zh_music_player_stop: never clears running, so no later start.          *)
Stop ==
  /\ running /\ ~stop
  /\ stop' = TRUE
  /\ streamRunning' = FALSE
  /\ head' = <<>> /\ pending' = <<>>
  /\ Broadcast
  /\ UNCHANGED <<running, playing, token, localVars, baiduVars, gateVars,
                 cancelTail, historyVars, stale>>

\* Mutant: the transfer in progress is not told to stop.
KeepTransfer == UNCHANGED streamRunning

StopTransfer == streamRunning' = FALSE

(* Every request bumps the token, tells a transfer to stop, replaces both  *)
(* queues and wakes the worker in one critical section.                    *)
Replace(newHead, newPending) ==
  /\ token < MaxToken
  /\ token' = token + 1
  /\ StopTransfer
  /\ head' = newHead
  /\ pending' = newPending
  /\ Broadcast
  /\ UNCHANGED <<running, stop, playing, localVars, baiduVars, gateVars,
                 cancelTail, historyVars, stale>>

\* The items of a url list in the order given.
ItemsOf(kinds) ==
  [i \in 1..Len(kinds) |-> [gen |-> token + 1, pos |-> i, kind |-> kinds[i]]]

UrlLists ==
  UNION {[1..n -> {"local", "stream"}] : n \in 1..MaxList}

\* The first url goes to head and the rest to pending; when the first is
\* blank it is skipped and every item goes to pending.
PlayUrls ==
  \E kinds \in UrlLists :
    LET items == ItemsOf(kinds) IN
      \/ Replace(<<Head(items)>>, Tail(items))
      \/ Replace(<<>>, items)

PlayBaiduQuery ==
  Replace(<<[gen |-> token + 1, pos |-> 1, kind |-> "baidu"]>>, <<>>)

Interrupt == Replace(<<>>, <<>>)

-----------------------------------------------------------------------------
(* The server's two messages about a Baidu request, in the ws thread.  The *)
(* server knows the requests reported to it, and may speak of one late.    *)

BaiduTtsDone ==
  /\ ~cancelTail
  /\ \E id \in reported :
       /\ doneFor' = doneFor \union {id}
       /\ IF requestId = id
          THEN ttsDone' = TRUE /\ waitingTts' = FALSE
          ELSE UNCHANGED <<ttsDone, waitingTts>>
  /\ UNCHANGED <<playerVars, streamRunning, pc, localVars, baiduVars,
                 requestId, cancelled, cancelTail, reported, cancelFor,
                 stale>>

\* Mutant: a CANCEL lets the audio through as a TTS_DONE does.
CancelReleases ==
  ttsDone' = TRUE /\ waitingTts' = FALSE /\ UNCHANGED cancelled

MarkCancelled ==
  cancelled' = TRUE /\ ttsDone' = TRUE /\ waitingTts' = FALSE

BaiduCancel ==
  /\ ~cancelTail
  /\ \E id \in reported :
       /\ cancelFor' = cancelFor \union {id}
       /\ IF requestId \in {0, id}
          THEN MarkCancelled
          ELSE UNCHANGED <<cancelled, ttsDone, waitingTts>>
  /\ cancelTail' = TRUE
  /\ UNCHANGED <<playerVars, streamRunning, pc, localVars, baiduVars,
                 requestId, reported, doneFor, stale>>

\* The last line of the function, outside the mutex and the test.
BaiduCancelTail ==
  /\ cancelTail
  /\ cancelTail' = FALSE
  /\ streamRunning' = FALSE
  /\ UNCHANGED <<playerVars, pc, localVars, baiduVars, gateVars, historyVars,
                 stale>>

-----------------------------------------------------------------------------
(* The worker, zh_music_thread_main.                                       *)

Exit ==
  /\ pc = "top" /\ stop
  /\ pc' = "exited"
  /\ UNCHANGED <<playerVars, streamRunning, localVars, baiduVars, gateVars,
                 cancelTail, historyVars, stale>>

HasWork == Queue # <<>>

\* pthread_cond_wait: with nothing to do the worker gives the mutex up and
\* falls asleep in one step, and takes no other before it is woken.
Sleep ==
  /\ pc = "top" /\ ~stop
  /\ ~HasWork
  /\ pc' = "asleep"
  /\ UNCHANGED <<playerVars, streamRunning, localVars, baiduVars, gateVars,
                 cancelTail, historyVars, stale>>

\* It may return unasked, and nothing may count on that.
SpuriousWake ==
  /\ pc = "asleep"
  /\ pc' = "top"
  /\ UNCHANGED <<playerVars, streamRunning, localVars, baiduVars, gateVars,
                 cancelTail, historyVars, stale>>

\* Mutant: playing is raised later, when the first chunk is heard.
RaisePlayingLater == UNCHANGED playing

RaisePlaying == playing' = TRUE

\* One critical section: promote a pending item when head is empty, take
\* head, copy the token, raise playing and arm the transfer flag.
Dequeue ==
  /\ pc = "top" /\ ~stop
  /\ HasWork
  /\ LET item == Head(Queue) IN
       /\ cur' = item
       /\ mode' = item.kind
       /\ streamRunning' = (item.kind # "local")
  /\ IF head # <<>>
     THEN head' = Tail(head) /\ UNCHANGED pending
     ELSE pending' = Tail(pending) /\ UNCHANGED head
  /\ wtoken' = token
  /\ RaisePlaying
  /\ stale' = 0
  /\ pc' = "check"
  /\ UNCHANGED <<running, stop, token, left, toPlay, interrupted, baiduVars,
                 gateVars, cancelTail, historyVars>>

CheckItem ==
  /\ pc = "check"
  /\ pc' = IF ShouldAbort THEN "done"
           ELSE IF cur.kind = "baidu" THEN "begin" ELSE "open"
  /\ UNCHANGED <<playerVars, streamRunning, localVars, baiduVars, gateVars,
                 cancelTail, historyVars, stale>>

\* zh_music_http_stream_play and zh_music_play_local_file test the token
\* again, and may fail to open the source.
OpenSource ==
  /\ pc = "open"
  /\ \/ /\ ~ShouldAbort
        /\ left' = MaxChunks
        /\ pc' = "recv"
        /\ UNCHANGED mode
     \/ /\ UNCHANGED left
        /\ mode' = cur.kind
        /\ pc' = IF cur.kind = "baidu" THEN "sample" ELSE "done"
  /\ UNCHANGED <<playerVars, streamRunning, cur, wtoken, toPlay, interrupted,
                 baiduVars, gateVars, cancelTail, historyVars, stale>>

\* Mutant: the done flag of the previous request stays up.
InstallOverOpenGate ==
  /\ requestId' = wtoken
  /\ waitingTts' = TRUE
  /\ UNCHANGED ttsDone

InstallRequest ==
  /\ requestId' = wtoken
  /\ ttsDone' = FALSE
  /\ waitingTts' = TRUE

\* zh_music_baidu_play up to the POST: install the request at the gate
\* (cancelled is not reset here), or refuse an overlong query.
BaiduBegin ==
  /\ pc = "begin"
  /\ \/ /\ InstallRequest
        /\ left' = MaxChunks
        /\ buffered' = 0 /\ playable' = TRUE /\ gotAudio' = FALSE
        /\ hasUrl' = FALSE /\ posted' = FALSE
        /\ pc' = "recv"
     \/ /\ pc' = "done"
        /\ UNCHANGED <<requestId, ttsDone, waitingTts, left, baiduVars>>
  /\ UNCHANGED <<playerVars, streamRunning, cur, wtoken, mode, toPlay,
                 interrupted, cancelled, cancelTail, historyVars, stale>>

\* fread of a local file: the token is tested before each buffer.
ReadLocal ==
  /\ pc = "recv" /\ mode = "local"
  /\ left > 0
  /\ IF ShouldAbort
     THEN pc' = "finish" /\ interrupted' = TRUE /\ UNCHANGED <<left, toPlay>>
     ELSE pc' = "feed" /\ left' = left - 1 /\ toPlay' = 1
          /\ UNCHANGED interrupted
  /\ UNCHANGED <<playerVars, streamRunning, cur, wtoken, mode, baiduVars,
                 gateVars, cancelTail, historyVars, stale>>

\* End of file or a read error: the token is not tested again.
LocalEnd ==
  /\ pc = "recv" /\ mode = "local"
  /\ pc' = "finish"
  /\ interrupted' = FALSE
  /\ UNCHANGED <<playerVars, streamRunning, cur, wtoken, mode, left, toPlay,
                 baiduVars, gateVars, cancelTail, historyVars, stale>>

StreamData ==
  /\ pc = "recv" /\ mode = "stream"
  /\ streamRunning /\ left > 0
  /\ left' = left - 1
  /\ toPlay' = 1
  /\ pc' = "feed"
  /\ UNCHANGED <<playerVars, streamRunning, cur, wtoken, mode, interrupted,
                 baiduVars, gateVars, cancelTail, historyVars, stale>>

StreamEnd ==
  /\ pc = "recv" /\ mode = "stream"
  /\ pc' = "sample"
  /\ UNCHANGED <<playerVars, streamRunning, localVars, baiduVars, gateVars,
                 cancelTail, historyVars, stale>>

-----------------------------------------------------------------------------
(* Events of the Baidu SSE stream, zh_baidu_process_event.                 *)

SseEvent ==
  /\ pc = "recv" /\ mode = "baidu"
  /\ streamRunning /\ left > 0
  /\ left' = left - 1

\* audio.content: dropped when there is nothing to play.
SseAudio ==
  /\ SseEvent
  /\ gotAudio' = TRUE
  /\ pc' = IF playable THEN "queue" ELSE "recv"
  /\ UNCHANGED <<playerVars, streamRunning, cur, wtoken, mode, toPlay,
                 interrupted, buffered, playable, hasUrl, posted, gateVars,
                 cancelTail, historyVars, stale>>

\* zh_baidu_queue_or_play_audio looks at the gate alone: the piece in hand
\* joins the buffer, or the buffer and the piece are played at once, also
\* when it was a CANCEL that opened the gate.
QueueOrPlay ==
  /\ pc = "queue"
  /\ IF TtsIsDone
     THEN pc' = "feed" /\ toPlay' = buffered + 1 /\ buffered' = 0
     ELSE pc' = "recv" /\ UNCHANGED toPlay /\ buffered' = buffered + 1
  /\ UNCHANGED <<playerVars, streamRunning, cur, wtoken, mode, left,
                 interrupted, playable, gotAudio, hasUrl, posted, gateVars,
                 cancelTail, historyVars, stale>>

\* atomic.content.result and resource.url.
SseResource ==
  /\ SseEvent
  /\ \/ playable' \in BOOLEAN /\ UNCHANGED hasUrl
     \/ hasUrl' = TRUE /\ UNCHANGED playable
  /\ UNCHANGED <<playerVars, streamRunning, pc, cur, wtoken, mode, toPlay,
                 interrupted, buffered, gotAudio, posted, gateVars,
                 cancelTail, historyVars, stale>>

\* answer or [DONE]: the request becomes known to the server.
SseReport ==
  /\ SseEvent
  /\ reported' = reported \union {wtoken}
  /\ UNCHANGED <<playerVars, streamRunning, pc, cur, wtoken, mode, toPlay,
                 interrupted, baiduVars, gateVars, cancelTail, doneFor,
                 cancelFor, stale>>

\* The POST returns: wait at the gate when something is left to play.
BaiduPosted ==
  /\ pc = "recv" /\ mode = "baidu"
  /\ posted' = TRUE
  /\ \/ /\ playable
        /\ buffered > 0 \/ (~gotAudio /\ hasUrl)
        /\ pc' = "gate"
     \/ pc' = "sample"
  /\ UNCHANGED <<playerVars, streamRunning, localVars, buffered, playable,
                 gotAudio, hasUrl, gateVars, cancelTail, historyVars, stale>>

\* Mutant: the loop polls the gate alone.
GateWaitIgnoresToken ==
  /\ pc = "gate"
  /\ TtsIsDone
  /\ pc' = "decide"
  /\ UNCHANGED <<playerVars, streamRunning, localVars, baiduVars, gateVars,
                 cancelTail, historyVars, stale>>

\* The polling loop ends: gate open, request cancelled or superseded, or
\* ten seconds gone.
GateWaitEnds ==
  /\ pc = "gate"
  /\ pc' = "decide"
  /\ UNCHANGED <<playerVars, streamRunning, localVars, baiduVars, gateVars,
                 cancelTail, historyVars, stale>>

\* After the loop g_baidu_cancelled is read without a lock ...
GateDecide ==
  /\ pc = "decide"
  /\ pc' = IF cancelled THEN "sample" ELSE "release"
  /\ UNCHANGED <<playerVars, streamRunning, localVars, baiduVars, gateVars,
                 cancelTail, historyVars, stale>>

\* ... and then the gate under its mutex: a CANCEL in between opens it.
GateRelease ==
  /\ pc = "release"
  /\ IF ~TtsIsDone
     THEN pc' = "sample" /\ UNCHANGED <<toPlay, mode>>
     ELSE IF buffered > 0
          THEN pc' = "feed" /\ toPlay' = buffered /\ UNCHANGED mode
          ELSE pc' = "open" /\ mode' = "stream" /\ UNCHANGED toPlay
  /\ UNCHANGED <<playerVars, streamRunning, cur, wtoken, left, interrupted,
                 baiduVars, gateVars, cancelTail, historyVars, stale>>

-----------------------------------------------------------------------------
(* Playing a piece of data: zh_music_decoder_feed and zh_music_play_pcm    *)
(* test the token before each chunk, outside the audio device's lock.      *)

FeedGo ==
  /\ pc = "feed"
  /\ ~ShouldAbort
  /\ pc' = "write"
  /\ UNCHANGED <<playerVars, streamRunning, localVars, baiduVars, gateVars,
                 cancelTail, historyVars, stale>>

\* The token has moved, or the device or the decoder failed.
FeedStop ==
  /\ pc = "feed"
  /\ IF mode = "local"
     THEN pc' = "finish" /\ interrupted' = ShouldAbort
     ELSE pc' = "sample" /\ UNCHANGED interrupted
  /\ UNCHANGED <<playerVars, streamRunning, cur, wtoken, mode, left, toPlay,
                 baiduVars, gateVars, cancelTail, historyVars, stale>>

OneLess == toPlay' = toPlay - 1

Write ==
  /\ pc = "write"
  /\ OneLess
  /\ stale' = IF token # wtoken THEN stale + 1 ELSE stale
  /\ pc' = IF toPlay > 1 THEN "feed"
           ELSE IF mode = "baidu" /\ posted THEN "sample" ELSE "recv"
  /\ UNCHANGED <<playerVars, streamRunning, cur, wtoken, mode, left,
                 interrupted, baiduVars, gateVars, cancelTail, historyVars>>

\* interrupted = should_abort(token) || !g_music_stream_running
Sample ==
  /\ pc = "sample"
  /\ interrupted' = (ShouldAbort \/ ~streamRunning)
  /\ pc' = "finish"
  /\ UNCHANGED <<playerVars, streamRunning, cur, wtoken, mode, left, toPlay,
                 baiduVars, gateVars, cancelTail, historyVars, stale>>

\* zh_music_decoder_finish: flush or drain, then close.  A resource.url
\* played inside a Baidu request returns to that request.
Finish ==
  /\ pc = "finish"
  /\ mode' = cur.kind
  /\ pc' = IF cur.kind # "baidu" THEN "done"
           ELSE IF mode = "stream" THEN "sample" ELSE "end"
  /\ UNCHANGED <<playerVars, streamRunning, cur, wtoken, left, toPlay,
                 interrupted, baiduVars, gateVars, cancelTail, historyVars,
                 stale>>

ClearGate == waitingTts' = FALSE /\ cancelled' = FALSE

\* The end of zh_music_baidu_play; the request stays installed.
BaiduEnd ==
  /\ pc = "end"
  /\ pc' = "done"
  /\ IF requestId = wtoken
     THEN ClearGate
     ELSE UNCHANGED <<waitingTts, cancelled>>
  /\ UNCHANGED <<playerVars, streamRunning, localVars, baiduVars, requestId,
                 ttsDone, cancelTail, historyVars, stale>>

\* The tail of the worker's loop: playing is lowered only when head is
\* empty, and one pending item is promoted.  The locals leave their scope.
ItemDone ==
  /\ pc = "done"
  /\ pc' = "top"
  /\ streamRunning' = FALSE
  /\ IF head # <<>>
     THEN UNCHANGED <<head, pending, playing>>
     ELSE /\ playing' = FALSE
          /\ head' = IF pending = <<>> THEN <<>> ELSE <<Head(pending)>>
          /\ pending' = IF pending = <<>> THEN <<>> ELSE Tail(pending)
  /\ cur' = None /\ wtoken' = 0 /\ mode' = "local"
  /\ left' = 0 /\ toPlay' = 0 /\ interrupted' = FALSE
  /\ buffered' = 0 /\ playable' = TRUE /\ gotAudio' = FALSE
  /\ hasUrl' = FALSE /\ posted' = FALSE
  /\ UNCHANGED <<running, stop, token, gateVars, cancelTail, historyVars,
                 stale>>

-----------------------------------------------------------------------------
Callers == Start \/ Stop \/ PlayUrls \/ PlayBaiduQuery \/ Interrupt

Server == BaiduTtsDone \/ BaiduCancel \/ BaiduCancelTail

Transfer ==
  \/ ReadLocal \/ LocalEnd \/ StreamData \/ StreamEnd
  \/ SseAudio \/ QueueOrPlay \/ SseResource \/ SseReport \/ BaiduPosted

Worker ==
  \/ StartCreated \/ Exit \/ Sleep \/ Dequeue \/ CheckItem \/ OpenSource
  \/ BaiduBegin \/ Transfer \/ GateWaitEnds \/ GateDecide \/ GateRelease
  \/ FeedGo \/ FeedStop \/ Write \/ Sample \/ Finish \/ BaiduEnd \/ ItemDone

Next == Callers \/ Server \/ Worker \/ SpuriousWake

Spec == Init /\ [][Next]_vars

(* The worker thread is scheduled while it is awake (nothing promises that *)
(* it wakes unasked), and the ws thread leaves its handler.                *)
FairSpec == Spec /\ WF_vars(Worker) /\ WF_vars(BaiduCancelTail)

-----------------------------------------------------------------------------
(* Properties.                                                             *)

PlayerTyped ==
  /\ running \in BOOLEAN /\ stop \in BOOLEAN /\ playing \in BOOLEAN
  /\ head \in Seq(Item) /\ pending \in Seq(Item) /\ token \in Nat

WorkerTyped ==
  /\ pc \in {"none", "creating", "top", "asleep", "check", "open", "begin",
             "recv", "queue", "feed", "write", "gate", "decide", "release",
             "sample", "finish", "end", "done", "exited"}
  /\ cur = None \/ cur \in Item
  /\ wtoken \in Nat /\ mode \in Kinds
  /\ left \in Nat /\ toPlay \in Nat /\ interrupted \in BOOLEAN
  /\ stale \in Nat

BaiduTyped ==
  /\ buffered \in Nat /\ playable \in BOOLEAN /\ gotAudio \in BOOLEAN
  /\ hasUrl \in BOOLEAN /\ posted \in BOOLEAN

GateTyped ==
  /\ streamRunning \in BOOLEAN
  /\ requestId \in Nat /\ ttsDone \in BOOLEAN /\ waitingTts \in BOOLEAN
  /\ cancelled \in BOOLEAN /\ cancelTail \in BOOLEAN

HistoryTyped ==
  reported \subseteq Nat /\ doneFor \subseteq Nat /\ cancelFor \subseteq Nat

(* Every variable has its type.                                            *)
TypeOK ==
  PlayerTyped /\ WorkerTyped /\ BaiduTyped /\ GateTyped /\ HistoryTyped

(* A transfer of a superseded item is always told to stop: dequeuing is    *)
(* the only place that arms g_music_stream_running, and it never rearms it *)
(* under an older item (music_player.c:928, 1016, 1059, 1070).             *)
StaleTransferStopped ==
  cur # None /\ token # wtoken => ~streamRunning

(* zh_music_player_is_active never says "idle" while an item is queued or  *)
(* still in the worker's hands, between any two of its critical sections.  *)
WorkIsActive ==
  cur # None \/ Queue # <<>> => IsActive

(* No audio of a Baidu request is heard before the server has spoken of    *)
(* that very request.  A CANCEL counts here: the code opens the gate with  *)
(* it (music_player.c:163-165), though music_player.h:18-20 has TTS_DONE   *)
(* alone release audio and CANCEL discard it; CancelHeeded says how much a *)
(* CANCEL lets through.                                                    *)
GateHeld ==
  pc = "write" /\ cur.kind = "baidu" => wtoken \in doneFor \union cancelFor

\* The CANCEL of the request in hand has been handled to its last line.
CancelDone ==
  cur # None /\ cur.kind = "baidu" /\ wtoken \in cancelFor /\ ~cancelTail

(* Once the CANCEL of a request was handled the worker takes up no further *)
(* audio of it: not a piece of its stream, not the buffer behind the gate, *)
(* not its resource.url.  Only what the worker was already about when the  *)
(* handler ran, one piece or one buffer, may still be heard.               *)
CancelHeeded ==
  [][CancelDone /\ pc \in {"recv", "gate", "decide"}
       => pc' \notin {"queue", "feed", "release", "open"}]_vars

(* Whoever asks zh_music_player_is_waiting_baidu_tts gets "yes" only while *)
(* the worker really holds a Baidu request, the one installed at the gate: *)
(* TTS playback leaves music alone while the answer is yes.                *)
WaitingIsHeld ==
  waitingTts => /\ cur # None
                /\ cur.kind = "baidu"
                /\ requestId = wtoken

(* What the gate of Baidu audio owes those around it: no audio before the  *)
(* server has spoken of the request, none taken up after its CANCEL, and   *)
(* nobody kept waiting by a request that is gone, whatever late messages   *)
(* about earlier requests arrive.                                          *)
GateKept == [](GateHeld /\ WaitingIsHeld) /\ CancelHeeded

(* A superseded item leaves the worker's hands, whatever its transfer and  *)
(* its gate are doing (README.md:139, interrupt comes first).              *)
SupersededIsReleased ==
  \A t \in 1..MaxToken :
    (cur # None /\ wtoken = t /\ token # t) ~> (cur = None \/ wtoken # t)

(* A queued request is taken up, unless it is replaced or the player is    *)
(* stopped: whoever queues it wakes the worker, and the worker never falls *)
(* asleep over it (music_player.c:920, 1040, 1063).                        *)
QueuedIsTakenUp ==
  \A t \in 1..MaxToken :
    (Alive /\ Queue # <<>> /\ token = t) ~> (Queue = <<>> \/ token # t \/ stop)

(* The player is the playlist of module Playlist: latest request only, in  *)
(* order, at most one chunk late (music_player.h:12).                      *)
List == INSTANCE Playlist WITH
          gen <- token, todo <- Queue, now <- cur, late <- stale

PlaylistSpec == List!Spec

-----------------------------------------------------------------------------
(* What the proofs of MusicPlayerProofs add to the properties above to     *)
(* make them inductive.                                                    *)

\* The worker holds an item.
InHandPcs == {"check", "open", "begin", "recv", "queue", "feed", "write",
              "gate", "decide", "release", "sample", "finish", "end", "done"}

\* The steps of a Baidu request between its entry at the gate and its end.
AtGatePcs == {"open", "recv", "queue", "feed", "write", "gate", "decide",
              "release", "sample", "finish", "end"}

HandInv ==
  /\ ~running => pc = "none"
  /\ cur # None <=> pc \in InHandPcs
  /\ cur # None => /\ cur.gen = wtoken /\ wtoken \in 1..token /\ playing
                   /\ \/ mode = cur.kind
                      \/ mode = "stream" /\ cur.kind = "baidu"
  /\ pc \in {"feed", "write"} => toPlay > 0
  /\ pc \in {"begin", "queue", "gate", "decide", "release", "end"}
       => cur.kind = "baidu"

QueueInv ==
  /\ \A i \in 1..Len(head) : head[i].gen = token
  /\ \A i \in 1..Len(pending) : pending[i].gen = token
  /\ Queue # <<>> => token > 0

StaleInv ==
  /\ stale \in {0, 1}
  /\ pc = "write" => stale = 0
  /\ cur # None /\ token = wtoken => stale = 0

GateInv ==
  /\ cur # None /\ cur.kind = "baidu" =>
       (pc \in {"feed", "write"} \/ mode = "stream"
          => wtoken \in doneFor \union cancelFor)
  /\ ttsDone /\ requestId # 0 => requestId \in doneFor \union cancelFor
  /\ waitingTts => pc \in AtGatePcs

\* A Baidu query is alone in its request, and unknown to the server before
\* it is posted.
FreshInv ==
  /\ cancelFor \subseteq reported /\ reported \subseteq 1..token
  /\ \A i \in 1..Len(head) :
       head[i].kind = "baidu" => /\ Len(head) = 1 /\ pending = <<>>
                                 /\ token \notin reported
  /\ \A i \in 1..Len(pending) : pending[i].kind # "baidu"
  /\ cur # None /\ cur.kind = "baidu" =>
       /\ wtoken = token => head = <<>> /\ pending = <<>>
       /\ pc \in {"check", "begin"} => wtoken \notin reported
       /\ pc \notin {"check", "begin", "done"} => requestId = wtoken

\* The marks a CANCEL of the request in hand has left.
CancelInv ==
  cur # None /\ cur.kind = "baidu" /\ wtoken \in cancelFor /\ pc # "done" =>
    cancelled /\ (cancelTail \/ ~streamRunning)
=============================================================================
