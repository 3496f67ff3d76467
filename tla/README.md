# A TLA+ development of zh_uclibc_linux_client

The client is the program of a talking appliance on a small Linux board
(Rockchip RV1106, uClibc, one core).  It sends the microphone to a server,
plays the speech and the music the server answers with, takes pictures for
it and recognizes faces.  The protocol itself (websocket, opus over UDP,
signing) is in a closed core library; the code here is what surrounds it: half
a dozen threads over shared flags, queues and devices.  This directory models
that code in TLA+, checks it with TLC and proves part of it with TLAPS.

Paths such as `music_player.c:920` are relative to `src/src/`, headers to
`src/include/`.

## Contents

1. Inventory: the parts of the client
2. Plan
3. The modules and the code they model
4. Runs, bounds and what they show
5. Fairness
6. Proofs
7. Disagreements between code and documentation
8. What is not modelled, and why

## 1. Inventory

| Component | State it keeps | Operations | Threads |
| --- | --- | --- | --- |
| music player (`music_player.c`) | `g_music` (head, pending, playing, token) under a mutex; the Baidu gate under another; the plain int `g_music_stream_running` | play a list, play a Baidu query, interrupt, is_active, Baidu TTS_DONE and CANCEL, start, stop | a detached worker; every other thread calls in |
| TTS playback (`udp_tts.c`) | ten plain volatile variables (running, flush, playing, generation, drop mark, chat counts, time of the last audio); the open device under a mutex | start, stop, interrupt, begin a sub-round, is_busy, is_round_done | the player thread; the ws thread and the app call in |
| web search tone (`prompt_tone.c`) | active and thread_running under a mutex | start and stop the loop, one-shot prompts | a short-lived thread per loop |
| session (`bithion_core_compat.c`) | the round (VAD started, completed, chat counts), the held music list, the put-off tone, two mailboxes for vision and face answers, all under one mutex | callbacks of the core for each server message, start, stop, reset | the core's ws thread, a short-lived waiter thread |
| vision capture (`vision_capture.c`) | plain ints `g_vision_busy`, `g_vision_running`, the mark that the worker was started, the websocket it may use | take a picture when asked or every so often, ask for a place, put it there, commit it | a worker, a detached thread per request |
| face recognition (`face_recognition.c`) | a child process and the socket to it under one mutex, the mark of speech and its grace under another, the last sampled face, the library of faces on disk | start, stop, set_active, compare and report, take a picture, sample a face, save it under a name | the report thread, the capture thread, the ws thread |
| audio uplink (`audio_uplink.c`) | the websocket it may use, under a mutex; `speech_active`, the preroll ring and the gate of the detection, in the thread | start, set the websocket, take a frame, find speech, send START, audio and END | the capture thread |
| app (`app.c`, `main.c`) | the session loop | connect, run, close, wait, again | main |
| supervisor (`scripts/self_start`) | a lock directory, a pid file | start, stop, restart, keep the client running, `kill.sh` | any number of shell processes |
| update over the air (`scripts/installer/ota_update_template.sh`) | the installed files, the result file | stop everything, delete, load, report, reboot | a shell process |
| installation (`scripts/install.sh`, `uninstall.sh`) | the installed files | unpack, remove | run by hand |
| audio devices (`audio_*.c`) | driver handles | open, write, flush, drain, close | the caller's |
| network bring-up (`wifi_bootstrap.c`, `ble_provision.c`, `sntp.c`) | system state | run tools until connected | main |
| configuration and utilities | none shared | read, format | the caller's |
| core library, face engine | closed | callbacks, http transfers, packets of speech | their own |

How they interact:

* the core delivers server messages to the session one at a time on the ws
  thread; the session calls TTS playback (interrupt, sub-round), the music
  player (play, interrupt, the Baidu marks) and the tone (start, stop);
* the TTS player thread calls back: it cancels the tone and interrupts the
  music before its first frame, and on its idle turns tells the session that
  the round is done, which lets a held music list go to the music player;
* the tone plays through the music player and polls whether it is active;
* the music player reports what a Baidu query answered to the server, which
  answers with TTS_DONE or CANCEL, possibly after that query is over.

What is hard, and what makes each part correct:

* **music player.** Everything that replaces the queue races with a worker that
  holds a copy of the token.  Correct means: only the latest request is heard,
  in order, at most one chunk late; a replaced transfer is told to stop; no
  request is forgotten while the worker sleeps; the gate of one query is never
  opened by the marks of another, and a cancelled query falls silent; `is_active` never says idle while there is work, and not for ever
  active without.
* **TTS playback.** Interrupts, sub-rounds and the end of a round are requested
  with unguarded flags while the player is between any two of its steps.
  Correct means: a flush is never lost, a closed device is never used, the
  server hears once that speech has stopped and only when it has, a drop mark
  and the mark *playing* come down again, calls return.
* **web search tone.** Marks stand for threads that are created, may fail to be
  created and leave.  Correct means: never two loops, no mark without its
  thread, a stop stops, a cancel cancels, a held list is not forgotten.
* **session and vision.** One mailbox for answers without an identity, waits
  without a limit.  Correct means: an answer reaches the request it is for, and
  a lost answer does not end all later pictures.
* **face recognition.** A child process may die at any point, and three threads
  share it; the index file is rewritten in place.  Correct means: one engine,
  one command at a time on a socket that stays open, an engine that died is
  replaced, a stop stops; a name that is reported belongs
  to the face, and a crash costs at most what was being saved or had not reached
  the disk.
* **audio uplink.** The thread sends over connections that come and go, reads
  the round's marks that the ws thread sets and looks whether the client plays.
  Correct means: a sentence is sent in order and whole, the frames before it
  included; a sentence that is heard to its end gets its END; the client does not
  stay deaf.
* **supervisor.** Scripts are run by init, by an installation and by hand, with
  nothing between them but a directory, and each can be killed at any command.
  Correct means: one supervisor; a start starts and a stop stops, whatever an
  earlier one left behind; `kill.sh` leaves nothing.
* **update.** There is no room for two versions and the power may fail at any
  time.  Correct means, as far as the server and the files let it: what boots
  afterwards is not a mixture, success is reported for all or not at all, and what
  succeeded runs.

The list of hazards, each at its line and with the properties that answer it,
is in `PROJECT.json`.

## 2. Plan

In the order of how much depends on it; all but 7 is done:

1. `Playlist`, `MusicPlayer`: the largest concurrent component, with an abstract
   specification, and its proofs in `MusicPlayerProofs`.
2. `TtsPlayback`: the player thread step by step, and `RoundReports`, what it
   tells the server; its device, its reports and that it implements
   `RoundReports` are proved in `TtsPlaybackProofs`.
3. `WaitTone`: the tone, the waiter and the held list, over both players reduced
   to what is asked of them; proofs in `WaitToneProofs`.
4. `VisionUpload`: three uploading threads over the session's mailboxes, with
   lost and stray answers; proofs in `VisionUploadProofs`.
5. `FaceEngine`: the child process, its socket and its three users; proofs in
   `FaceEngineProofs`.
6. `AudioUplink`: the capture thread, its preroll ring and the sentences it sends
   over the app's connections, and `Sentences`, which it implements; proofs in
   `AudioUplinkProofs`.
7. *Left:* the app's loop with reconnects, composing the interfaces of 2, 3
   and 6 in one module.  Each of these has the part of the loop it depends on.
8. `FaceSet`, `FaceLibrary`: the files and the ring of names across crashes, and
   the set of faces they implement; proofs in `FaceLibraryProofs`.
9. `Supervisor`: the scripts, command by command; proofs in `ScriptProofs`.
10. `Update`: the update over the air and what boots after it; proofs in
    `ScriptProofs`, too.

Instances stay at two threads per kind and two requests, enough for an old and a
new one to meet; what is proved holds for any number.

Every module that is proved about is free of RECURSIVE operators, takes its
bounds as constants with a named assumption, and has one action per critical
section or per access to an unguarded variable.

## 3. The modules and the code they model

The target has one core and the shared variables are volatile ints, so a thread
may be preempted between any two accesses, and accesses are sequentially
consistent.  A critical section is one action; an access outside of one is an
action of its own where another thread may tell the difference.  Where two such
accesses share an action, the module or its section below says why none can.

### `MusicPlayer` (and `Playlist`)

State: `running`, `stop`, `head`, `pending`, `playing`, `token` are `g_music`
(`pending` a sequence where the code has a linked list); `streamRunning` is
`g_music_stream_running`; `requestId`, `ttsDone`, `waitingTts`, `cancelled` are
the gate's globals; `cur`, `wtoken` and the variables after them are locals of
`zh_music_thread_main` and of the functions it calls; `cancelTail` is the ws
thread between the gate's mutex and the last line of
`zh_music_player_baidu_cancel`.  `reported`, `doneFor`, `cancelFor` and `stale`
are history, read by properties only (`reported` also bounds what the server may
speak about: it names only requests it was told of).

| Code | Actions |
| --- | --- |
| `zh_music_player_start`, `_stop` | `Start`, `StartCreated`, `Stop` |
| `_play_urls`, `_play_baidu_query`, `_interrupt` | `PlayUrls`, `PlayBaiduQuery`, `Interrupt`, all through `Replace` |
| `_baidu_tts_done`, `_baidu_cancel` | `BaiduTtsDone`, `BaiduCancel`, `BaiduCancelTail` |
| the worker's loop | `Exit`, `Sleep`, `SpuriousWake`, `Dequeue`, `CheckItem`, `ItemDone` |
| local files and http streams | `OpenSource`, `ReadLocal`, `LocalEnd`, `StreamData`, `StreamEnd`, `Sample`, `Finish` |
| a Baidu query | `BaiduBegin`, `SseAudio`, `QueueOrPlay`, `SseResource`, `SseReport`, `BaiduPosted`, `GateWaitEnds`, `GateDecide`, `GateRelease`, `BaiduEnd` |
| decoding and writing a piece | `FeedGo`, `FeedStop`, `Write` |

`Sleep` is `pthread_cond_wait`: the worker is at `"asleep"` from the moment it
finds nothing to do, under the mutex, until one of the four broadcasts
(`Broadcast`, in every request and in `Stop`) takes it back to the top.  POSIX
lets the wait return unasked (`SpuriousWake`), and no fairness counts on that: a
queue that changes without a broadcast leaves the request unplayed, which is the
mutant of `QueuedIsTakenUp`.  The flag of the cancel and the gate are read in two
steps, as in the code: `GateDecide` reads `g_baidu_cancelled` without a lock,
`GateRelease` then asks `zh_baidu_tts_is_done`.

Audio is a number of chunks, a url the kind of item it selects.  The http
functions of the core deliver while the stream flag is up and may return at any
moment, which covers network errors; the post is assumed to fail when its
callback does.  `SseReport` does not ask for a resource in the answer, so it
allows a little more than the code.  The ten seconds of the gate may be over at
any time.

`Playlist` is what the player promises: a request replaces all that is to be
played, items are begun in the order given, and at most one chunk of a replaced
item is heard.  `PlaylistSpec` is the refinement: `todo` is `head` followed by
`pending`, `now` the worker's item, `late` the chunks counted by `Write`.

### `TtsPlayback` (and `RoundReports`)

The shared flags keep their names (shortened); `lock` and `active` are
`g_tts_playback_mutex` and the published device; `pc`, `then`, `open`, `readGen`,
`got`, `pend`, `chat` are the player thread; `w` is the place of the thread that
calls in.  Each access to a shared variable is a step, so `zh_udp_tts_interrupt`
is nine, `zh_udp_tts_begin_subround` nine, `zh_udp_tts_is_round_done` four, and
`zh_tts_get_current_chat_count` reads the chat of the packets twice
(`CurrentChat`), as the code does.  `w = "idle"` also says that
callers come one after the other: interrupts and sub-rounds are called on the ws
thread, start and stop on the app's when no session runs.  A new session
starts only after the thread of the last one has left: the app waits
`ZH_WS_RECONNECT_INTERVAL_MS` in between.

Some accesses share a step, where no step of another thread between them can
change what follows:

* `IdleDrop`, `SetPlaying`, `SetPacketChat`: the code's test only saves a write
  of a value the variable has already; test and write taken at the moment of the
  write give the same result.
* `ReleaseClose`: after the unlock the player lowers the time of the last audio
  and `playing`.  A caller of this module only lowers these two itself and
  reads neither, so it can as well come before or after both.
* `WriteFrame`: the time is written under the mutex; an unlock that comes later
  is a caller that comes later.
* `IdleTimeout`: the time is read twice.  A zero in between makes the difference
  only greater and the condition only truer, as it already was.
* `Process`, `PlayCheck`: `flush` is raised by callers alone and `running` only
  falls, so each result the reads can have is the one they would have had all at
  one of the moments of reading.
* `Exit`, whose two marks nobody then raises; `Start`, when no player runs;
  `VadStart`, which clears the round under the session's mutex; and three marks
  of `Stop`, which the player, in its last turn, does not act on one by one.

The jitter buffer and the core's
TTS_COMPLETED and chat count are modelled as this file uses them.  The end of a
round as seen by the session (`zh_core_ws_on_tts_round_done`) is in `WaitTone`.

`RoundReports` is what the server may rely on: it is told of the end of each
round it has begun at most once, never of an earlier one after a later one, and
nothing is played between the decision to tell it and the message.  It may also be
told of no round: an interrupt or a sub-round that forgets the packets' chat
between the two reads of it leaves -1 in the report, and clears the record with
it.  `RoundReports` allows that at most once for each of them (`blanks`, `cuts`).
`ReportsSpec` is the refinement: `telling` and `what` are the chat in the player's
hands between the comparison with the record
(`zh_tts_report_playback_stopped_once`) and the sending, `told` the chats that were
sent since the record was last cleared.

### `WaitTone`

`pending`, `waiterRunning`, `pendingMusic`, `vadStarted`, `completed` are fields
of the session; `active`, `toneRunning` those of `prompt_tone.c`.  `waiter[i]`
and `tone[i]` are the places of the created threads; `Threads` is the number of
them the system has room for, so that creation fails when there is none (and it
may fail at any other time).  `w` is the ws thread, `t` the TTS player reduced
to reading a packet, cancelling the tone, interrupting the music and playing;
`TtsIdle` stands for the idle timeout.  The music player is one bit, what
`zh_music_player_is_active` answers, raised by requests and lowered at any time
(`MusicEnds`) or never.  `ToneCheck` leaves out the retry when the music player
does not run: the app starts it before the session.

### `VisionUpload`

`busy`, `running`, `started` are `g_vision_busy`, `g_vision_running` and
`g_vision_worker_started`; `faceWs` and `visionWs` say whether the two modules were
given a websocket; `shouldStop`, `uploadReady`, `uploadMail`, `doneReady`,
`doneMail` are fields of the session; `app` is the place inside
`zh_run_session`, `w` that of the message handler.  `stage`, `frame` and `grant`
are the locals of the uploading threads: `"auto"` is the worker, `"ask"` the
thread made when the server asks for a picture, `"face"` the capture thread of
the face module, which runs for ever and takes its picture before it looks
whether there is a session.  `faceBuild` and `autoCapture` are chosen once:
`ZH_ENABLE_FACE` of the build, `ZH_VISION_AUTO_CAPTURE` of the environment.
`straddled` is history, read by properties only.

| Code | Actions |
| --- | --- |
| `zh_run_session`, `zh_ws_close` | `Connect`, `SetWs`, `LoopEnds`, `Disconnect`, `UnsetWs`, `Close` |
| `zh_vision_capture_start`, `_stop` | `StartWorker`, `CreateWorker`, `MarkStarted`, `StopWorker`, `JoinWorker` |
| `zh_vision_capture_request_async` | `Request`, `CreateAsked` |
| the threads' loops | `WorkerTakes`, `WorkerExits`, `FaceTakes`, `Release` |
| taking and uploading one picture | `Capture`, `ClearUpload`, `SendUpload`, `Put`, `ClearDone`, `SendCommit` |
| `zh_ws_wait_vision_upload_response`, `_done` | `TakeUpload`, `StopUpload`, `TakeDone`, `StopDone` |
| the server's two answers | `UploadResponse`, `VisionDone` |

A picture is the number in its frame id (ids are distinct); a refusal is an
answer about no picture.  Whether a picture can be taken, has changed, can be
sent or put is a choice.  A request clears the mailbox in one critical section
and is sent in another step; sending into a lost connection may look like
success.  `Connect` waits until nobody waits for mail: the app sleeps for
seconds between sessions, a thread that waits looks up every 200 ms and finds
that the old session is over.  A thread may still be taking or putting a
picture.  `Disconnect` is the error event upon which the program plays a prompt
and exits.

### `FaceEngine`

`running`, `captureRunning`, `active`, `faceWs` are the file's flags, `grace`
says whether `g_face_report_until_ms` is ahead, `lock` is
`g_face_engine_mutex`.  `child` is the process `g_face_engine_pid` names (none,
one that runs, one that is dead and not yet waited for), `stray` whether one
runs that it does not name, `hung` whether the one that runs has stopped
answering, `sock` whether `g_face_uds_fd` leads to that process,
to an earlier one, or is closed.  `at[t]` and `want[t]` are the places of the
three threads and what they want of the engine; `sampled` is
`g_face_enroll_valid`.  `audio` is the app's `audio_started`.

| Code | Actions |
| --- | --- |
| `zh_face_prepare_engine_locked` | `EngineRuns`, `StartEngine`, `StartFails`, `HasSocket`, `Connect`, `ConnectFails` |
| `zh_uds_send_cmd` and the reads after it | `Send`, `Answer`, `NoAnswer` |
| `zh_face_thread_main`, `zh_face_do_compare_and_report` | `Top...`, `Inner...`, `Prepared`, `NotPrepared`, `Compared`, `NothingToCompare`, `CompareFails`, `Told`, `NotTold`, `Recover`, `ReportExits` |
| `zh_face_capture_thread_main`, `zh_face_upload_one_frame` | `TakePicture`, `Picture`, `NoPicture`, `AskName`, `Name`, `UploadEnds`, `CaptureExits` |
| `zh_face_enroll_on_recog` | `FaceRecog`, `Sampled`, `NotSampled` |
| `zh_face_recognition_set_active`, the clock | `SpeechStarts`, `SpeechEnds`, `GraceEnds` |
| `zh_face_recognition_start`, `_stop`, `zh_run_session` | `StartReport`, `NoReport`, `StartCapture`, `Stop`, `NothingToStop`, `JoinReport`, `JoinCapture`, `StopCleanup`, `Uplink`, `Session`, `NoSession`, `SessionEnds` |

Every step between taking the lock and releasing it is an action, because the
engine may die between any two (`Crash`), or stop answering (`Hangs`) for a while
(`ComesBack`) or for good.  The reads of an answer have no time limit: as long as
the engine hangs, a thread at its read has no step, and keeps the lock.  A command is its outcome: used, or
not; what the engine sees, sleeps and the cost of a command are left out.  The
upload between the picture and the question whose face it shows is in
`VisionUpload`; here it may end at any time.  The early return of
`zh_face_recognition_start` is never taken: the app calls it only when the
microphone is closed, and has then called stop.  For the same reason the two
`..._thread_started` marks equal `running` and `captureRunning` where the app
looks at them.  A write to a dead engine is taken to fail; nothing in these
sources ignores SIGPIPE, so this rests on the core library.  Speech is reported
from the moment the microphone is being opened.

### `AudioUplink` (and `Sentences`)

`ring`, `pos`, `full`, `speech` and `ws` are locals of
`zh_audio_uplink_thread_main`; `at` is its place in the turn of a frame.  `stt`
is the session's mark STT_COMPLETED; `completed` stands for TTS_COMPLETED with
nothing received left to play and no sub-round waited for, `voice` for what the
two players tell, so that `RoundDone` is `zh_udp_tts_is_round_done`.  `app` and
`conn` are the place inside `zh_run_session` and the connection; `Handle` is
`g_uplink_ws`.  A frame is its number.  `open`, `sent`, `due`, `spent`,
`unhindered` and `recognized` are history, read by properties and fairness only.
`open` says which START of the connection has had no END: that of the sentence
being said, that of one that was dropped, one of `music_play_pre`, or none.

| Code | Actions |
| --- | --- |
| `zh_audio_uplink_start`, `zh_run_session`, `zh_ws_close` | `Start`, `StartFails`, `Connect`, `NoConnection`, `SetWs`, `LoopEnds`, `Close` |
| opening the device and the rest of the setup | `Opened`, `SetupFails` |
| taking a frame, leaving it alone while the client plays or the answer is due | `SkipPlaying`, `Take`, `SkipAnswer`, `Listen` |
| the detection and what follows from it | `DetectFails`, `Silence`, `SpeechStarts`, `SpeechGoesOn`, `SpeechEnds` |
| START and the preroll | `SendStart`, `StartRound`, `NoStart`, `FlushPreroll`, `FlushFails` |
| the frame in hand, END | `SubmitFrame`, `SubmitFails`, `SendEnd`, `NoEnd` |
| the ws thread and the players | `Drop`, `SttCompleted`, `TtsCompleted`, `ResetRound`, `MoreToPlay`, `Plays`, `PreparesMusic` |

What the detection answers is a choice, which covers the gate in front of it.
The END is compiled in (`ZH_CLIENT_ADVANCED_VAD_ENABLE`).  A new connection is
made when the turn of a frame taken for the former one is over (`FrameIsOver`):
the app waits `ZH_WS_RECONNECT_INTERVAL_MS`, 3000, and a turn at most the 80 of
its flush.  The messages about music and dialog change nothing here; the mark of
speech it raises for the face module is `active` of `FaceEngine`.  Three things
follow from the code that no line of the repository rules out and no property
here forbids: a sentence begun without a connection sends its later frames and
its END without START (so does one that outlives its connection: `speech_active`
belongs to the thread); playback or the answer drops a sentence without END
(`DropSegment`: `zh_core_uplink_reset` clears what the client holds, and the END
is the client's own message, `audio_uplink.c:986`), so that the server keeps the
START; and `music_play_pre` makes the ws thread send a START of its own
(`bithion_core_compat.c:664`), without END, at any moment and also among the
frames of a sentence (`PreparesMusic`).

`Sentences` has a connection, whether something is being said, which START is
without END and what was sent: the START of a sentence goes out on a live
connection and not after a frame of it, the frames in their order while it lasts,
an END not within it; all of it can be abandoned at once, without an END; a START
of another thread may intrude.  `SentencesSpec` is the
refinement, with `speaking` for `speech`, `up` for `conn` and `begun` for `open`.

### `FaceLibrary` (and `FaceSet`)

`emb` and `index` are the complete files in `ZH_FACE_EMB_DIR` and the entries of
the index; `cache` and `pos` are the ring; `valid` is `g_face_enroll_valid`.  `w`
is the place of the ws thread in a save, `held` and `todo` the index it has read
and what of it is yet to be written; `at[r]`, `ranked[r]`, `left[r]`, `hand[r]`,
`best[r]`, `named[r]` are the locals of a lookup, of which there may be any
number at once (the report thread's and the capture thread's).  `soft`, `dirty`
and `safe` are what the disk has of the files, `short` says that memory or disk
is full.  `asked`, `calm` and `torn` are history, read by properties only.

| Code | Actions |
| --- | --- |
| `zh_face_enroll_on_recog` | `EnrollOnRecog` |
| `zh_face_enroll_on_owner` | `EnrollOnOwner`, `WriteEmbFile`, `CacheNew` |
| `zh_upsert_index_json` | `OpenIndex`, `IndexFails`, `KeepEntry`, `AddEntry` |
| `zh_face_do_compare_and_report`, `zh_face_detect_name_for_commit` | `Compare`, `NameFromCache`, `NotInCache`, `NameFromIndex`, `NoName`, `CacheFound`, `Report` |
| crashes | `Killed`, `PowerCut`, with `WriteBack` and `RunShort` |

A face is the number in its id.  The code takes it from the wall clock in
milliseconds, and saves come one message at a time, each writing two files: ids
are fresh as long as the clock is not set back over a save.  The index is a set, the
code keeps the order and adds the new entry last.  Old entries are written one
by one, in any order, which covers the prefixes that a reader or a cut may find.
A reader that reads while the index is rewritten may find any part of it
(`MayMiss`); what it finds in a part is what it would have found in the whole.
`WriteBack` leaves out the moments inside a rewrite: a cut then leaves what it
may leave anyway, any part of what is written or the former index.  The ring
is not emptied when a name is given to another face: the old file, which is not
deleted, is still matched and still answered for from the ring until the program
starts again.

`FaceSet` is what the library promises: a name stands for one face, a save
replaces the entry of its name in one step, nothing comes in that was not saved,
and nothing is lost except from the beginning of a save until it has reached the
disk or for want of room.  `LibrarySpec` is the refinement; while the index is
rewritten the entries in memory (`held`) stand for the set.

### `Supervisor`

`lock` and `pidFile` are `SUP_LOCK_DIR` and `SUP_PID_FILE`; `at[x]`, `command[x]`,
`forked[x]` and `listed[x]` are a script: its command, its place, `$!` and what
it has read from `ps`.  `sup[s]` is the place of a supervisor in `daemon_loop`,
`client[s]` the client it launched, which may outlive it.  `whole` says that all
that a launch needs is there.  `alone` and `tidy` are history.

| Code | Actions |
| --- | --- |
| `daemon_loop` | `Loads`, `Prepare`, `Launch`, `NoFaceDir`, `Relaunch`, `ClientLoads`, `ClientExits` |
| `start_supervisor` | `TakeLock`, `JudgeLock`, `ClearLock`, `RetakeLock`, `CheckRunning`, `DropPidFile`, `Fork`, `Record`, `Leave` |
| `stop_supervisor` | `List`, `Signal`, `Swept`, `KillRecorded`, `RemovePidFile`, `KillClients`, `RemoveStopLock` |
| `kill.sh` | the same again, `List` of `Related`, `RemoveDir` |
| the world | `Begin`, `Kill`, `Files` |

A supervisor that was forked and has not yet executed the script has the command
line of the start, so that `ps` and `is_supervisor_running` do not see it
(`Running`); a client that was forked and not yet executed looks like a
supervisor (`Daemons`).  `trap ... TERM` does not end a start: it removes the
lock and goes on (`Trapped`).  Sleeps take any time.  The attempts of
`ensure_rkaiq_running` end the same way whether or not they succeed and are part
of `Prepare`.  Which free pid a fork gets and which of the idle scripts is run
next makes no difference; both are the least.

### `Update`

`file` and `disk` are what the manifest's files hold, in the page cache and on
the disk; of the manifest's nineteen entries those that are alike for what
follows are one (`Manifest`, in the order of the code).  `result` and `kept` are
the result file.  `up` and `entry` are the script and its place in the manifest.
`supRuns`, `clientRuns`, `booting` are as much of the board as depends on files.
`reliable` says whether the server sends Content-Length and answers the two
requests that are made for a file alike, `inLib` whether the core library is also
in `lib/`; `torn` and `refused` are history: power was cut between the last file
and the reboot, and the number of files that could not be deleted.

| Code | Actions |
| --- | --- |
| `stop_supervisor_only`, `stop_client_only`, the directories | `StopSupervisor`, `StopClient`, `NoDirectory` |
| `delete_targets_before_update` | `DeleteTarget`, `Sync` |
| `run_manifest_all`, `apply_one`, `download_file` | `Load`, `CannotLoad`, `Loaded`, `Fails`, `CannotRemove`, `ChmodFails` |
| `write_result_file`, `fail`, `reboot` | `Report`, `GiveUp` in `NoDirectory`, `Fails` and `ChmodFails`, `Reboot` |
| init, the supervisor, the client | `Boot`, `LaunchClient`, `ClientEnds`, `BeginUpdate` |
| the world | `UpdaterKilled`, `PowerCut` |

A file is old, absent, a part or new; what is not the new file byte by byte is a
part.  `disk[f]` is what `f` has held since the last sync, and after a power cut
it holds one of these, each file by itself.  The update's `fail` leaves the loop,
which runs in a pipeline, and `set -e` then leaves the script: without the reboot,
and with the result `failed`.  An `rm` or `mkdir` that fails inside `apply_one`
leaves it with no result at all (`CannotLoad`, `CannotRemove`); an `rm` that fails
in `delete_targets_before_update` is ignored (`|| true`) and leaves the old file
(`DeleteTarget`).

`download_file` asks for each file twice.  Status, header and length are taken
from the first answer (`ota_update_template.sh:301-349`), the bytes from the
second at the first one's offset (`:356-364`), and only their number is compared
(`:367-371`).  When the answers differ, or the length is not given, anything may
pass: with `~reliable`, `Loaded` and `ChmodFails` leave the part that is there.

### Proof and MC modules

`MusicPlayerProofs`, `TtsPlaybackProofs`, `WaitToneProofs`, `VisionUploadProofs`,
`FaceEngineProofs`, `AudioUplinkProofs`, `FaceLibraryProofs` and
`ScriptProofs` hold the theorems; each extends its component, `ScriptProofs`
`Supervisor` and `Update`.  The modules
`MC...` are the instances TLC runs.

## 4. Runs, bounds and what they show

| Run | Shows | Bounds |
| --- | --- | --- |
| `music` | the invariants of the player, and that it implements `Playlist`; a replaced item is given up; a queued request is taken up | 2 requests, lists of 2, 2 pieces of data |
| `tts` | the device is used while open, nothing plays at a report, the player implements `RoundReports`, drops and flushes end, calls return | 2 packets, 1 interrupt or sub-round, 1 chat, 1 session |
| `wait_tone` | one loop and one waiter, a put-off tone has a waiter, a stopped loop ends, a held list is let go | 2 places per kind of thread, 1 packet waiting, 2 starts |
| `vision` | the busy mark has its holder, answers reach their request, waits and sessions end | 2 pictures, 2 sessions |
| `face` | one engine, one command at a time, no revival after a stop; unless an engine hangs for good, reports resume, stopping and sampling return | 2 faults of the engine |
| `uplink` | what is sent of a sentence is in order and whole, one heard to its end gets its END, the client hears again; the thread implements `Sentences` | a buffer of 2, 4 frames, 1 fault; a build without `ZH_ENABLE_AEC`, whose behaviours include those of one with it |
| `library` | the index names complete files, names are those of their faces, the nearest is found, the files implement `FaceSet` | 2 names, 2 saves, a ring of 2, 1 reader |
| `supervisor` | one supervisor, a start starts, a stop stops, `kill.sh` leaves nothing | 3 scripts of which 2 at a time, 2 supervisors, 1 kill |
| `update` | no mixture boots, success means all and is served, from a reliable server | 2 power cuts, 1 file that cannot be deleted, any number of updates |
| `tts_stuck`, `face_capture`, `vision_lost` | section 7 | |

Why the bounds are enough.  In the player, the worker holds one token and
compares it with the present one; two requests give an item in hand and one
that replaces it, of two items each, and two pieces put the request before,
between and after them.  That three requests at once show nothing new is not
left to TLC: the invariants and the refinement are proved for any number.
In TTS playback the two packets are the one that was read before an interrupt
and the one after it; with one request every line of it meets every place of
the player.  In `WaitTone` the second place of
each kind is the one a wrong mark would fill (`OneOfEach` would be violated with
two), and the second start meets the end of the first.  In `VisionUpload` two
pictures are one that an answer is about and one that it is not, and the second
session meets what a thread of the first left in the mailboxes and flags.  In
`FaceEngine` one fault makes the socket stale and the second hits the recovery
from the first.  `MaxFaults` counts only what goes wrong with a good engine: a
socket to a dead one fails without limit.  In `AudioUplink` four frames wrap a
buffer of two, with one left from before and one after; the three invariants are
proved for every size.  There too `MaxFaults` counts only refusals on a
connection that is up.  In `FaceLibrary` two saves give one name to two faces or
two names to two, and the ring's two slots are refilled by lookups; two readers
meet only in the ring, which is locked, and are covered by the proofs.  In
`Supervisor` two scripts and a dead one's remains are what a lock is for, and
the third run is the stop or the start after them; here too the proofs are for
any number.  In `Update` the second cut hits what the first left, and the file
that could not be deleted may be any of them.  In the
`TtsPlayback` of this run one round ends, and only the record, the quiet and the
forgetting of `RoundReports` are put to the test.  With two rounds
(seven hundred thousand states) the invariants and `ReportsSpec` hold as well, the
order of reports included, but liveness takes too long there to be checked every
time; `ReportsSpec` is proved for any number of rounds.

The types (`TypeOK`, in `Update` `UpdateTypeOK`) are proved for every module, and
are in no run.

The properties:

* `StaleTransferStopped`: an item whose token is out of date has its transfer
  flag down, though one flag serves all items.
* `WorkIsActive`: no interleaving of three critical sections makes `is_active`
  say idle while an item is queued or in hand.
* `GateKept`: no Baidu audio before the server has spoken of that request
  (`GateHeld`); once its CANCEL was handled no further piece, buffer or resource
  of it is taken up (`CancelHeeded`); and TTS playback spares music only while a
  query is really waiting (`WaitingIsHeld`).  What it does not say is in section 7:
  a CANCEL opens the gate before it silences the request.
* `PlaylistSpec`, `SupersededIsReleased`: as above.
* `QueuedIsTakenUp`: whoever changes the queue wakes the worker, and the worker
  does not fall asleep over it, for two queues behind one condition.
* `FlushedDeviceIsOpen`: the ws thread's flush never meets a closed device.
* `QuietWhenReporting`: no report while playing, from both places that report.
* `ReportsSpec`: one report per round and in their order, though the chat and the
  record of the last report are rewritten by interrupts and sub-rounds while the
  player is between its reads, its test and its message; and no more than one
  report of no round for each of these.  `StopReportedOnce`, which is proved too, is
  a part of it.
* `MarksEnd`, `CallsReturn`: an interrupt is served whatever the player was
  doing (`FlushReleases`), and does not silence the next round (`DropEnds`).
* `OneOfEach`, `PendingHasWaiter`: marks and threads agree, failed creations
  included.
* `ToneLoopEnds`: a stop ends the loop even when other music never ends.
* `HeldListIsPlayed`: a list that is queued after the end of the round was seen
  is found by the next idle turn.
* `BusyIsHeld`: the plain int `g_vision_busy`, raised in two threads and lowered
  in three places, is up exactly while one of them has a picture.
* `GrantIsOwn`: with one thread uploading at a time (`Regular`), the answer of a
  mailbox without an identity goes to the right picture.  `Regular` excludes what the code does not survive: the face
  module's thread beside another (`vision_lost`), a thread that outlives its
  session, and the case of the next property.
* `GivesUpOnlyAtEnd`: no answer is given up inside a session.  It needs
  `ZH_VISION_AUTO_CAPTURE`: without it `zh_vision_capture_stop` still lowers
  `g_vision_running`, and nothing raises it, so that from the second session on
  every picture taken on request is given up as soon as it waits.
* `SilenceIsSurvived`: a server that never answers keeps neither the app's join
  (`StopReturns`) nor the busy mark (`SessionEndReleases`) for ever.

* `SocketInUse`: the lock is held exactly by the thread in a command, through
  every early return, and nobody closes the socket it uses.
* `OneEngine`, `NoRevival`: a process is forgotten only when it is dead; once the
  two threads are joined nothing of a stopped module starts another.  The ws
  thread may: it samples a face whether or not the module runs.
* `ReportsResume`: an engine that died under any of its users is replaced, and
  the socket to the old one with it, while somebody speaks.
* `CallersReturn`: the app's joins and the ws thread's wait for the engine's lock
  end, whatever the other threads hold.  Both have the premise `EnginesAnswer`
  (section 5).

* `SentInOrder`, `NothingLost`: the ring that has wrapped, or still holds frames
  from before, is sent oldest first, and with the frame in hand and those after
  it makes up the sentence, though five conditions on the way are read at
  different times.
* `StartIsEnded`: a sentence that the detection hears to its end gets its END, also
  when its tail is not flushed in time: on a connection that is served and on which
  nothing failed, its START waits only while speech goes on.  It does not speak of
  the sentences that are dropped, nor of the START of `music_play_pre`.
* `SentencesSpec`: the thread's START, frames and END come in an order that makes
  sentences, for whatever is refused, reset in the midst of a sentence or cut off,
  and whatever another thread sends.
* `HearsAgain`: a build that does not listen until the answer to what it said
  has been played does listen again; what a lost connection left of the round
  does not keep it from that.

* `IndexNamesWholeFiles`: what the index names is there, features first, also
  after the program was killed between any two writes.  Out of room or after a
  power cut it need not be: nothing is synced, and a full disk shows only at
  `fclose`, whose result is not looked at.
* `NamesAreOwn`: a name reported for a face is one that was given to that face,
  though names come from two places, filled by three threads.
* `NearestIsReported`: a lookup that no rewrite overlapped reports the nearest
  face that has a name.  One that did may miss names that are there.
* `LibrarySpec`: a set of faces, see section 3.

* `OneSupervisor`: locks and pid files of dead scripts do not let in a second
  supervisor.  The proviso `tidy` says what the lock does not do: two starts that
  overlap may each find the other's lock and take it for a dead one's, and one
  that is killed between the fork and the record leaves a supervisor that the
  next start does not see.  Without the proviso TLC shows both.
* `StartTakesEffect`, `StopIsComplete`: what a script that nothing interferes
  with was run for is so when it ends, whatever was left before it.  A stop
  may leave a client: one that was forked and not yet executed when `ps` and
  `killall` looked.
* `KillStopsAll`: `kill.sh` needs no proviso about what came before; two
  supervisors, orphaned clients and forgotten locks are all gone after it.

* `OneVersion`: what init calls is deleted with the rest, the deletion is synced,
  and it comes back last; hence no power cut and no failure leaves a board that
  boots a mixture.  There are three provisos, and without each of them TLC shows a
  client launched from a mixture or from part of a file: between the last file and
  the reboot nothing is synced, and a cut there may leave one (`torn`); a file that
  could not be deleted stays among the new ones, and if it is what init calls the
  board comes up with them (`refused`); and a server that gives no length, or
  answers the two requests for a file differently, may have a damaged one pass for
  complete (`reliable`).
* `SuccessMeansComplete`, `SuccessIsServed`: with a reliable server and without such
  a cut, success is written for all files alone, also when some could not be
  deleted, and then the new client comes up.

Every property of a passing run has a mutant: a named variant of one action or
guard, defined next to it, that breaks the property (`PROJECT.json`, "mutants").

## 5. Fairness

Threads are scheduled by the operating system, so each thread's steps have weak
fairness: `WF_vars(Worker)` in `MusicPlayer`, `WF_vars(Player)` in `TtsPlayback`,
the tone, the handling of a message and the TTS player in `WaitTone`, each
uploading thread, the app once connected and the creation of a thread in
`VisionUpload`, each thread and the app while it stops the module in
`FaceEngine`, the capture thread and the app between connections in
`AudioUplink`, where the loop ends once the connection is gone.  In `Update`
init, the supervisor's launch and the updater have it, except while a download
is under way: the script sets no time limit on it.  `FaceLibrary` and
`Supervisor` state no fairness, their properties are safety.  Calls and
messages from outside have none: nobody need speak, connect, answer or hang up.  The worker's fairness
includes the return of a transfer, since a transfer polls the flag and the core
has its own timeouts; it does not include the unasked return of a condition wait.

`TtsPlayback` has two strong ones.  `SF_vars(Returning)`: a call that waits for
the mutex gets it, although the player takes it again and again.
`SF_vars(IdleTimeout)`: the player's idle turns are steps without time, and the
timeout is a test of the clock; when the player keeps coming back to it, it is
in the end true.

`FaceEngine` has one per thread for the engine's lock, which the capture thread
takes every ten milliseconds: a thread that waits for it gets it in the end.
`SF_vars(Compared)` says that an engine asked again and again has in the end
something to compare with.  Nothing in the code makes an engine answer: the reads
have no time limit (`face_recognition.c:202, 223, 239`).  That an engine does not
hang for good is therefore no fairness but the premise `EnginesAnswer` of the three
liveness properties, and stands in each of them.  An upload ends by itself only with the session or the module, as in `VisionUpload`.

`LiveSpec` of `WaitTone` asks only what its properties need.  `FairSpec` adds
each thread by itself and is used where a property is refuted: the more is
assumed, the more the refutation says.

The runs set `CHECK_DEADLOCK FALSE`: with requests bounded and nothing left to
play, the worker sleeps and the instance may stop.

## 6. Proofs

The proofs hold for every value of the bounds, from `BoundsAssumption` (the
bounds are naturals) and, in the player, `NoneAssumption` (a null item is no
item), and use nothing about the set `Threads`.

**`MusicPlayerProofs`.** `Inductive` proves that `IInv` is an invariant:

* `TypeOK`;
* `HandInv`: the worker's place tells whether it holds an item, and that item
  carries the worker's token; `playing` is up while it does.  `WorkIsActive`
  is not inductive without it, because `ItemDone` lowers `playing`;
* `QueueInv`: what is queued carries the present token, which makes `Dequeue`
  take a current item;
* `StaleInv`: a place between the test of the token and the write has heard
  nothing late yet; this is what bounds late chunks to one;
* `StaleTransferStopped` itself;
* `GateInv`: before a piece of Baidu audio is fed, the server has spoken for
  that request; an open gate belongs to a request it spoke for; the waiting
  mark is up only between the two ends of a query;
* `FreshInv`: a query is alone in its request and unknown to the server before it
  is posted, so that no CANCEL of it can precede its installation at the gate;
* `CancelInv`: a CANCEL of the query in hand has left its mark, and the stream is
  down but for the last line of the handler.

From it follow `TypeCorrect`, `TransfersStop`, `ActiveWhenWorking` and
`GateIsKept`, of which `CancelIsHeeded`, an action property, is a part.  `PlayerIsPlaylist` proves the refinement: the initial
state is the playlist's, and under `IInv` each action is a step of the playlist
or a stutter (`StepRefines`): requests are `Request`, `Stop` is `Halt`,
`Dequeue` is `Begin`, `Write` is `LateChunk` or a stutter, `ItemDone` is `End`.
Lemmas about splitting and joining sequences (`ItemsOfList`, `SplitIsWhole`,
`TakeFirst`, `TailKeeps`) carry the arguments about the two queues.

**`WaitToneProofs`.** `ToneInductive` proves `TypeOK /\ ToneInv /\ WaiterInv`.
`OneOfEach` speaks of threads in their loops, which is not enough: a thread that
has claimed the mark and has yet to create the loop is in neither set.
`ToneInv` therefore counts the loop, a ws thread about to create it and a
waiter about to create it together, and says that the mark is up for any of
them; `WaiterInv` does the same for waiters, and adds that the mark is up for
nothing else, from which `PendingHasWaiter` follows.  `AtMostOneThread` and
`PendingIsInHands` are the results, `ToneTypeCorrect` the types.

**`VisionUploadProofs`.** `VisionInductive` proves `TypeOK /\ WorkerInv /\
BusyIsHeld /\ LoopRuns /\ AnswersInv`.  `BusyIsHeld` alone is not inductive: it does not exclude that a
session makes a second worker while the first has a picture, or that the message
handler creates a thread outside the loop.  `WorkerInv` says that a worker exists
only between its creation and its join, that a build with faces has none, and
that threads are created inside the loop.  `AnswersInv` is `GrantIsOwn` with the
two parts it needs: `OwedToWaiter` (while the session lasts, the server owes an
answer only to the one thread that waits for it) and `MailIsOwn` (an answer in
the mailbox that a waiting thread finds is its own).  That no answer is left
behind inside a session rests on `LoopRuns`: neither flag that ends a wait is up
there, so a thread gives up only when no answer is handled any more; and nobody
uploads before the worker is made, unless a thread came from the session before,
which `Regular` excludes.  `BusyHasHolder`, `GrantIsTheirs`, `WaitsInLoop` (an
action property) and `VisionTypeCorrect` are the results.

**`FaceEngineProofs`**, from `FaultsAssumption`.  `FaceInductive` proves
`TypeOK /\ AliveInv /\ SocketInUse /\ OneEngine`.  `SocketInUse` names the
lock's holder as well as the open socket, without which another thread's
cleanup could not be excluded; the types tie a thread's place to what it wants.
`AliveInv` says at which places of the app a thread of the module may be alive;
it is needed where the app creates a thread (the old one is gone) and gives
`StopIsFinal`, an action property.  `SocketIsHeld`, `AtMostOneEngine` and
`FaceTypeCorrect` are the other results.

**`AudioUplinkProofs`**, from `PrerollAssumption` (the buffer has room for a
frame) and `BoundsAssumption`.  `UplinkInductive` proves `TypeOK /\ PlaceInv /\
OpenInv /\ RingInv /\ SentInv /\ DueInv`.  The buffer is described from its end:
`Recent(d)` is the frame kept `d` before the last, and `RingInv` says that these
fall, and in silence are the last ones taken, as many as the buffer holds or as
there are since the sentence before.  `StoreKeeps` and `FlushedFrames` say once
what storing and flushing mean in these terms; after them no step looks at
positions.  `SentInv` bounds what is sent by the frame in hand, `DueInv` says
that what is due is sent, in hand or still in the buffer, `PlaceInv` and
`OpenInv` tie the thread's copy of the connection to the app's, and the mark of
speech to the thread's place.  The results are
`UplinkTypeCorrect`, `SentIsInOrder`, `NothingIsLost`, `SentencesAreEnded`.
`UplinkSaysSentences` proves the refinement.  The steps of the app and the world
(`AroundSays`) are `Connect`, `Lose` or stutters; a sentence that is found, ends
or is reset is `Find`, `Finish`, `Abandon`; the flush and the frame in hand are
`Deliver` (`DeliverySays`): the flush by `FlushedFrames`, the frame because
`SentInv` puts it after all that was sent.  `SendStart` needs that nothing of the
sentence was sent before (`SentInv`), `SendEnd` that the sentence is over
(`PlaceInv`).

**`TtsPlaybackProofs`**, from the bounds being naturals.  `TtsInductive` proves
`TypeOK /\ DeviceInv /\ QuietWhenReporting /\ ChatInv /\ BlankInv`.  `DeviceInv` is
`FlushedDeviceIsOpen` without its "while the mutex is free", and says that the
device is open before it is published.  `ChatInv` bounds the
chats that were reported, the record `reported` and the chat in the player's
hands (a real one once the test is passed) by the latest round a report could be about; that a later round has a
larger number is the server's doing (`round`).  It is what makes
`StopReportedOnce` hold through the steps between the test of the record and its
writing.  `BlankInv` counts the reports of no chat together with the one that may
be in hand or to come, against the interrupts and sub-rounds.  `FlushedIsOpen`,
`ReportedOnce`, `ReportsAreQuiet` and `TtsTypeCorrect` are the results.
`PlayerKeepsToReports` proves the refinement: the test is `Decide`, which
`ChatInv` (the chat is later than all that was told) and `QuietWhenReporting`
allow; the message is `Tell` or `Fail`; of the other steps only those that touch
`playing`, the rounds or the history are more than stutters (`PlayerReports`,
`CallerReports`).

**`FaceLibraryProofs`**, from `CacheAssumption` and `SavesAssumption`.
`LibraryInductive` proves the types with five parts: `RewriteInv` (during a
rewrite, what is written and what is left to write make up the old index without
the name that is saved, unless room is short), `WholeInv` (all that is or will be
in the index has its file), `AskedInv` (all entries anywhere were asked for),
`LookupInv` (what a lookup has found is a match it was given) and `CalmInv` (as
long as no rewrite overlaps, what has been looked up and has a name is not nearer
than the best).  `IndexIsBacked`, `ReportsOwnNames`, `ReportsNearest` and
`LibraryTypeCorrect` follow.  `LibraryIsSet` proves the refinement: saves map to
`Save` or `SaveShort` at the step that ends the rewrite, `OpenIndex` to `Begin`
or a stutter, crashes to `Lose`, `WriteBack` to `Settle`.

**`ScriptProofs`** proves of both modules about scripts (for which `Update` has
names of its own).  Of `Supervisor`, from the assumptions on the numbers of
scripts and pids:
`SupervisorInductive` proves `TypeOK /\ TidyInv /\ AloneInv`.  `TidyInv` says
what holds at each place of a script while no start was disturbed: a start is by
itself, a stop that has passed the pid file has left no supervisor, and the pid
file names the one there is, except between the fork and the record.  `AloneInv`
says what a script that is alone has achieved on reaching each place, which for
`kill.sh` does not depend on anything before it.  `AtMostOneSupervisor`,
`StartIsEffective`, `StopIsThorough` and `KillIsThorough` are the results, the
last three action properties.

Of `Update`, from `CutsAssumption` and `RefusedAssumption`: `UpdateInductive`
proves `UpdateTypeOK /\ QuietInv /\ KeptInv /\ HonestInv /\ ModeInv`.
`SuccessMeansComplete` says nothing of a board on which the updater is at work, and
`OneVersion` nothing of one on which no client is launched.  `HonestInv` gives the
first: what init calls is new only with all the rest, on the disk too, since it is
the last to be loaded; it does not depend on what could be deleted.  `ModeInv`
gives the second, and tells which of four things such a board is, in its files
and on its disk: *before* (nothing of the new version is there, and no more
missing than the deletion has come to), *between* (the deletion is synced, the
files up to the updater's entry are new, what follows is gone), *dead* (booted
without what init calls), *done* (booted with the new version).  A cut leads from
*between* to *dead* because what init calls comes last; this is where `torn`
is needed.  `QuietInv` says that supervisor and client are gone before the
deletion begins and that only a boot brings them back: without it a client could
be launched *between*.  `UpdateTypeCorrect`, `SuccessIsComplete` and
`LaunchesOneVersion`, an action property, are the results.

Every safety property of a passing run is proved.  Only model-checked are the
liveness properties (fairness and ENABLED are beyond the prover):
`SupersededIsReleased`, `QueuedIsTakenUp`, `MarksEnd`, `CallsReturn`,
`ToneLoopEnds`, `HeldListIsPlayed`, `ReportsResume`, `CallersReturn`,
`SilenceIsSurvived`, `HearsAgain`, `SuccessIsServed`; and the three that are
refuted: `PlayingEnds`, `CaptureGoesOn`, `DoneIsDelivered`.

## 7. Disagreements between code and documentation

Three runs expect a violation.  Each checks a sentence of a header, a comment or
the README of the repository; the sentences are quoted in `PROJECT.json`,
"findings".

* `tts_stuck`: a sub-round that zeroes the time of the last audio after the
  player used up its flush and played a frame disarms the idle timeout; the
  client stays playing.
* `face_capture`: after the engine has died the capture thread starts another
  but keeps the old socket; no picture is taken until somebody speaks and the
  report thread cleans up, although a comment says that pictures no longer
  depend on speech.
* `vision_lost`: the wait for the end of one picture throws away, or its request
  clears, the answer about another thread's picture, which then waits until the
  session ends.

The models show some more that no run asks for:

* an interrupt that takes a queued item back, between the end of the item in hand
  and the worker's next look, leaves `playing` up with nothing to play
  (`music_player.c:962`), where `music_player.h:24` says that `is_active` tells
  whether something plays or is queued;
* a late cancel of a finished Baidu query is remembered and discards the next one
  (`music_player.c:667` resets two marks of three);
* `music_player.h:18` and `:20` have TTS_DONE release the audio of a Baidu query and
  CANCEL discard it.  The code opens the gate with a CANCEL as well
  (`music_player.c:163-165`), and the stream's flag falls only after that (`:172`):
  a chunk of the stream that comes in between, or the gate's second look (`:693`),
  plays the piece or the whole buffer of a request that was cancelled.
  `CancelHeeded` says that it is no more than that;
* the report of the end of speech may name chat 4294967295: the chat of the packets
  is read twice (`udp_tts.c:380, 381`), and an interrupt (`:768`) or a sub-round
  (`:795`) in between sets it to -1.  The record is overwritten with it (`:420`), so
  that a round that was told of may be told of again;
* a face engine that is alive and silent blocks the thread that reads from it, and
  with the lock the other two and the app's join, for ever; the cleanup that would
  kill the engine waits for the lock that the reader holds;
* `music_play_pre` and a sentence dropped for playback leave the server with a START
  that gets no END before that of a later sentence (section 3, `AudioUplink`);
* an update reports success for a damaged file when the server's two answers differ
  (`ota_update_template.sh:301-371`), and may leave an old file among new ones when
  it cannot be deleted (`:206`);
* a start of the waiting tone that meets the loop's thread on its way out is lost
  (`prompt_tone.c:145`);
* two starts of the supervisor that overlap may leave two (`OneSupervisor`);
* the update puts the core library next to the client
  (`ota_update_template.sh:86`), the package has it in `lib/` (README.md:268),
  and the client is told to look there first (`start_zh_client.sh:38`): after a
  successful update of a board that was installed from the package the new
  client runs with the old library (`inLib`).  The same goes for
  `libonnxruntime.so.1.17.3`, which the supervisor insists on finding in `lib/`
  (`start_zh_client.sh:10`);
* a failed update leaves a board without a client and without a reboot, and, when
  an `rm` or `mkdir` of `apply_one` fails, without a result.

## 8. What is not modelled, and why

* The composed app (section 2, 7): the parts of its loop are in the modules that
  depend on them.
* Installing and removing (`install.sh`, `uninstall.sh`): run by hand, once.
* In the update: detaching the script, a manifest given from outside, purging
  logs.
* `zh_music_play_mp3` has no caller.  `zh_music_player_stop` has none either but
  is modelled, since the worker tests its flag everywhere.
* Subtitles and the debug dump of PCM in `udp_tts.c`: they change what is shown
  or written and nothing else.  `zh_udp_tts_wait` only waits.
* `pthread_mutex_init` failures, allocation failures that only skip a request
  (a skipped request is no step), logging.
* The wait for a fortune result has no caller; the fortune messages of the
  session touch nothing modelled here.
* In `face_recognition.c`, the bytes of a picture that is refused after its
  header was read (too large, no memory) stay in the socket and would be taken
  for the next answer; contents of answers are abstracted here.
* The camera, jpeg and the comparison of pictures: outcomes are choices.
* Audio drivers, network bring-up, configuration: sequential, without state
  that threads share; that opening or writing a device may fail is a choice in
  the modules that use it.
* The core library and the face engine are closed; what they may do is modelled
  from how the code here uses them.
* `is_supervisor_running` is four commands and one step of `Supervisor`
  (`IsRunning`): what could come between them is what `tidy` and `alone` exclude.
  The background shell in which `S22zh_client` waits before it starts the
  supervisor is not a process of its own.
* A result file that is written in part counts as not written.
* Formats: decoding of mp3 and SSE, JSON, urls.
