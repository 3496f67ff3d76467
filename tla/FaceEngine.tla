------------------------------ MODULE FaceEngine ------------------------------
(***************************************************************************)
(* The face engine and those who use it: src/src/face_recognition.c.       *)
(*                                                                         *)
(* The engine is a child process behind one socket.  Three threads of the  *)
(* client command it, each holding g_face_engine_mutex from the look at    *)
(* the child to the last byte of the answer: the report thread, which      *)
(* compares faces while someone speaks, the capture thread, which takes    *)
(* pictures all the time, and the ws thread, which samples a new face.     *)
(* Whoever finds the child gone starts another; the report thread and the  *)
(* end of the module also kill it.  The app starts the module, and stops   *)
(* it again when the microphone cannot be opened (src/src/app.c).          *)
(***************************************************************************)
EXTENDS Naturals

CONSTANT MaxFaults    \* bound on what goes wrong with a good engine: that it
                      \* dies, hangs, is not started, not reached, not of use

ASSUME FaultsAssumption == MaxFaults \in Nat

Threads == {"report", "capture", "ws"}

VARIABLES
  \* the app's place, and whether its microphone has been opened
  app, audio,
  \* g_face_running, g_face_capture_running; the marks of the two threads
  \* equal them where the app looks at them
  running, captureRunning,
  \* g_face_active, g_face_report_until_ms being ahead, g_face_ws being set
  active, grace, faceWs,
  \* g_face_engine_mutex: free, or who holds it
  lock,
  \* the process g_face_engine_pid names: none, one that runs, one that is
  \* dead and not yet waited for; whether another engine runs that it does
  \* not name; whether the one that runs has stopped answering
  child, stray, hung,
  \* g_face_uds_fd: closed, leading to that process, or to an earlier one
  sock,
  \* the threads: place, and what they want of the engine
  at, want,
  \* g_face_enroll_valid
  sampled,
  faults

flagVars   == <<running, captureRunning>>
speechVars == <<active, grace>>
appVars    == <<app, audio, faceWs>>
engineVars == <<child, stray, hung, sock, faults>>
threadVars == <<at, want>>

vars == <<appVars, flagVars, speechVars, lock, engineVars, threadVars,
          sampled>>

Init ==
  /\ app = "start" /\ audio = FALSE /\ faceWs = FALSE
  /\ running = FALSE /\ captureRunning = FALSE
  /\ active = FALSE /\ grace = FALSE
  /\ lock = "free"
  /\ child = "none" /\ stray = FALSE /\ hung = FALSE
  /\ sock = "closed" /\ faults = 0
  /\ at = [t \in Threads |-> "none"]
  /\ want = [t \in Threads |-> "nothing"]
  /\ sampled = FALSE

-----------------------------------------------------------------------------
(* The engine's process and the socket.                                    *)

\* Forgetting a process that runs leaves a stray one.
ForgetChild(c) ==
  /\ child' = "none" /\ hung' = FALSE
  /\ stray' = (stray \/ c = "up")

\* Mutant: the engine is left to end by itself.
LeaveEngine ==
  /\ sock' = "closed"
  /\ ForgetChild(child)

\* zh_face_cleanup_engine_locked: the process is killed and waited for.
CleanupEngine ==
  /\ sock' = "closed"
  /\ ForgetChild(IF child = "up" THEN "dead" ELSE child)

Fault == faults < MaxFaults /\ faults' = faults + 1

FaultIf(good) == IF good THEN Fault ELSE UNCHANGED faults

EngineOnly ==
  UNCHANGED <<appVars, flagVars, speechVars, lock, stray, sock, threadVars,
              sampled>>

\* The engine dies by itself.
Crash ==
  /\ child = "up" /\ child' = "dead" /\ hung' = FALSE
  /\ Fault
  /\ EngineOnly

\* It stops answering and runs on, for a while or for good.
Hangs ==
  /\ child = "up" /\ ~hung /\ hung' = TRUE
  /\ Fault
  /\ EngineOnly /\ UNCHANGED child

ComesBack ==
  /\ hung /\ hung' = FALSE
  /\ EngineOnly /\ UNCHANGED <<child, faults>>

Itself == Crash \/ Hangs \/ ComesBack

-----------------------------------------------------------------------------
(* A command: what is common to the three threads.                         *)

Go(t, from, to) ==
  /\ at[t] = from
  /\ at' = [at EXCEPT ![t] = to]

\* Asks for the lock, to do what is wanted.
Ask(t, from, what) ==
  /\ Go(t, from, "lock")
  /\ want' = [want EXCEPT ![t] = what]

Acquire(t) ==
  /\ Go(t, "lock", "prepare")
  /\ lock = "free" /\ lock' = t
  /\ UNCHANGED <<appVars, flagVars, speechVars, engineVars, want, sampled>>

Engine(t) ==
  /\ lock = t
  /\ UNCHANGED <<appVars, flagVars, speechVars, lock, want, sampled>>

\* zh_face_prepare_engine_locked: the engine runs, as far as one can see ...
EngineRuns(t) ==
  /\ child = "up"
  /\ Engine(t) /\ Go(t, "prepare", "connect")
  /\ UNCHANGED engineVars

\* ... or a new one is made; the socket stays the one to the old engine.
StaleSocket == sock' = IF sock = "child" THEN "gone" ELSE sock

StartEngine(t) ==
  /\ child # "up"
  /\ Engine(t) /\ Go(t, "prepare", "connect")
  /\ child' = "up" /\ UNCHANGED <<stray, hung, faults>>
  /\ StaleSocket

StartFails(t) ==
  /\ child # "up"
  /\ Engine(t) /\ Go(t, "prepare", "failed")
  /\ ForgetChild(child)
  /\ StaleSocket /\ Fault

Connected(t) == IF want[t] = "prepare" THEN "ok" ELSE "send"

HasSocket(t) ==
  /\ sock # "closed"
  /\ Engine(t) /\ Go(t, "connect", Connected(t))
  /\ UNCHANGED engineVars

Connect(t) ==
  /\ sock = "closed" /\ child = "up"
  /\ Engine(t) /\ Go(t, "connect", Connected(t))
  /\ sock' = "child"
  /\ UNCHANGED <<child, stray, hung, faults>>

ConnectFails(t) ==
  /\ sock = "closed"
  /\ Engine(t) /\ Go(t, "connect", "failed")
  /\ CleanupEngine
  /\ FaultIf(child = "up")

Peer == sock = "child" /\ child = "up"

\* zh_uds_send_cmd: a write to an engine that is gone fails, ...
Send(t) ==
  /\ Engine(t)
  /\ Go(t, "send", IF Peer THEN "read" ELSE "failed")
  /\ UNCHANGED engineVars

\* ... as does a read.  An engine that runs answers, to use or not, ...
Answer(t) ==
  /\ Peer /\ ~hung
  /\ Engine(t) /\ Go(t, "read", "ok")
  /\ UNCHANGED engineVars

\* ... or it hangs: then the read has no end, and nothing of this is enabled.
NoAnswer(t) ==
  /\ Engine(t) /\ Go(t, "read", "failed")
  /\ Peer => ~hung
  /\ FaultIf(Peer)
  /\ UNCHANGED <<child, stray, hung, sock>>

-----------------------------------------------------------------------------
(* What the threads do with the outcome, the lock being released.          *)

Quiet == UNCHANGED <<appVars, flagVars, speechVars, engineVars>>

Result(t, outcome, what, to) ==
  /\ want[t] = what /\ want' = [want EXCEPT ![t] = "nothing"]
  /\ Go(t, outcome, to)
  /\ lock = t /\ lock' = "free"
  /\ Quiet

\* A step of a thread that neither has nor takes the lock.
Free == Quiet /\ UNCHANGED <<lock, sampled>>

Move(t, from, to) == Go(t, from, to) /\ UNCHANGED want /\ Free

\* zh_face_thread_main.
Due == active \/ grace

TopLeaves == ~running /\ Move("report", "top", "exitCleanup")

TopPrepares ==
  /\ running /\ Due
  /\ Ask("report", "top", "prepare") /\ Free

TopWaits == running /\ ~Due /\ Move("report", "top", "asleep")

Prepared ==
  Result("report", "ok", "prepare", "inner") /\ UNCHANGED sampled

NotPrepared ==
  Result("report", "failed", "prepare", "top") /\ UNCHANGED sampled

InnerLeaves == ~(Due /\ running) /\ Move("report", "inner", "top")

InnerCompares ==
  /\ Due /\ running
  /\ Ask("report", "inner", "compare") /\ Free

\* zh_face_do_compare_and_report: the server is told whom the engine sees, ...
Compared ==
  Result("report", "ok", "compare", "told") /\ UNCHANGED sampled

\* ... or the engine had nothing to compare with, and that is repaired, ...
NothingToCompare ==
  Result("report", "ok", "compare", "inner") /\ UNCHANGED sampled

\* Mutant: the engine is kept after a failure.
CompareFailsOnly ==
  Result("report", "failed", "compare", "inner") /\ UNCHANGED sampled

\* ... or there was no answer.
CompareFails ==
  Result("report", "failed", "compare", "cleanup") /\ UNCHANGED sampled

Told    == Move("report", "told", "inner")
NotTold == Move("report", "told", "cleanup")

\* Mutant: without the lock.
ReportCleanupUnlocked(from, to) ==
  /\ Go("report", from, to)
  /\ CleanupEngine
  /\ UNCHANGED <<appVars, flagVars, speechVars, lock, faults, want, sampled>>

ReportCleanup(from, to) ==
  /\ lock = "free"
  /\ Go("report", from, to)
  /\ CleanupEngine
  /\ UNCHANGED <<appVars, flagVars, speechVars, lock, faults, want, sampled>>

Recover == ReportCleanup("cleanup", "inner")
ReportExits == ReportCleanup("exitCleanup", "none")

Report ==
  \/ TopLeaves \/ TopPrepares \/ TopWaits \/ Prepared \/ NotPrepared
  \/ InnerLeaves \/ InnerCompares
  \/ Compared \/ NothingToCompare \/ CompareFails \/ Told \/ NotTold
  \/ Recover \/ ReportExits

\* zh_face_capture_thread_main: one picture after the other.
TakePicture ==
  /\ captureRunning
  /\ Ask("capture", "rest", "picture") /\ Free

CaptureExits == ~captureRunning /\ Move("capture", "rest", "none")

Picture ==
  /\ Result("capture", "ok", "picture", IF faceWs THEN "upload" ELSE "rest")
  /\ UNCHANGED sampled

NoPicture ==
  Result("capture", "failed", "picture", "rest") /\ UNCHANGED sampled

\* zh_face_upload_one_frame: put the picture, ask who is on it, commit.
AskName == Ask("capture", "upload", "name") /\ Free

Name(outcome) ==
  Result("capture", outcome, "name", "commit") /\ UNCHANGED sampled

UploadEnds == \E from \in {"upload", "commit"} : Move("capture", from, "rest")

Capture ==
  \/ TakePicture \/ CaptureExits \/ Picture \/ NoPicture
  \/ AskName \/ (\E outcome \in {"ok", "failed"} : Name(outcome)) \/ UploadEnds

\* The ws thread: a face_recog message, zh_face_enroll_on_recog.
FaceRecog ==
  /\ app = "session"
  /\ Ask("ws", "none", "sample") /\ Free

Sampled    == Result("ws", "ok", "sample", "none") /\ sampled' = TRUE
NotSampled == \E outcome \in {"ok", "failed"} :
  Result("ws", outcome, "sample", "none") /\ sampled' = FALSE

Ws == FaceRecog \/ Sampled \/ NotSampled

-----------------------------------------------------------------------------
(* Speech, as the audio path reports it: zh_face_recognition_set_active.   *)

Wake(a) == [a EXCEPT !["report"] = IF @ = "asleep" THEN "top" ELSE @]

SpeechStarts ==
  /\ audio \/ app = "uplink"
  /\ active' = TRUE /\ grace' = FALSE
  /\ at' = Wake(at)
  /\ UNCHANGED <<appVars, flagVars, lock, engineVars, want, sampled>>

SpeechEnds ==
  /\ active /\ active' = FALSE /\ grace' = TRUE
  /\ at' = Wake(at)
  /\ UNCHANGED <<appVars, flagVars, lock, engineVars, want, sampled>>

GraceEnds ==
  /\ grace /\ grace' = FALSE
  /\ UNCHANGED <<active, appVars, flagVars, lock, engineVars, threadVars,
                 sampled>>

-----------------------------------------------------------------------------
(* The app: zh_run_session, zh_face_recognition_start and _stop.           *)

AppOnly ==
  UNCHANGED <<flagVars, speechVars, lock, engineVars, threadVars, sampled>>

StartReport ==
  /\ app = "start" /\ app' = "startCapture"
  /\ running' = TRUE
  /\ at' = [at EXCEPT !["report"] = "top"]
  /\ UNCHANGED <<audio, faceWs, captureRunning, speechVars, lock, engineVars,
                 want, sampled>>

\* No directory for the faces, or no thread.
NoReport ==
  /\ app = "start" /\ app' = "uplink"
  /\ UNCHANGED <<audio, faceWs>> /\ AppOnly

StartCapture(created) ==
  /\ app = "startCapture" /\ app' = "uplink"
  /\ captureRunning' = created
  /\ at' = IF created THEN [at EXCEPT !["capture"] = "rest"] ELSE at
  /\ UNCHANGED <<audio, faceWs, running, speechVars, lock, engineVars, want,
                 sampled>>

\* zh_audio_uplink_start.
Uplink ==
  /\ app = "uplink" /\ app' = "connect"
  /\ audio' = TRUE
  /\ UNCHANGED faceWs /\ AppOnly

\* Mutant: the report thread is not woken.
StopSilently ==
  /\ app = "uplink" /\ running
  /\ app' = "joinReport"
  /\ running' = FALSE /\ captureRunning' = FALSE
  /\ active' = FALSE /\ grace' = FALSE
  /\ UNCHANGED <<audio, faceWs, lock, engineVars, threadVars, sampled>>

\* zh_face_recognition_stop, if the module was started: ...
Stop ==
  /\ app = "uplink" /\ running
  /\ app' = "joinReport"
  /\ running' = FALSE /\ captureRunning' = FALSE
  /\ active' = FALSE /\ grace' = FALSE
  /\ at' = Wake(at)
  /\ UNCHANGED <<audio, faceWs, lock, engineVars, want, sampled>>

NothingToStop ==
  /\ app = "uplink" /\ ~running
  /\ app' = "connect"
  /\ UNCHANGED <<audio, faceWs>> /\ AppOnly

\* Mutant: the capture thread is not joined.
JoinReportOnly(t, from, to) ==
  /\ app = from /\ (t = "report" => at[t] = "none") /\ app' = to
  /\ UNCHANGED <<audio, faceWs>> /\ AppOnly

\* ... the threads are joined, the capture thread if there is one, ...
Join(t, from, to) ==
  /\ app = from /\ at[t] = "none" /\ app' = to
  /\ UNCHANGED <<audio, faceWs>> /\ AppOnly

JoinReport  == Join("report", "joinReport", "joinCapture")
JoinCapture == Join("capture", "joinCapture", "cleanup")

\* ... and the engine goes.
StopCleanup ==
  /\ app = "cleanup" /\ app' = "connect"
  /\ lock = "free"
  /\ CleanupEngine
  /\ UNCHANGED <<audio, faceWs, flagVars, speechVars, lock, faults,
                 threadVars, sampled>>

\* A session begins, or there is none and the next try starts over.
Session ==
  /\ app = "connect" /\ app' = "session"
  /\ faceWs' = TRUE
  /\ UNCHANGED audio /\ AppOnly

NextTry == IF audio THEN "connect" ELSE "start"

NoSession ==
  /\ app = "connect" /\ ~audio /\ app' = "start"
  /\ UNCHANGED <<audio, faceWs>> /\ AppOnly

\* The run loop returns between two messages.
SessionEnds ==
  /\ app = "session" /\ at["ws"] = "none" /\ app' = NextTry
  /\ faceWs' = FALSE
  /\ UNCHANGED audio /\ AppOnly

Stopping == JoinReport \/ JoinCapture \/ StopCleanup

App ==
  \/ StartReport \/ NoReport \/ (\E created \in BOOLEAN : StartCapture(created))
  \/ Uplink \/ Stop \/ NothingToStop \/ Stopping
  \/ Session \/ NoSession \/ SessionEnds

Command(t) ==
  \/ Acquire(t) \/ EngineRuns(t) \/ StartEngine(t) \/ StartFails(t)
  \/ HasSocket(t) \/ Connect(t) \/ ConnectFails(t)
  \/ Send(t) \/ Answer(t) \/ NoAnswer(t)

Next ==
  \/ Report \/ Capture \/ Ws \/ (\E t \in Threads : Command(t))
  \/ SpeechStarts \/ SpeechEnds \/ GraceEnds \/ Itself \/ App

Spec == Init /\ [][Next]_vars

-----------------------------------------------------------------------------
(* Fairness.  The threads run, the lock is not kept from a thread for      *)
(* ever, and a wait for the server ends with the session or the module.    *)
(* Nothing makes an engine that hangs answer, and nothing limits the read. *)

CaptureRuns ==
  \/ TakePicture \/ CaptureExits \/ Picture \/ NoPicture
  \/ \E outcome \in {"ok", "failed"} : Name(outcome)

Fairness ==
  /\ WF_vars(Command("report") \/ Report)
  /\ SF_vars(Acquire("report") \/ Recover \/ ReportExits)
  /\ SF_vars(Compared)
  /\ WF_vars(Command("capture") \/ CaptureRuns)
  /\ SF_vars(Acquire("capture"))
  /\ WF_vars(UploadEnds /\ (~faceWs \/ ~captureRunning))
  /\ WF_vars(Command("ws") \/ Sampled \/ NotSampled)
  /\ SF_vars(Acquire("ws"))
  /\ WF_vars(Stopping)

FairSpec == Spec /\ Fairness

-----------------------------------------------------------------------------
(* Correctness.                                                            *)

\* The places in a command are those at which the thread has the lock, and
\* the one at which it asks for it; the others are its own.
HeldPlaces == {"prepare", "connect", "send", "read", "ok", "failed"}
CommandPlaces == HeldPlaces \cup {"lock"}

OwnPlaces ==
  [report  |-> {"none", "top", "asleep", "inner", "told", "cleanup",
                "exitCleanup"},
   capture |-> {"none", "rest", "upload", "commit"},
   ws      |-> {"none"}]

Wants ==
  [report |-> {"prepare", "compare"}, capture |-> {"picture", "name"},
   ws |-> {"sample"}]

Places   == CommandPlaces \cup UNION {OwnPlaces[t] : t \in Threads}
AllWants == {"nothing"} \cup UNION {Wants[t] : t \in Threads}

EngineTyped ==
  /\ lock \in Threads \cup {"free"}
  /\ child \in {"none", "up", "dead"}
  /\ stray \in BOOLEAN /\ hung \in BOOLEAN
  /\ sock \in {"closed", "child", "gone"}
  /\ faults \in 0..MaxFaults

FlagsTyped ==
  /\ app \in {"start", "startCapture", "uplink", "joinReport", "joinCapture",
              "cleanup", "connect", "session"}
  /\ audio \in BOOLEAN /\ faceWs \in BOOLEAN
  /\ running \in BOOLEAN /\ captureRunning \in BOOLEAN
  /\ active \in BOOLEAN /\ grace \in BOOLEAN
  /\ sampled \in BOOLEAN

\* A thread that wants something of the engine is in a command.
ThreadsTyped ==
  /\ at \in [Threads -> Places] /\ want \in [Threads -> AllWants]
  /\ \A t \in Threads :
       \/ at[t] \in OwnPlaces[t] /\ want[t] = "nothing"
       \/ at[t] \in CommandPlaces /\ want[t] \in Wants[t]

TypeOK == EngineTyped /\ FlagsTyped /\ ThreadsTyped

\* Two threads never talk on the socket at once, and it is not closed under
\* the one that does: the lock is held exactly by the thread that is in a
\* command, and who writes one or reads its answer has an open socket.
SocketInUse ==
  \A t \in Threads :
    /\ lock = t <=> at[t] \in HeldPlaces
    /\ at[t] \in {"send", "read"} => sock # "closed"

\* No engine is forgotten while it runs: two would share one camera.
OneEngine == ~stray

\* No engine comes back after a stop: one is started only for a module that
\* is started, or not yet joined, or for a face to be sampled.
NoRevival ==
  [][child # "up" /\ child' = "up" =>
       \/ running \/ captureRunning
       \/ app \in {"joinReport", "joinCapture"}
       \/ lock = "ws"]_vars

\* What the code relies on and cannot bring about: no engine hangs for good.
\* The reads (face_recognition.c:202, 223, 239) know no time limit, and what
\* would kill the engine waits for the lock the reader has.
EnginesAnswer == []<>~hung

\* While someone speaks the server is told again whom the engine sees, even
\* if the engine has died, was silent or its socket has gone stale.
ReportsResume ==
  EnginesAnswer =>
    ((active /\ running) ~> (at["report"] = "told" \/ ~active \/ ~running))

\* Stopping the module returns.
StopReturns == (app = "joinReport") ~> (app = "connect")

\* The ws thread comes back from sampling a face.
EnrolReturns == (at["ws"] = "lock") ~> (at["ws"] = "none")

\* Whoever calls the module gets away from it again, though engines that die,
\* the lock and the conditions stand between, provided that none hangs for
\* good: such a one holds the ws thread, both threads and the app's join.
CallersReturn == EnginesAnswer => StopReturns /\ EnrolReturns

\* The capture thread takes pictures whether someone speaks or not
\* (src/src/face_recognition.c:1649), if no engine hangs for good.
CaptureGoesOn ==
  EnginesAnswer =>
    ((at["capture"] = "rest" /\ captureRunning) ~>
       ((at["capture"] = "ok" /\ want["capture"] = "picture")
          \/ ~captureRunning))

=============================================================================
