----------------------------- MODULE VisionUpload -----------------------------
(***************************************************************************)
(* Pictures on their way to the server: src/src/vision_capture.c, the      *)
(* capture thread of src/src/face_recognition.c, the messages and waits of *)
(* src/src/bithion_core_compat.c between them, and the part of             *)
(* src/src/app.c that starts and ends all this with a session.             *)
(*                                                                         *)
(* A picture asks for a place (vision_upload_request), is put there by     *)
(* http, is committed and waits until the server is done with it.  The two *)
(* answers pass through one mailbox each, whoever waits.  Three threads    *)
(* upload: in a build with faces the capture thread of the face module, in *)
(* one without the worker of vision_capture.c, and in both a thread made   *)
(* when the server asks for a picture; the last two exclude one another by *)
(* g_vision_busy.  A picture is the number in its frame id.                *)
(***************************************************************************)
EXTENDS Naturals

CONSTANTS
  MaxFrames,     \* bound on the pictures
  MaxSessions    \* bound on the sessions

ASSUME BoundsAssumption == MaxFrames \in Nat /\ MaxSessions \in Nat

Uploaders == {"face", "auto", "ask"}

NoFrame == 0

VARIABLES
  \* fixed: ZH_ENABLE_FACE, and the environment's ZH_VISION_AUTO_CAPTURE
  faceBuild, autoCapture,
  \* zh_run_session's place, and the message handler's inside its loop
  app, w,
  \* g_face_ws and g_vision_ws being set, and the state of vision_capture.c
  faceWs, visionWs, busy, running, started,
  \* the session: should_stop and the two mailboxes; a refused request for a
  \* place is answered by NoFrame
  shouldStop, uploadReady, uploadMail, doneReady, doneMail,
  \* the uploading threads: place, picture, and picture the place they were
  \* given is for
  stage, frame, grant,
  \* the server: what it was asked and told and has not answered
  asked, committed,
  \* how many pictures and sessions there have been; whether a session began
  \* while a thread had a picture of an earlier one (a history variable: no
  \* step depends on it)
  frames, sessions, straddled

fixedVars   == <<faceBuild, autoCapture>>
pastVars    == <<sessions, straddled>>
appVars     == <<app, w, faceWs, visionWs, started, pastVars>>
mailVars    == <<uploadReady, uploadMail, doneReady, doneMail>>
sessionVars == <<shouldStop, mailVars>>
threadVars  == <<stage, frame, grant>>
serverVars  == <<asked, committed>>

vars == <<fixedVars, appVars, busy, running, sessionVars, threadVars,
          serverVars, frames>>

-----------------------------------------------------------------------------
Connected == app \in {"set", "start", "create", "mark", "loop"}

\* A thread with a picture in its hands.
Uploading(u) == stage[u] \notin {"none", "top"}

WaitsForMail(u) == stage[u] \in {"waitUpload", "waitDone"}

Init ==
  /\ faceBuild \in BOOLEAN /\ autoCapture \in BOOLEAN
  /\ app = "off" /\ w = "idle"
  /\ faceWs = FALSE /\ visionWs = FALSE
  /\ busy = FALSE /\ running = TRUE /\ started = FALSE
  /\ shouldStop = FALSE
  /\ uploadReady = FALSE /\ uploadMail = NoFrame
  /\ doneReady = FALSE /\ doneMail = NoFrame
  /\ stage = [u \in Uploaders |->
                IF u = "face" /\ faceBuild THEN "top" ELSE "none"]
  /\ frame = [u \in Uploaders |-> NoFrame]
  /\ grant = [u \in Uploaders |-> NoFrame]
  /\ asked = {} /\ committed = {}
  /\ frames = 0 /\ sessions = 0 /\ straddled = FALSE

-----------------------------------------------------------------------------
(* zh_run_session.                                                         *)

MoveApp(from, to) == app = from /\ app' = to

\* zh_ws_connect and zh_ws_wait_authenticated: the mailboxes are emptied.
\* The app waits seconds between sessions, a thread that waits for mail
\* looks up five times a second.
Connect ==
  /\ app = "off" /\ sessions < MaxSessions
  /\ \A u \in Uploaders : ~WaitsForMail(u)
  /\ sessions' = sessions + 1
  /\ straddled' = (straddled \/ \E u \in Uploaders : Uploading(u))
  /\ app' \in {"set", "close"}
  /\ shouldStop' = FALSE
  /\ uploadReady' = FALSE /\ uploadMail' = NoFrame
  /\ doneReady' = FALSE /\ doneMail' = NoFrame
  /\ asked' = {} /\ committed' = {}
  /\ UNCHANGED <<fixedVars, w, faceWs, visionWs, started, busy, running,
                 threadVars, frames>>

SetWs ==
  /\ MoveApp("set", "start")
  /\ faceWs' = TRUE /\ visionWs' = TRUE
  /\ UNCHANGED <<fixedVars, w, started, pastVars, busy, running, sessionVars,
                 threadVars, serverVars, frames>>

\* Mutant: what the last session lowered stays down.
LeaveRunning == UNCHANGED running

RaiseRunning == running' = TRUE

\* zh_vision_capture_start: nothing to do, or the worker is to be made.
StartWorker ==
  /\ app = "start"
  /\ IF faceBuild \/ ~autoCapture \/ started
     THEN app' = "loop" /\ UNCHANGED running
     ELSE app' = "create" /\ RaiseRunning
  /\ UNCHANGED <<fixedVars, w, faceWs, visionWs, started, pastVars, busy,
                 sessionVars, threadVars, serverVars, frames>>

CreateWorker ==
  /\ app = "create"
  /\ \/ app' = "mark" /\ stage' = [stage EXCEPT !["auto"] = "top"]
     \/ app' = "loop" /\ UNCHANGED stage
  /\ UNCHANGED <<fixedVars, w, faceWs, visionWs, started, pastVars, busy,
                 running, sessionVars, frame, grant, serverVars, frames>>

MarkStarted ==
  /\ MoveApp("mark", "loop")
  /\ started' = TRUE
  /\ UNCHANGED <<fixedVars, w, faceWs, visionWs, pastVars, busy, running,
                 sessionVars, threadVars, serverVars, frames>>

EndSession == shouldStop' = TRUE

\* The connection is lost: the program plays a prompt and exits.
Disconnect ==
  /\ MoveApp("loop", "exit") /\ w = "idle"
  /\ EndSession
  /\ UNCHANGED <<fixedVars, w, faceWs, visionWs, started, pastVars, busy,
                 running, mailVars, threadVars, serverVars, frames>>

\* zh_ws_run_loop returns.
LoopEnds ==
  /\ MoveApp("loop", "stop") /\ w = "idle"
  /\ UNCHANGED <<fixedVars, w, faceWs, visionWs, started, pastVars, busy,
                 running, sessionVars, threadVars, serverVars, frames>>

\* zh_vision_capture_stop, up to the join ...
StopWorker ==
  /\ app = "stop"
  /\ IF faceBuild
     THEN app' = "unset" /\ UNCHANGED <<running, started>>
     ELSE /\ running' = FALSE
          /\ started' = FALSE
          /\ app' = IF started THEN "join" ELSE "unset"
  /\ UNCHANGED <<fixedVars, w, faceWs, visionWs, pastVars, busy, sessionVars,
                 threadVars, serverVars, frames>>

\* ... and the join.
JoinWorker ==
  /\ MoveApp("join", "unset")
  /\ stage["auto"] = "none"
  /\ UNCHANGED <<fixedVars, w, faceWs, visionWs, started, pastVars, busy,
                 running, sessionVars, threadVars, serverVars, frames>>

UnsetWs ==
  /\ MoveApp("unset", "close")
  /\ faceWs' = FALSE /\ visionWs' = FALSE
  /\ UNCHANGED <<fixedVars, w, started, pastVars, busy, running, sessionVars,
                 threadVars, serverVars, frames>>

\* zh_ws_close
Close ==
  /\ MoveApp("close", "off")
  /\ EndSession
  /\ UNCHANGED <<fixedVars, w, faceWs, visionWs, started, pastVars, busy,
                 running, mailVars, threadVars, serverVars, frames>>

-----------------------------------------------------------------------------
(* The server's messages, handled inside zh_ws_run_loop.                   *)

Handles == app = "loop" /\ w = "idle"

\* vision_upload_response names no picture: it is for whoever reads it.
UploadResponse ==
  /\ Handles
  /\ \E f \in asked :
       /\ asked' = asked \ {f}
       /\ uploadMail' \in {f, NoFrame}
  /\ uploadReady' = TRUE
  /\ UNCHANGED <<fixedVars, appVars, busy, running, shouldStop, doneReady,
                 doneMail, threadVars, committed, frames>>

VisionDone ==
  /\ Handles
  /\ \E f \in committed :
       /\ committed' = committed \ {f}
       /\ doneMail' = f
  /\ doneReady' = TRUE
  /\ UNCHANGED <<fixedVars, appVars, busy, running, shouldStop, uploadReady,
                 uploadMail, threadVars, asked, frames>>

MayBeAsked == ~busy

\* zh_vision_capture_request_async, up to the creation of the thread.
Request ==
  /\ Handles
  /\ MayBeAsked /\ visionWs
  /\ busy' = TRUE
  /\ w' = "create"
  /\ UNCHANGED <<fixedVars, app, faceWs, visionWs, started, pastVars, running,
                 sessionVars, threadVars, serverVars, frames>>

\* Mutant: a thread that could not be created stays marked.
KeepBusy == UNCHANGED busy

Unmark == busy' = FALSE

CreateAsked ==
  /\ w = "create"
  /\ w' = "idle"
  /\ \/ stage' = [stage EXCEPT !["ask"] = "capture"] /\ UNCHANGED busy
     \/ Unmark /\ UNCHANGED stage
  /\ UNCHANGED <<fixedVars, app, faceWs, visionWs, started, pastVars, running,
                 sessionVars, frame, grant, serverVars, frames>>

-----------------------------------------------------------------------------
(* The uploading threads.                                                  *)

Move(u, from, to) ==
  /\ stage[u] = from
  /\ stage' = [stage EXCEPT ![u] = to]
  /\ UNCHANGED <<fixedVars, appVars, running>>

\* Mutant: the worker looks for a session only.
TakesWithWs == visionWs

MayTake == visionWs /\ ~busy

WorkerTakes ==
  /\ running /\ MayTake
  /\ Move("auto", "top", "capture")
  /\ busy' = TRUE
  /\ UNCHANGED <<sessionVars, frame, grant, serverVars, frames>>

WorkerExits ==
  /\ ~running
  /\ Move("auto", "top", "none")
  /\ UNCHANGED <<busy, sessionVars, frame, grant, serverVars, frames>>

FaceTakes ==
  /\ faceWs
  /\ Move("face", "top", "capture")
  /\ UNCHANGED <<busy, sessionVars, frame, grant, serverVars, frames>>

NumberNext == frames' = frames + 1

\* A picture is taken and given its frame id, or it fails, or nothing has
\* changed since the last one that was committed.
Capture(u) ==
  /\ \/ /\ frames < MaxFrames
        /\ Move(u, "capture", "clear")
        /\ NumberNext
        /\ frame' = [frame EXCEPT ![u] = frames + 1]
     \/ Move(u, "capture", "release") /\ UNCHANGED <<frame, frames>>
  /\ UNCHANGED <<busy, sessionVars, grant, serverVars>>

\* The critical section of zh_ws_send_vision_upload_request, ...
ClearUpload(u) ==
  /\ Move(u, "clear", "send")
  /\ uploadReady' = FALSE /\ uploadMail' = NoFrame
  /\ UNCHANGED <<busy, shouldStop, doneReady, doneMail, frame, grant,
                 serverVars, frames>>

\* ... and its sending, which may fail, or be lost with the connection.
SendUpload(u) ==
  /\ \/ /\ Move(u, "send", "waitUpload")
        /\ asked' = IF Connected THEN asked \union {frame[u]} ELSE asked
     \/ Move(u, "send", "release") /\ UNCHANGED asked
  /\ UNCHANGED <<busy, sessionVars, frame, grant, committed, frames>>

\* The flag of the thread's module: the face module runs for ever.
Flag(u) == u = "face" \/ running

\* Mutant: only the end of the session ends the wait.
SessionIsOver(u) == shouldStop

IsStopped(u) == shouldStop \/ ~Flag(u)

\* zh_ws_wait_vision_upload_response: mail comes first.
TakeUpload(u) ==
  /\ uploadReady
  /\ uploadReady' = FALSE
  /\ grant' = [grant EXCEPT ![u] = uploadMail]
  /\ Move(u, "waitUpload", IF uploadMail = NoFrame THEN "release" ELSE "put")
  /\ UNCHANGED <<busy, shouldStop, uploadMail, doneReady, doneMail, frame,
                 serverVars, frames>>

StopUpload(u) ==
  /\ ~uploadReady /\ IsStopped(u)
  /\ Move(u, "waitUpload", "release")
  /\ UNCHANGED <<busy, sessionVars, frame, grant, serverVars, frames>>

\* The http PUT with its retries ends either way, whatever happens to the
\* session meanwhile.
Put(u) ==
  /\ \/ Move(u, "put", "clearDone")
     \/ Move(u, "put", "release")
  /\ UNCHANGED <<busy, sessionVars, frame, grant, serverVars, frames>>

\* The critical section of zh_ws_send_vision_upload_commit, ...
ClearDone(u) ==
  /\ Move(u, "clearDone", "commit")
  /\ doneReady' = FALSE /\ doneMail' = NoFrame
  /\ UNCHANGED <<busy, shouldStop, uploadReady, uploadMail, frame, grant,
                 serverVars, frames>>

\* ... and its sending.
SendCommit(u) ==
  /\ \/ /\ Move(u, "commit", "waitDone")
        /\ committed' = IF Connected THEN committed \union {frame[u]}
                                     ELSE committed
     \/ Move(u, "commit", "release") /\ UNCHANGED committed
  /\ UNCHANGED <<busy, sessionVars, frame, grant, asked, frames>>

\* zh_ws_wait_vision_done: the stop comes first; mail about another picture
\* is thrown away.
TakeDone(u) ==
  /\ ~IsStopped(u) /\ doneReady
  /\ doneReady' = FALSE
  /\ Move(u, "waitDone", IF doneMail = frame[u] THEN "release" ELSE "waitDone")
  /\ UNCHANGED <<busy, shouldStop, uploadReady, uploadMail, doneMail, frame,
                 grant, serverVars, frames>>

StopDone(u) ==
  /\ IsStopped(u)
  /\ Move(u, "waitDone", "release")
  /\ UNCHANGED <<busy, sessionVars, frame, grant, serverVars, frames>>

\* The end of a picture; the thread made on request ends with it.
Release(u) ==
  /\ Move(u, "release", IF u = "ask" THEN "none" ELSE "top")
  /\ busy' = (u = "face" /\ busy)
  /\ frame' = [frame EXCEPT ![u] = NoFrame]
  /\ grant' = [grant EXCEPT ![u] = NoFrame]
  /\ UNCHANGED <<sessionVars, serverVars, frames>>

-----------------------------------------------------------------------------
Upload(u) ==
  \/ Capture(u) \/ ClearUpload(u) \/ SendUpload(u) \/ TakeUpload(u)
  \/ StopUpload(u) \/ Put(u) \/ ClearDone(u) \/ SendCommit(u) \/ TakeDone(u)
  \/ StopDone(u) \/ Release(u)

Thread(u) ==
  \/ Upload(u)
  \/ u = "auto" /\ (WorkerTakes \/ WorkerExits)
  \/ u = "face" /\ FaceTakes

\* A session that has begun, and its end once it has come.
Session ==
  \/ SetWs \/ StartWorker \/ CreateWorker \/ MarkStarted \/ StopWorker
  \/ JoinWorker \/ UnsetWs \/ Close

Server == UploadResponse \/ VisionDone \/ Request

Next ==
  \/ \E u \in Uploaders : Thread(u)
  \/ Session \/ CreateAsked
  \/ Connect \/ Disconnect \/ LoopEnds \/ Server

Spec == Init /\ [][Next]_vars

(* The threads are scheduled; nobody need connect, answer or hang up.      *)
FairSpec ==
  /\ Spec
  /\ \A u \in Uploaders : WF_vars(Thread(u))
  /\ WF_vars(Session) /\ WF_vars(CreateAsked)

-----------------------------------------------------------------------------
(* Properties.                                                             *)

Stages == {"none", "top", "capture", "clear", "send", "waitUpload", "put",
           "clearDone", "commit", "waitDone", "release"}

PlacesTyped ==
  /\ app \in {"off", "set", "start", "create", "mark", "loop", "stop", "join",
              "unset", "close", "exit"}
  /\ w \in {"idle", "create"}
  /\ stage \in [Uploaders -> Stages]

FlagsTyped ==
  /\ faceBuild \in BOOLEAN /\ autoCapture \in BOOLEAN
  /\ faceWs \in BOOLEAN /\ visionWs \in BOOLEAN /\ busy \in BOOLEAN
  /\ running \in BOOLEAN /\ started \in BOOLEAN
  /\ shouldStop \in BOOLEAN
  /\ uploadReady \in BOOLEAN /\ doneReady \in BOOLEAN
  /\ straddled \in BOOLEAN

PicturesTyped ==
  /\ uploadMail \in Nat /\ doneMail \in Nat
  /\ frame \in [Uploaders -> Nat] /\ grant \in [Uploaders -> Nat]
  /\ asked \subseteq Nat /\ committed \subseteq Nat
  /\ frames \in Nat /\ sessions \in Nat

(* Every variable has its type.                                            *)
TypeOK == PlacesTyped /\ FlagsTyped /\ PicturesTyped

(* The mark g_vision_busy is up exactly while one of the two threads it    *)
(* keeps apart has a picture, or is being created for one: failed          *)
(* creations, stops and new sessions included (vision_capture.c:616, 716). *)
BusyIsHeld ==
  /\ busy <=> \/ Uploading("auto") \/ Uploading("ask") \/ w = "create"
  /\ ~(Uploading("auto") /\ Uploading("ask"))
  /\ w = "create" => ~Uploading("auto") /\ ~Uploading("ask")

\* Where one thread at a time uploads and none leaves an answer behind.  A
\* thread made on request is not joined: it may outlive its session, ask in
\* the next one, find g_vision_running still down and leave; and without the
\* worker the flag is down in every session but the first.
Regular == ~faceBuild /\ autoCapture /\ ~straddled

(* A picture is put in the place given for it and committed with it,       *)
(* though the answer that gives the place names no picture                 *)
(* (vision_capture.c:458, 486).                                            *)
GrantIsOwn ==
  \A u \in {"auto", "ask"} :
    Regular /\ stage[u] \in {"put", "clearDone", "commit", "waitDone"}
      => grant[u] = frame[u]

Awaited(u) == stage[u] = "waitDone" /\ doneReady /\ doneMail = frame[u]

(* While its session runs, no wait for an answer is given up: the flag that *)
(* ends it is up again before the loop begins (vision_capture.c:662).  Not  *)
(* so with ZH_VISION_AUTO_CAPTURE=0: zh_vision_capture_stop lowers the flag *)
(* all the same, nobody raises it, and from the second session on every     *)
(* picture is given up as soon as it waits.                                 *)
GivesUpOnlyAtEnd ==
  [][\A u \in Uploaders :
       /\ faceBuild \/ autoCapture
       /\ app = "loop"
       => ~(StopUpload(u) \/ StopDone(u))]_vars

(* The end of a session does not wait for ever for the worker, which may   *)
(* be waiting for an answer that never comes: the app joins it before it   *)
(* closes the session (vision_capture.c:677, app.c:102).                   *)
StopReturns == (app = "join") ~> (app # "join")

(* However the server has kept silent, a picture does not outlive its      *)
(* session by more than an upload: afterwards new ones can be taken.       *)
SessionEndReleases == (app = "off" /\ busy) ~> (~busy \/ app # "off")

(* A server that keeps silent holds up neither the end of the session nor  *)
(* the pictures after it, though the waits for it have no time limit.      *)
SilenceIsSurvived == StopReturns /\ SessionEndReleases

(* bithion_core_compat.c:1085 says the wait is for the answer about one    *)
(* given picture: once it has come, the wait ends.                         *)
DoneIsDelivered ==
  \A u \in Uploaders : Awaited(u) ~> stage[u] # "waitDone"
=============================================================================
