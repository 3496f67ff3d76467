-------------------------- MODULE VisionUploadProofs --------------------------
(* Theorems about VisionUpload for every value of its bounds.              *)
EXTENDS VisionUpload, TLAPS

(* The steps of the uploading threads leave the app alone, and those of    *)
(* the app leave the threads alone, but for creating them.                 *)
LEMMA UploadKeepsApp ==
  ASSUME NEW u \in Uploaders, Thread(u)
  PROVE  UNCHANGED <<fixedVars, appVars, running>>
BY DEF Thread, Upload, Capture, ClearUpload, SendUpload, TakeUpload,
       StopUpload, Put, ClearDone, SendCommit, TakeDone, StopDone, Release,
       WorkerTakes, WorkerExits, FaceTakes, Move

(* Every step keeps the types: those of the flags, ...                     *)
LEMMA FlagsStep ==
  ASSUME FlagsTyped, [Next]_vars
  PROVE  FlagsTyped'
<1> USE DEF FlagsTyped
<1>1. ASSUME NEW u \in Uploaders, Thread(u) PROVE FlagsTyped'
  <2>1. UNCHANGED <<fixedVars, appVars, running>>
    BY <1>1, UploadKeepsApp
  <2>2. UNCHANGED shouldStop
    BY <1>1 DEF Thread, Upload, Capture, ClearUpload, SendUpload, TakeUpload,
                StopUpload, Put, ClearDone, SendCommit, TakeDone, StopDone,
                Release, WorkerTakes, WorkerExits, FaceTakes, sessionVars
  <2>3. busy' \in BOOLEAN
    BY <1>1 DEF Thread, Upload, Capture, ClearUpload, SendUpload, TakeUpload,
                StopUpload, Put, ClearDone, SendCommit, TakeDone, StopDone,
                Release, WorkerTakes, WorkerExits, FaceTakes
  <2>4. uploadReady' \in BOOLEAN
    BY <1>1 DEF Thread, Upload, Capture, ClearUpload, SendUpload, TakeUpload,
                StopUpload, Put, ClearDone, SendCommit, TakeDone, StopDone,
                Release, WorkerTakes, WorkerExits, FaceTakes, sessionVars,
                mailVars
  <2>5. doneReady' \in BOOLEAN
    BY <1>1 DEF Thread, Upload, Capture, ClearUpload, SendUpload, TakeUpload,
                StopUpload, Put, ClearDone, SendCommit, TakeDone, StopDone,
                Release, WorkerTakes, WorkerExits, FaceTakes, sessionVars,
                mailVars
  <2> QED BY <2>1, <2>2, <2>3, <2>4, <2>5 DEF fixedVars, appVars, pastVars
<1> USE DEF fixedVars, pastVars, sessionVars, mailVars, threadVars, serverVars
<1>2. CASE Session
  <2>1. CASE StartWorker
    BY <2>1 DEF StartWorker, RaiseRunning
  <2>2. CASE CreateWorker
    BY <2>2 DEF CreateWorker
  <2>3. CASE MarkStarted
    BY <2>3 DEF MarkStarted
  <2>4. CASE StopWorker
    BY <2>4 DEF StopWorker
  <2>5. CASE JoinWorker
    BY <2>5 DEF JoinWorker
  <2>6. CASE SetWs
    BY <2>6 DEF SetWs
  <2>7. CASE UnsetWs
    BY <2>7 DEF UnsetWs
  <2>8. CASE Close
    BY <2>8 DEF Close, EndSession
  <2> QED BY <1>2, <2>1, <2>2, <2>3, <2>4, <2>5, <2>6, <2>7, <2>8 DEF Session
<1>3. CASE Connect
  <2>1. straddled' \in BOOLEAN
    BY <1>3 DEF Connect
  <2> QED BY <1>3, <2>1 DEF Connect
<1>4. CASE CreateAsked
  BY <1>4 DEF CreateAsked, Unmark
<1>5. CASE Disconnect
  BY <1>5 DEF Disconnect, EndSession
<1>6. CASE LoopEnds
  BY <1>6 DEF LoopEnds
<1>7. CASE Server
  <2>1. CASE UploadResponse
    BY <2>1 DEF UploadResponse, appVars
  <2>2. CASE VisionDone
    BY <2>2 DEF VisionDone, appVars
  <2>3. CASE Request
    BY <2>3 DEF Request
  <2> QED BY <1>7, <2>1, <2>2, <2>3 DEF Server
<1>8. CASE UNCHANGED vars
  BY <1>8 DEF vars, appVars
<1> QED BY <1>1, <1>2, <1>3, <1>4, <1>5, <1>6, <1>7, <1>8 DEF Next

(* ... of the pictures ...                                                 *)
LEMMA PicturesStep ==
  ASSUME PicturesTyped, [Next]_vars
  PROVE  PicturesTyped'
<1> USE DEF PicturesTyped, NoFrame, mailVars, sessionVars, serverVars
<1>1. ASSUME NEW u \in Uploaders, Thread(u) PROVE PicturesTyped'
  <2>0. UNCHANGED sessions
    BY <1>1, UploadKeepsApp DEF appVars, pastVars
  <2>1. CASE Capture(u)
    BY <2>0, <2>1 DEF Capture, NumberNext
  <2>2. CASE ClearUpload(u)
    BY <2>0, <2>2 DEF ClearUpload
  <2>3. CASE ClearDone(u)
    BY <2>0, <2>3 DEF ClearDone
  <2>4. CASE SendUpload(u)
    BY <2>0, <2>4 DEF SendUpload
  <2>5. CASE SendCommit(u)
    BY <2>0, <2>5 DEF SendCommit
  <2>6. CASE TakeUpload(u)
    BY <2>0, <2>6 DEF TakeUpload
  <2>7. CASE StopUpload(u) \/ Put(u) \/ StopDone(u) \/ TakeDone(u)
    BY <2>0, <2>7 DEF StopUpload, Put, StopDone, TakeDone
  <2>8. CASE Release(u)
    BY <2>0, <2>8 DEF Release
  <2>9. CASE WorkerTakes \/ WorkerExits \/ FaceTakes
    BY <2>0, <2>9 DEF WorkerTakes, WorkerExits, FaceTakes
  <2> QED BY <1>1, <2>1, <2>2, <2>3, <2>4, <2>5, <2>6, <2>7, <2>8, <2>9
             DEF Thread, Upload
<1> USE DEF threadVars, pastVars
<1>2. CASE Session
  BY <1>2 DEF Session, SetWs, StartWorker, CreateWorker, MarkStarted,
              StopWorker, JoinWorker, UnsetWs, Close
<1>3. CASE Disconnect \/ LoopEnds \/ CreateAsked
  BY <1>3 DEF Disconnect, LoopEnds, CreateAsked
<1>4. CASE Connect
  BY <1>4 DEF Connect
<1>5. CASE Server
  <2>1. CASE UploadResponse
    BY <2>1 DEF UploadResponse, appVars
  <2>2. CASE VisionDone
    BY <2>2 DEF VisionDone, appVars
  <2>3. CASE Request
    BY <2>3 DEF Request
  <2> QED BY <1>5, <2>1, <2>2, <2>3 DEF Server
<1>6. CASE UNCHANGED vars
  BY <1>6 DEF vars, appVars
<1> QED BY <1>1, <1>2, <1>3, <1>4, <1>5, <1>6 DEF Next

(* ... and of the places.                                                  *)
LEMMA PlacesStep ==
  ASSUME PlacesTyped, [Next]_vars
  PROVE  PlacesTyped'
<1> USE DEF PlacesTyped, Stages
<1>1. ASSUME NEW u \in Uploaders, Thread(u) PROVE PlacesTyped'
  <2> USE DEF Move, appVars
  <2>1. CASE Capture(u) \/ ClearUpload(u) \/ SendUpload(u) \/ TakeUpload(u)
    BY <2>1 DEF Capture, ClearUpload, SendUpload, TakeUpload
  <2>2. CASE StopUpload(u) \/ Put(u) \/ ClearDone(u) \/ SendCommit(u)
    BY <2>2 DEF StopUpload, Put, ClearDone, SendCommit
  <2>3. CASE TakeDone(u) \/ StopDone(u) \/ Release(u)
    BY <2>3 DEF TakeDone, StopDone, Release
  <2>4. CASE WorkerTakes \/ WorkerExits \/ FaceTakes
    BY <2>4 DEF WorkerTakes, WorkerExits, FaceTakes, Uploaders
  <2> QED BY <1>1, <2>1, <2>2, <2>3, <2>4 DEF Thread, Upload
<1> USE DEF threadVars
<1>2. CASE Session
  BY <1>2 DEF Session, SetWs, StartWorker, CreateWorker, MarkStarted,
              StopWorker, JoinWorker, UnsetWs, Close, MoveApp
<1>3. CASE Connect \/ Disconnect \/ LoopEnds \/ CreateAsked
  BY <1>3 DEF Connect, Disconnect, LoopEnds, CreateAsked, MoveApp
<1>4. CASE Server \/ UNCHANGED vars
  BY <1>4 DEF Server, UploadResponse, VisionDone, Request, appVars, vars
<1> QED BY <1>1, <1>2, <1>3, <1>4 DEF Next

-----------------------------------------------------------------------------
(* The worker exists only between its creation and its join, so that no    *)
(* session makes a second one, and a build with faces has none; a thread   *)
(* is created only inside the loop.                                        *)
WorkerInv ==
  /\ started => app \in {"loop", "stop", "exit"}
  /\ stage["auto"] # "none" => started \/ app \in {"mark", "join"}
  /\ faceBuild => ~started /\ app \notin {"create", "mark"}
  /\ w = "create" => app = "loop"

(* Every step keeps this.                                                  *)
LEMMA WorkerStep ==
  ASSUME TypeOK, WorkerInv, [Next]_vars
  PROVE  WorkerInv'
<1>0. stage \in [Uploaders -> Stages]
  BY DEF TypeOK, PlacesTyped
<1> USE <1>0 DEF WorkerInv, Uploaders
<1>1. ASSUME NEW u \in Uploaders, Thread(u) PROVE WorkerInv'
  <2>1. UNCHANGED <<faceBuild, app, started, w>>
    BY <1>1, UploadKeepsApp DEF fixedVars, appVars
  <2>2. stage'["auto"] # "none" => stage["auto"] # "none"
    BY <1>1 DEF Thread, Upload, Capture, ClearUpload, SendUpload, TakeUpload,
                StopUpload, Put, ClearDone, SendCommit, TakeDone, StopDone,
                Release, WorkerTakes, WorkerExits, FaceTakes, Move
  <2> QED BY <2>1, <2>2
<1> USE DEF fixedVars
<1>2. CASE Session
  <2> USE DEF MoveApp, threadVars
  <2>1. CASE CreateWorker
    BY <2>1 DEF CreateWorker
  <2>2. CASE StartWorker \/ MarkStarted
    BY <2>2 DEF StartWorker, MarkStarted
  <2>3. CASE StopWorker
    BY <2>3 DEF StopWorker
  <2>4. CASE SetWs \/ JoinWorker \/ UnsetWs \/ Close
    BY <2>4 DEF SetWs, JoinWorker, UnsetWs, Close
  <2> QED BY <1>2, <2>1, <2>2, <2>3, <2>4 DEF Session
<1>3. CASE Connect \/ Disconnect \/ LoopEnds
  BY <1>3 DEF Connect, Disconnect, LoopEnds, MoveApp, threadVars
<1>4. CASE CreateAsked
  BY <1>4 DEF CreateAsked
<1>5. CASE Server
  BY <1>5 DEF Server, UploadResponse, VisionDone, Request, Handles, appVars,
              threadVars
<1>6. CASE UNCHANGED vars
  BY <1>6 DEF vars, appVars, threadVars
<1> QED BY <1>1, <1>2, <1>3, <1>4, <1>5, <1>6 DEF Next

(* A step of an upload neither begins nor ends one, but for the release.   *)
LEMMA UploadKeepsBusy ==
  ASSUME TypeOK, NEW u \in Uploaders, Upload(u), ~Release(u)
  PROVE  /\ UNCHANGED <<busy, w>>
         /\ \A v \in Uploaders : Uploading(v)' <=> Uploading(v)
<1>0. stage \in [Uploaders -> Stages]
  BY DEF TypeOK, PlacesTyped
<1> USE <1>0 DEF Uploading, Move, appVars
<1>1. CASE Capture(u)
  BY <1>1 DEF Capture
<1>2. CASE ClearUpload(u) \/ SendUpload(u)
  BY <1>2 DEF ClearUpload, SendUpload
<1>3. CASE TakeUpload(u) \/ StopUpload(u)
  BY <1>3 DEF TakeUpload, StopUpload
<1>4. CASE Put(u) \/ ClearDone(u)
  BY <1>4 DEF Put, ClearDone
<1>5. CASE SendCommit(u) \/ StopDone(u)
  BY <1>5 DEF SendCommit, StopDone
<1>6. CASE TakeDone(u)
  BY <1>6 DEF TakeDone
<1> QED BY <1>1, <1>2, <1>3, <1>4, <1>5, <1>6 DEF Upload

(* Every step keeps the mark with its holder.                              *)
LEMMA BusyStep ==
  ASSUME TypeOK, WorkerInv, BusyIsHeld, [Next]_vars
  PROVE  BusyIsHeld'
<1>0. stage \in [Uploaders -> Stages] /\ busy \in BOOLEAN
  BY DEF TypeOK, PlacesTyped, FlagsTyped
<1> USE <1>0 DEF BusyIsHeld, Uploaders
<1>1. ASSUME NEW u \in Uploaders, Thread(u) PROVE BusyIsHeld'
  <2>1. CASE Upload(u) /\ ~Release(u)
    BY <2>1, UploadKeepsBusy
  <2>2. CASE Release(u)
    <3>1. UNCHANGED w /\ Uploading(u)
      BY <2>2 DEF Release, Move, appVars, Uploading
    <3>2. busy' = (u = "face" /\ busy)
      BY <2>2 DEF Release
    <3>3. \A v \in Uploaders : Uploading(v)' <=> v # u /\ Uploading(v)
      BY <2>2 DEF Release, Move, Uploading
    <3>4. CASE u = "face"
      BY <3>1, <3>2, <3>3, <3>4
    <3>5. CASE u \in {"auto", "ask"}
      <4>1. ~busy' /\ w' # "create"
        BY <3>1, <3>2, <3>5
      <4>2. ~Uploading("auto")' /\ ~Uploading("ask")'
        BY <3>1, <3>3, <3>5
      <4> QED BY <4>1, <4>2
    <3> QED BY <3>4, <3>5
  <2>3. CASE WorkerTakes
    <3>1. busy' /\ ~busy /\ UNCHANGED w
      BY <2>3 DEF WorkerTakes, MayTake, Move, appVars
    <3>2. Uploading("auto")' /\ (Uploading("ask")' <=> Uploading("ask"))
      BY <2>3 DEF WorkerTakes, Move, Uploading
    <3> QED BY <3>1, <3>2
  <2>4. CASE WorkerExits
    BY <2>4 DEF WorkerExits, Move, appVars, Uploading
  <2>5. CASE FaceTakes
    BY <2>5 DEF FaceTakes, Move, appVars, Uploading
  <2> QED BY <1>1, <2>1, <2>2, <2>3, <2>4, <2>5 DEF Thread
<1>2. CASE CreateWorker
  <2>1. stage["auto"] = "none"
    BY <1>2 DEF CreateWorker, WorkerInv
  <2> QED BY <1>2, <2>1 DEF CreateWorker, Uploading
<1>3. CASE Session /\ ~CreateWorker
  BY <1>3 DEF Session, SetWs, StartWorker, MarkStarted, StopWorker, JoinWorker,
              UnsetWs, Close, threadVars, Uploading
<1>4. CASE Connect \/ Disconnect \/ LoopEnds
  BY <1>4 DEF Connect, Disconnect, LoopEnds, threadVars, Uploading
<1>5. CASE CreateAsked
  BY <1>5 DEF CreateAsked, Unmark, Uploading
<1>6. CASE Request
  BY <1>6 DEF Request, MayBeAsked, threadVars, Uploading
<1>7. CASE UploadResponse \/ VisionDone \/ UNCHANGED vars
  BY <1>7 DEF UploadResponse, VisionDone, vars, appVars, threadVars, Uploading
<1> QED BY <1>1, <1>2, <1>3, <1>4, <1>5, <1>6, <1>7 DEF Next, Server

-----------------------------------------------------------------------------
(* Why an answer that names no picture is still the right one.  Where one  *)
(* thread at a time uploads, the server owes an answer, while the session  *)
(* lasts, only to the thread that waits for one: none gives up before the  *)
(* loop has ended, and afterwards no answer is handled.  What lies in the  *)
(* mailbox when a thread begins to wait has been cleared.                  *)
Keepers == {"auto", "ask"}

LoopRuns ==
  /\ Connected => ~shouldStop
  /\ ~faceBuild => stage["face"] = "none"
  /\ faceBuild => running
  /\ autoCapture /\ app \in {"create", "mark", "loop"} => running
  /\ Regular /\ app \in {"set", "start", "create"}
       => \A u \in Uploaders : ~Uploading(u)

OwedToWaiter ==
  Regular /\ Connected =>
    \A f \in asked :
      /\ ~uploadReady
      /\ \E u \in Keepers : stage[u] = "waitUpload" /\ frame[u] = f

MailIsOwn ==
  Regular =>
    \A u \in Keepers :
      /\ stage[u] = "send" => ~uploadReady
      /\ stage[u] = "waitUpload" /\ uploadReady
           => uploadMail \in {NoFrame, frame[u]}

AnswersInv == OwedToWaiter /\ MailIsOwn /\ GrantIsOwn

(* What Regular says of a state, it said of the state before.              *)
LEMMA RegularBefore ==
  ASSUME [Next]_vars, Regular'
  PROVE  Regular
<1>1. ASSUME NEW u \in Uploaders, Thread(u)
      PROVE  UNCHANGED <<fixedVars, straddled>>
  BY <1>1, UploadKeepsApp DEF appVars, pastVars
<1> USE DEF pastVars
<1>2. CASE Session
  <2>1. UNCHANGED <<fixedVars, straddled>>
    BY <1>2 DEF Session, SetWs, StartWorker, CreateWorker, MarkStarted,
                StopWorker, JoinWorker, UnsetWs, Close
  <2> QED BY <2>1 DEF fixedVars, Regular
<1>3. CASE Disconnect \/ LoopEnds \/ CreateAsked \/ Server \/ UNCHANGED vars
  <2>1. UNCHANGED <<fixedVars, straddled>>
    BY <1>3 DEF Disconnect, LoopEnds, CreateAsked, Server, UploadResponse,
                VisionDone, Request, appVars, vars
  <2> QED BY <2>1 DEF fixedVars, Regular
<1>4. CASE Connect
  BY <1>4 DEF Connect, fixedVars, Regular
<1> QED BY <1>1, <1>2, <1>3, <1>4 DEF Next, fixedVars, Regular

(* Every step keeps the flags that let the threads wait.                   *)
LEMMA LoopRunsStep ==
  ASSUME TypeOK, WorkerInv, BusyIsHeld, LoopRuns, [Next]_vars
  PROVE  LoopRuns'
<1>0. stage \in [Uploaders -> Stages]
  BY DEF TypeOK, PlacesTyped
<1> USE <1>0 DEF LoopRuns, Connected, Uploaders
<1>1. ASSUME NEW u \in Uploaders, Thread(u) PROVE LoopRuns'
  <2>1. UNCHANGED <<fixedVars, appVars, running>>
    BY <1>1, UploadKeepsApp
  <2>2. UNCHANGED <<app, straddled, running, faceBuild, autoCapture>>
    BY <2>1 DEF fixedVars, appVars, pastVars
  <2>3. UNCHANGED shouldStop
    BY <1>1 DEF Thread, Upload, Capture, ClearUpload, SendUpload, TakeUpload,
                StopUpload, Put, ClearDone, SendCommit, TakeDone, StopDone,
                Release, WorkerTakes, WorkerExits, FaceTakes, sessionVars
  <2>4. stage[u] # "none" /\ \A v \in Uploaders \ {u} : stage'[v] = stage[v]
    BY <1>1 DEF Thread, Upload, Capture, ClearUpload, SendUpload, TakeUpload,
                StopUpload, Put, ClearDone, SendCommit, TakeDone, StopDone,
                Release, WorkerTakes, WorkerExits, FaceTakes, Move
  <2>5. ~faceBuild => stage'["face"] = "none"
    BY <2>4
  <2>6. ASSUME Regular, app \in {"set", "start", "create"},
               NEW v \in Uploaders
        PROVE  ~Uploading(v)'
    <3>1. \A x \in Uploaders : ~Uploading(x)
      BY <2>6
    <3>2. stage["auto"] = "none" /\ stage["face"] = "none"
      BY <2>6 DEF WorkerInv, Regular
    <3>3. stage["ask"] = "none" \/ stage["ask"] = "top"
      BY <3>1 DEF Uploading
    <3>4. u = "ask" /\ stage[u] = "top"
      BY <2>4, <3>2, <3>3
    <3>5. FALSE
      BY <1>1, <3>4 DEF Thread, Upload, Capture, ClearUpload, SendUpload,
                TakeUpload, StopUpload, Put, ClearDone, SendCommit, TakeDone,
                StopDone, Release, Move
    <3> QED BY <3>5
  <2>7. Regular' = Regular
    BY <2>2 DEF Regular
  <2> QED BY <2>2, <2>3, <2>5, <2>6, <2>7
<1>2. Regular' => Regular
  BY RegularBefore
<1> USE <1>2
<1>3. CASE SetWs \/ MarkStarted \/ JoinWorker \/ UnsetWs
  BY <1>3 DEF SetWs, MarkStarted, JoinWorker, UnsetWs, MoveApp, threadVars,
              fixedVars, sessionVars, Uploading
<1>4. CASE StartWorker
  <2>1. ~started
    BY <1>4 DEF StartWorker, WorkerInv
  <2>2. /\ faceBuild \/ autoCapture => running'
        /\ ~faceBuild /\ autoCapture => app' = "create"
    BY <1>4, <2>1 DEF StartWorker, RaiseRunning
  <2>3. app' \in {"loop", "create"}
    BY <1>4 DEF StartWorker
  <2> QED BY <1>4, <2>2, <2>3
             DEF StartWorker, threadVars, fixedVars, sessionVars, Uploading,
                 Regular
<1>5. CASE CreateWorker
  BY <1>5 DEF CreateWorker, fixedVars, sessionVars
<1>6. CASE StopWorker
  BY <1>6 DEF StopWorker, threadVars, fixedVars, sessionVars
<1>7. CASE Close \/ Disconnect \/ LoopEnds
  BY <1>7 DEF Close, Disconnect, LoopEnds, MoveApp, threadVars, fixedVars,
              sessionVars
<1>8. CASE Connect
  <2>1. Regular' => \A u \in Uploaders : ~Uploading(u)
    BY <1>8 DEF Connect, Regular
  <2> QED BY <1>8, <2>1 DEF Connect, threadVars, fixedVars, Uploading
<1>9. CASE CreateAsked
  BY <1>9 DEF CreateAsked, WorkerInv, fixedVars, sessionVars
<1>10. CASE Server \/ UNCHANGED vars
  BY <1>10 DEF Server, UploadResponse, VisionDone, Request, vars, appVars,
               fixedVars, sessionVars, threadVars, Uploading
<1> QED BY <1>1, <1>3, <1>4, <1>5, <1>6, <1>7, <1>8, <1>9, <1>10
           DEF Next, Session

(* One thread at a time has a picture, and it is one of the two.           *)
LEMMA OneUploads ==
  ASSUME BusyIsHeld, LoopRuns, Regular,
         NEW u \in Uploaders, Uploading(u)
  PROVE  u \in Keepers /\ \A v \in Uploaders \ {u} : ~Uploading(v)
<1>1. ~Uploading("face")
  BY DEF LoopRuns, Regular, Uploading
<1> QED BY <1>1 DEF BusyIsHeld, Uploaders, Keepers

(* While the session lasts, a thread that waits is not stopped.            *)
LEMMA WaitIsKept ==
  ASSUME TypeOK, LoopRuns, Regular, Connected,
         NEW u \in Uploaders, Uploading(u)
  PROVE  ~IsStopped(u)
<1>1. app \in {"mark", "loop"}
  BY DEF LoopRuns, Connected
<1> QED BY <1>1 DEF LoopRuns, IsStopped, Flag, Regular

(* A step of a thread keeps the answers with those they are for.           *)
LEMMA ThreadKeepsAnswers ==
  ASSUME TypeOK, BusyIsHeld, LoopRuns, AnswersInv, Regular,
         NEW u \in Uploaders, Thread(u)
  PROVE  AnswersInv'
<1>0. /\ stage \in [Uploaders -> Stages]
      /\ frame \in [Uploaders -> Nat] /\ grant \in [Uploaders -> Nat]
  BY DEF TypeOK, PlacesTyped, PicturesTyped
<1>1. UNCHANGED <<app, Connected>>
  BY UploadKeepsApp DEF appVars, Connected
<1>2. Keepers \subseteq Uploaders
  BY DEF Keepers, Uploaders
<1> USE <1>0, <1>1, <1>2
    DEF AnswersInv, OwedToWaiter, MailIsOwn, GrantIsOwn, Keepers
<1>3. CASE WorkerTakes \/ WorkerExits \/ FaceTakes
  BY <1>3 DEF WorkerTakes, WorkerExits, FaceTakes, Move, serverVars,
              sessionVars, mailVars
<1>4. ASSUME Uploading(u) PROVE AnswersInv'
  <2>1. u \in Keepers /\ \A v \in Uploaders \ {u} : ~Uploading(v)
    BY <1>4, OneUploads
  <2>2. Connected => ~IsStopped(u)
    BY <1>4, WaitIsKept
  <2>3. Connected /\ asked # {} => ~uploadReady /\ stage[u] = "waitUpload"
    BY <2>1 DEF Uploading
  <2> USE <2>1, <2>2, <2>3 DEF Move, Uploading
  <2>4. CASE Capture(u)
    BY <2>4 DEF Capture, serverVars, sessionVars, mailVars
  <2>5. CASE ClearUpload(u)
    BY <2>5 DEF ClearUpload, serverVars
  <2>6. CASE SendUpload(u)
    BY <2>6 DEF SendUpload, sessionVars, mailVars
  <2>7. CASE TakeUpload(u)
    BY <2>7 DEF TakeUpload, serverVars
  <2>8. CASE StopUpload(u)
    BY <2>8 DEF StopUpload, serverVars, sessionVars, mailVars
  <2>9. CASE Put(u) \/ ClearDone(u)
    BY <2>9 DEF Put, ClearDone, serverVars, sessionVars, mailVars
  <2>10. CASE SendCommit(u) \/ StopDone(u)
    BY <2>10 DEF SendCommit, StopDone, serverVars, sessionVars, mailVars
  <2>11. CASE TakeDone(u)
    BY <2>11 DEF TakeDone, serverVars
  <2>12. CASE Release(u)
    BY <2>12 DEF Release, serverVars, sessionVars, mailVars
  <2> QED BY <2>4, <2>5, <2>6, <2>7, <2>8, <2>9, <2>10, <2>11, <2>12, <1>3
             DEF Thread, Upload
<1>5. Upload(u) => Uploading(u)
  BY DEF Upload, Uploading, Capture, ClearUpload, SendUpload, TakeUpload,
         StopUpload, Put, ClearDone, SendCommit, TakeDone, StopDone, Release,
         Move
<1> QED BY <1>3, <1>4, <1>5 DEF Thread

(* Every step keeps the answers with those they are for.                   *)
LEMMA AnswersStep ==
  ASSUME TypeOK, WorkerInv, BusyIsHeld, LoopRuns, AnswersInv, [Next]_vars
  PROVE  AnswersInv'
<1> SUFFICES ASSUME Regular' PROVE AnswersInv'
  BY DEF AnswersInv, OwedToWaiter, MailIsOwn, GrantIsOwn
<1>0. /\ stage \in [Uploaders -> Stages]
      /\ frame \in [Uploaders -> Nat] /\ grant \in [Uploaders -> Nat]
  BY DEF TypeOK, PlacesTyped, PicturesTyped
<1>1. Regular
  BY RegularBefore
<1>2. ASSUME NEW u \in Uploaders, Thread(u) PROVE AnswersInv'
  BY <1>1, <1>2, ThreadKeepsAnswers
<1>3. Keepers \subseteq Uploaders
  BY DEF Keepers, Uploaders
<1> USE <1>0, <1>1, <1>3 DEF AnswersInv, OwedToWaiter, MailIsOwn, GrantIsOwn,
                             Keepers
<1>4. CASE Session /\ ~CreateWorker
  <2>1. UNCHANGED <<threadVars, serverVars, mailVars>>
    BY <1>4 DEF Session, SetWs, StartWorker, MarkStarted, StopWorker,
                JoinWorker, UnsetWs, Close, sessionVars
  <2>2. Connected' => Connected
    BY <1>4 DEF Session, SetWs, StartWorker, MarkStarted, StopWorker,
                JoinWorker, UnsetWs, Close, MoveApp, Connected
  <2> QED BY <2>1, <2>2 DEF threadVars, serverVars, mailVars
<1>5. CASE CreateWorker
  <2>1. stage["auto"] = "none"
    BY <1>5 DEF CreateWorker, WorkerInv
  <2>2. Connected
    BY <1>5 DEF CreateWorker, Connected
  <2> QED BY <1>5, <2>1, <2>2
             DEF CreateWorker, serverVars, sessionVars, mailVars, Uploaders
<1>6. CASE Disconnect \/ LoopEnds
  BY <1>6 DEF Disconnect, LoopEnds, MoveApp, Connected, threadVars,
              serverVars, sessionVars, mailVars
<1>7. CASE Connect
  BY <1>7 DEF Connect, threadVars
<1>8. CASE CreateAsked
  <2>1. ~Uploading("ask")
    BY <1>8 DEF CreateAsked, BusyIsHeld
  <2> QED BY <1>8, <2>1 DEF CreateAsked, Connected, Uploading, serverVars,
                            sessionVars, mailVars, Uploaders
<1>9. CASE UploadResponse
  <2>1. Connected
    BY <1>9 DEF UploadResponse, Handles, Connected
  <2>2. PICK f \in asked : /\ asked' = asked \ {f}
                           /\ uploadMail' \in {f, NoFrame}
    BY <1>9 DEF UploadResponse
  <2>3. PICK u \in Keepers : stage[u] = "waitUpload" /\ frame[u] = f
    BY <2>1, <2>2
  <2>4. \A v \in Uploaders \ {u} : ~Uploading(v)
    BY <2>3, OneUploads DEF Uploading
  <2>5. asked = {f}
    BY <2>1, <2>2, <2>3, <2>4 DEF Uploading
  <2> QED BY <1>9, <2>2, <2>3, <2>4, <2>5
             DEF UploadResponse, threadVars, appVars, Connected, Uploading
<1>10. CASE VisionDone \/ Request \/ UNCHANGED vars
  BY <1>10 DEF VisionDone, Request, vars, appVars, threadVars, serverVars,
               sessionVars, mailVars, Connected
<1> QED BY <1>2, <1>4, <1>5, <1>6, <1>7, <1>8, <1>9, <1>10 DEF Next, Server

-----------------------------------------------------------------------------
(* The inductive invariant, and the theorems it gives.                     *)
IInv == TypeOK /\ WorkerInv /\ BusyIsHeld /\ LoopRuns /\ AnswersInv

(* The inductive invariant holds in every reachable state.                 *)
THEOREM VisionInductive == Spec => []IInv
<1>1. Init => IInv
  <2> SUFFICES ASSUME Init PROVE IInv
    OBVIOUS
  <2> USE DEF Init, Uploaders
  <2>1. PlacesTyped
    BY DEF PlacesTyped, Stages
  <2>2. FlagsTyped
    BY DEF FlagsTyped
  <2>3. PicturesTyped
    BY DEF PicturesTyped, NoFrame
  <2>4. WorkerInv
    BY DEF WorkerInv
  <2>5. BusyIsHeld
    BY DEF BusyIsHeld, Uploading
  <2>6. LoopRuns
    BY DEF LoopRuns, Connected
  <2>7. AnswersInv
    BY DEF AnswersInv, OwedToWaiter, MailIsOwn, GrantIsOwn, Keepers
  <2> QED BY <2>1, <2>2, <2>3, <2>4, <2>5, <2>6, <2>7 DEF IInv, TypeOK
<1>2. IInv /\ [Next]_vars => IInv'
  BY FlagsStep, PicturesStep, PlacesStep, WorkerStep, BusyStep, LoopRunsStep,
     AnswersStep
     DEF IInv, TypeOK
<1> QED BY <1>1, <1>2, PTL DEF Spec

(* Every variable keeps its type.                                          *)
THEOREM VisionTypeCorrect == Spec => []TypeOK
<1>1. IInv => TypeOK
  BY DEF IInv
<1> QED BY <1>1, VisionInductive, PTL

(* The worker and the thread made on request never have a picture at the   *)
(* same time, and g_vision_busy is up exactly while one of them has.       *)
THEOREM BusyHasHolder == Spec => []BusyIsHeld
<1>1. IInv => BusyIsHeld
  BY DEF IInv
<1> QED BY <1>1, VisionInductive, PTL

(* The place a picture is put in, and is committed with, is the one given  *)
(* for it: in a build without faces whose worker runs, no answer that      *)
(* names no picture is read for another, though one mailbox serves every   *)
(* thread, as long as no thread carries a picture into a later session.    *)
THEOREM GrantIsTheirs == Spec => []GrantIsOwn
<1>1. IInv => GrantIsOwn
  BY DEF IInv, AnswersInv
<1> QED BY <1>1, VisionInductive, PTL

(* With a worker, or in a build with faces, no wait for an answer is given *)
(* up while its session runs: neither flag that ends it is up inside the   *)
(* loop.                                                                   *)
THEOREM WaitsInLoop == Spec => GivesUpOnlyAtEnd
<1> DEFINE Keeps == \A u \in Uploaders :
                      /\ faceBuild \/ autoCapture
                      /\ app = "loop"
                      => ~(StopUpload(u) \/ StopDone(u))
<1>1. IInv => Keeps
  BY DEF IInv, LoopRuns, StopUpload, StopDone, IsStopped, Flag, Connected
<1> HIDE DEF Keeps
<1>2. IInv /\ [Next]_vars => [Keeps]_vars
  BY <1>1
<1>3. Spec => [][Keeps]_vars
  BY <1>2, VisionInductive, PTL DEF Spec
<1> QED BY <1>3 DEF GivesUpOnlyAtEnd, Keeps
=============================================================================
