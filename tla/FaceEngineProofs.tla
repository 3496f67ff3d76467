--------------------------- MODULE FaceEngineProofs ---------------------------
(* Theorems about FaceEngine for every number of faults.                   *)
EXTENDS FaceEngine, TLAPS

\* Where the module's threads may be alive, and what the app has left behind.
AliveInv ==
  /\ at["report"] # "none" => running \/ app = "joinReport"
  /\ at["capture"] # "none" =>
       captureRunning \/ app \in {"joinReport", "joinCapture"}
  /\ captureRunning => running
  /\ app = "startCapture" => running /\ ~captureRunning
  /\ app \in {"joinReport", "joinCapture", "cleanup"} => ~running
  /\ app \in {"start", "connect", "session"} => audio \/ ~running
  /\ app \notin {"connect", "session"} => ~audio
  /\ app = "start" => ~running

-----------------------------------------------------------------------------
(* The steps of the engine's users leave the flags alone.                  *)
LEMMA CommandKeepsFlags ==
  ASSUME NEW t \in Threads, Command(t)
  PROVE  UNCHANGED <<appVars, flagVars, speechVars, want, sampled>>
BY DEF Command, Acquire, EngineRuns, StartEngine, StartFails, HasSocket,
       Connect, ConnectFails, Send, Answer, NoAnswer, Engine

LEMMA ThreadKeepsApp ==
  ASSUME Report \/ Capture \/ Ws
  PROVE  UNCHANGED <<appVars, flagVars, speechVars>>
<1> USE DEF Result, Move, Free, Quiet
<1>1. CASE Report
  BY <1>1 DEF Report, TopLeaves, TopPrepares, TopWaits, Prepared, NotPrepared,
     InnerLeaves, InnerCompares, Compared, NothingToCompare, CompareFails,
     Told, NotTold, Recover, ReportExits, ReportCleanup
<1>2. CASE Capture
  BY <1>2 DEF Capture, TakePicture, CaptureExits, Picture, NoPicture, AskName,
     Name, UploadEnds
<1>3. CASE Ws
  BY <1>3 DEF Ws, FaceRecog, Sampled, NotSampled
<1> QED BY <1>1, <1>2, <1>3

(* Every step keeps the types: of the flags, ...                           *)
LEMMA FlagsStep ==
  ASSUME FlagsTyped, [Next]_vars
  PROVE  FlagsTyped'
<1> USE DEF FlagsTyped, appVars, flagVars, speechVars
<1>1. CASE Report
  <2>1. UNCHANGED sampled
    BY <1>1 DEF Report, TopLeaves, TopPrepares, TopWaits, Prepared,
       NotPrepared, InnerLeaves, InnerCompares, Compared, NothingToCompare,
       CompareFails, Told, NotTold, Recover, ReportExits, ReportCleanup, Move,
       Free
  <2> QED BY <1>1, <2>1, ThreadKeepsApp
<1>2. CASE Capture
  <2>1. UNCHANGED sampled
    BY <1>2 DEF Capture, TakePicture, CaptureExits, Picture, NoPicture,
       AskName, Name, UploadEnds, Move, Free
  <2> QED BY <1>2, <2>1, ThreadKeepsApp
<1>3. CASE Ws
  <2>1. sampled' \in BOOLEAN
    BY <1>3 DEF Ws, FaceRecog, Sampled, NotSampled, Free
  <2> QED BY <1>3, <2>1, ThreadKeepsApp
<1>4. ASSUME NEW t \in Threads, Command(t) PROVE FlagsTyped'
  BY <1>4, CommandKeepsFlags
<1>5. CASE SpeechStarts \/ SpeechEnds \/ GraceEnds \/ Itself
  BY <1>5 DEF SpeechStarts, SpeechEnds, GraceEnds, Itself, Crash, Hangs,
     ComesBack, EngineOnly
<1>6. CASE App
  <2> USE DEF AppOnly
  <2>1. CASE StartReport \/ NoReport
    BY <2>1 DEF StartReport, NoReport
  <2>2. ASSUME NEW created \in BOOLEAN, StartCapture(created)
        PROVE  FlagsTyped'
    BY <2>2 DEF StartCapture
  <2>3. CASE Uplink \/ Stop \/ NothingToStop
    BY <2>3 DEF Uplink, Stop, NothingToStop
  <2>4. CASE Stopping
    BY <2>4 DEF Stopping, JoinReport, JoinCapture, Join, StopCleanup
  <2>5. CASE Session \/ NoSession \/ SessionEnds
    BY <2>5 DEF Session, NoSession, SessionEnds, NextTry
  <2> QED BY <1>6, <2>1, <2>2, <2>3, <2>4, <2>5 DEF App
<1>7. CASE UNCHANGED vars
  BY <1>7 DEF vars
<1> QED BY <1>1, <1>2, <1>3, <1>4, <1>5, <1>6, <1>7 DEF Next

(* ... of the engine, ...                                                  *)
LEMMA EngineStep ==
  ASSUME EngineTyped, [Next]_vars
  PROVE  EngineTyped'
<1> USE FaultsAssumption DEF EngineTyped, engineVars, Threads
<1>0. ASSUME Fault \/ UNCHANGED faults PROVE faults' \in 0..MaxFaults
  BY <1>0 DEF Fault
<1>1. CASE Report
  <2>1. CASE Recover \/ ReportExits
    BY <2>1 DEF Recover, ReportExits, ReportCleanup, CleanupEngine, ForgetChild
  <2>2. CASE ~(Recover \/ ReportExits)
    BY <1>1, <2>2 DEF Report, TopLeaves, TopPrepares, TopWaits, Prepared,
       NotPrepared, InnerLeaves, InnerCompares, Compared, NothingToCompare,
       CompareFails, Told, NotTold, Result, Move, Free, Quiet
  <2> QED BY <2>1, <2>2
<1>2. CASE Capture
  BY <1>2 DEF Capture, TakePicture, CaptureExits, Picture, NoPicture, AskName,
     Name, UploadEnds, Result, Move, Free, Quiet
<1>3. CASE Ws
  BY <1>3 DEF Ws, FaceRecog, Sampled, NotSampled, Result, Free, Quiet
<1>4. ASSUME NEW t \in Threads, Command(t) PROVE EngineTyped'
  <2> USE DEF Engine, StaleSocket
  <2>1. CASE Acquire(t) \/ EngineRuns(t) \/ HasSocket(t)
    BY <2>1 DEF Acquire, EngineRuns, HasSocket
  <2>2. CASE StartEngine(t) \/ Connect(t)
    BY <2>2 DEF StartEngine, Connect
  <2>3. CASE StartFails(t)
    BY <1>0, <2>3 DEF StartFails, ForgetChild
  <2>4. CASE ConnectFails(t)
    <3>1. faults' \in 0..MaxFaults
      BY <1>0, <2>4 DEF ConnectFails, FaultIf
    <3> QED BY <2>4, <3>1 DEF ConnectFails, CleanupEngine, ForgetChild
  <2>5. CASE Send(t) \/ Answer(t)
    BY <2>5 DEF Send, Answer
  <2>6. CASE NoAnswer(t)
    <3>1. faults' \in 0..MaxFaults
      BY <1>0, <2>6 DEF NoAnswer, FaultIf
    <3> QED BY <2>6, <3>1 DEF NoAnswer
  <2> QED BY <1>4, <2>1, <2>2, <2>3, <2>4, <2>5, <2>6 DEF Command
<1>5. CASE Itself
  <2>1. faults' \in 0..MaxFaults
    BY <1>0, <1>5 DEF Itself, Crash, Hangs, ComesBack
  <2> QED BY <1>5, <2>1 DEF Itself, Crash, Hangs, ComesBack, EngineOnly
<1>6. CASE SpeechStarts \/ SpeechEnds \/ GraceEnds \/ UNCHANGED vars
  BY <1>6 DEF SpeechStarts, SpeechEnds, GraceEnds, vars
<1>7. CASE StopCleanup
  BY <1>7 DEF StopCleanup, CleanupEngine, ForgetChild
<1>8. CASE App /\ ~StopCleanup
  BY <1>8 DEF App, StartReport, NoReport, StartCapture, Uplink, Stop,
     NothingToStop, Stopping, JoinReport, JoinCapture, Join, Session,
     NoSession, SessionEnds, AppOnly
<1> QED BY <1>1, <1>2, <1>3, <1>4, <1>5, <1>6, <1>7, <1>8 DEF Next

(* ... and of the threads: a thread that wants something is in a command.  *)
Typed(t) ==
  \/ at[t] \in OwnPlaces[t] /\ want[t] = "nothing"
  \/ at[t] \in CommandPlaces /\ want[t] \in Wants[t]

\* One thread goes on, the others stay.
Steps(t, to, what) ==
  at' = [at EXCEPT ![t] = to] /\ want' = [want EXCEPT ![t] = what]

Fits(t, to, what) ==
  \/ to \in OwnPlaces[t] /\ what = "nothing"
  \/ to \in CommandPlaces /\ what \in Wants[t]

LEMMA OneThreadStep ==
  ASSUME ThreadsTyped, NEW t \in Threads, NEW to, NEW what,
         Steps(t, to, what), Fits(t, to, what)
  PROVE  ThreadsTyped'
<1>0. to \in Places /\ what \in AllWants
  BY DEF Fits, Places, AllWants
<1>1. at' \in [Threads -> Places] /\ want' \in [Threads -> AllWants]
  BY <1>0 DEF ThreadsTyped, Steps
<1>2. ASSUME NEW r \in Threads PROVE Typed(r)'
  <2>1. CASE r = t
    BY <2>1 DEF ThreadsTyped, Typed, Steps, Fits
  <2>2. CASE r # t
    BY <2>2 DEF ThreadsTyped, Typed, Steps
  <2> QED BY <2>1, <2>2
<1> QED BY <1>1, <1>2 DEF ThreadsTyped, Typed

\* A step of a thread that wants nothing, and goes to a place of its own.
LEMMA OwnStep ==
  ASSUME ThreadsTyped, NEW t \in Threads, NEW from, NEW to,
         Go(t, from, to), UNCHANGED want,
         from \notin CommandPlaces, to \in OwnPlaces[t]
  PROVE  ThreadsTyped'
<1>1. want[t] = "nothing"
  BY DEF ThreadsTyped, Go
<1>2. Steps(t, to, "nothing")
  BY <1>1 DEF Steps, Go, ThreadsTyped
<1>3. Fits(t, to, "nothing")
  BY DEF Fits
<1> QED BY <1>2, <1>3, OneThreadStep

\* A step of a thread that asks for the lock, or is done with it.
LEMMA AskStep ==
  ASSUME ThreadsTyped, NEW t \in Threads, NEW from, NEW what,
         Ask(t, from, what), what \in Wants[t]
  PROVE  ThreadsTyped'
<1>1. Steps(t, "lock", what)
  BY DEF Steps, Ask, Go
<1>2. Fits(t, "lock", what)
  BY DEF Fits, CommandPlaces
<1> QED BY <1>1, <1>2, OneThreadStep

LEMMA ResultStep ==
  ASSUME ThreadsTyped, NEW t \in Threads, NEW outcome, NEW what,
         NEW to, Result(t, outcome, what, to), to \in OwnPlaces[t]
  PROVE  ThreadsTyped'
<1>1. Steps(t, to, "nothing")
  BY DEF Steps, Result, Go
<1>2. Fits(t, to, "nothing")
  BY DEF Fits
<1> QED BY <1>1, <1>2, OneThreadStep

LEMMA ThreadsStep ==
  ASSUME ThreadsTyped, AliveInv, [Next]_vars
  PROVE  ThreadsTyped'
<1> USE DEF Threads
<1>1. CASE Report
  <2> USE DEF OwnPlaces, Wants
  <2>1. CASE TopLeaves \/ TopWaits \/ InnerLeaves \/ Told \/ NotTold
    <3>1. PICK from \in {"top", "inner", "told"},
               to \in {"exitCleanup", "asleep", "top", "inner", "cleanup"} :
            Move("report", from, to)
      BY <2>1 DEF TopLeaves, TopWaits, InnerLeaves, Told, NotTold
    <3>2. from \notin CommandPlaces /\ to \in OwnPlaces["report"]
      BY DEF CommandPlaces, HeldPlaces
    <3>3. Go("report", from, to) /\ UNCHANGED want
      BY <3>1 DEF Move
    <3> QED BY <3>2, <3>3, OwnStep
  <2>2. CASE TopPrepares \/ InnerCompares
    <3>1. PICK from \in {"top", "inner"}, what \in {"prepare", "compare"} :
            Ask("report", from, what)
      BY <2>2 DEF TopPrepares, InnerCompares
    <3>2. what \in Wants["report"]
      OBVIOUS
    <3> QED BY <3>1, <3>2, AskStep
  <2>3. CASE Prepared \/ NotPrepared \/ Compared \/ NothingToCompare
               \/ CompareFails
    <3>1. PICK outcome \in {"ok", "failed"}, what \in {"prepare", "compare"},
               to \in {"inner", "top", "told", "cleanup"} :
            Result("report", outcome, what, to)
      BY <2>3 DEF Prepared, NotPrepared, Compared, NothingToCompare,
         CompareFails
    <3>2. to \in OwnPlaces["report"]
      OBVIOUS
    <3> QED BY <3>1, <3>2, ResultStep
  <2>4. CASE Recover \/ ReportExits
    <3>1. PICK from \in {"cleanup", "exitCleanup"}, to \in {"inner", "none"} :
            ReportCleanup(from, to)
      BY <2>4 DEF Recover, ReportExits
    <3>2. from \notin CommandPlaces /\ to \in OwnPlaces["report"]
      BY DEF CommandPlaces, HeldPlaces
    <3>3. Go("report", from, to) /\ UNCHANGED want
      BY <3>1 DEF ReportCleanup
    <3> QED BY <3>2, <3>3, OwnStep
  <2> QED BY <1>1, <2>1, <2>2, <2>3, <2>4 DEF Report
<1>2. CASE Capture
  <2> USE DEF OwnPlaces, Wants
  <2>1. CASE CaptureExits \/ UploadEnds
    <3>1. PICK from \in {"rest", "upload", "commit"}, to \in {"none", "rest"} :
            Move("capture", from, to)
      BY <2>1 DEF CaptureExits, UploadEnds
    <3>2. from \notin CommandPlaces /\ to \in OwnPlaces["capture"]
      BY DEF CommandPlaces, HeldPlaces
    <3>3. Go("capture", from, to) /\ UNCHANGED want
      BY <3>1 DEF Move
    <3> QED BY <3>2, <3>3, OwnStep
  <2>2. CASE TakePicture \/ AskName
    <3>1. PICK from \in {"rest", "upload"}, what \in {"picture", "name"} :
            Ask("capture", from, what)
      BY <2>2 DEF TakePicture, AskName
    <3>2. what \in Wants["capture"]
      OBVIOUS
    <3> QED BY <3>1, <3>2, AskStep
  <2>3. ASSUME NEW outcome \in {"ok", "failed"},
               Picture \/ NoPicture \/ Name(outcome)
        PROVE  ThreadsTyped'
    <3>1. PICK done \in {"ok", "failed"}, what \in {"picture", "name"},
               to \in {"upload", "rest", "commit"} :
            Result("capture", done, what, to)
      BY <2>3 DEF Picture, NoPicture, Name
    <3>2. to \in OwnPlaces["capture"]
      OBVIOUS
    <3> QED BY <3>1, <3>2, ResultStep
  <2> QED BY <1>2, <2>1, <2>2, <2>3 DEF Capture
<1>3. CASE Ws
  <2> USE DEF OwnPlaces, Wants
  <2>1. CASE FaceRecog
    BY <2>1, AskStep DEF FaceRecog
  <2>2. CASE Sampled \/ NotSampled
    <3>1. PICK outcome \in {"ok", "failed"} :
            Result("ws", outcome, "sample", "none")
      BY <2>2 DEF Sampled, NotSampled
    <3>2. "none" \in OwnPlaces["ws"]
      OBVIOUS
    <3> QED BY <3>1, <3>2, ResultStep
  <2> QED BY <1>3, <2>1, <2>2 DEF Ws
<1>4. ASSUME NEW t \in Threads, Command(t) PROVE ThreadsTyped'
  <2>1. PICK from \in CommandPlaces, to \in CommandPlaces : Go(t, from, to)
    BY <1>4 DEF Command, Acquire, EngineRuns, StartEngine, StartFails,
       HasSocket, Connect, ConnectFails, Send, Answer, NoAnswer, Connected,
       CommandPlaces, HeldPlaces
  <2>2. from \notin OwnPlaces[t]
    BY DEF CommandPlaces, HeldPlaces, OwnPlaces
  <2>3. want[t] \in Wants[t]
    BY <2>1, <2>2 DEF ThreadsTyped, Go
  <2>4. Steps(t, to, want[t])
    BY <1>4, <2>1, CommandKeepsFlags DEF Steps, Go, ThreadsTyped
  <2>5. Fits(t, to, want[t])
    BY <2>3 DEF Fits, CommandPlaces, HeldPlaces
  <2> QED BY <2>3, <2>4, <2>5, OneThreadStep
<1>5. ASSUME at' = Wake(at), UNCHANGED want PROVE ThreadsTyped'
  <2>1. CASE at["report"] = "asleep"
    <3>1. Go("report", "asleep", "top")
      BY <1>5, <2>1 DEF Wake, Go
    <3>2. "asleep" \notin CommandPlaces /\ "top" \in OwnPlaces["report"]
      BY DEF CommandPlaces, HeldPlaces, OwnPlaces
    <3> QED BY <1>5, <3>1, <3>2, OwnStep
  <2>2. CASE at["report"] # "asleep"
    <3>1. at' = at
      BY <1>5, <2>2 DEF Wake, ThreadsTyped
    <3> QED BY <1>5, <3>1 DEF ThreadsTyped
  <2> QED BY <2>1, <2>2
<1>6. CASE SpeechStarts \/ SpeechEnds \/ Stop
  <2>1. at' = Wake(at) /\ UNCHANGED want
    BY <1>6 DEF SpeechStarts, SpeechEnds, Stop
  <2> QED BY <1>5, <2>1
<1>7. CASE GraceEnds \/ Itself \/ UNCHANGED vars
  BY <1>7 DEF GraceEnds, Itself, Crash, Hangs, ComesBack, EngineOnly, vars,
     threadVars, ThreadsTyped
<1>8. CASE StartReport
  <2>1. Go("report", "none", "top") /\ UNCHANGED want
    BY <1>8 DEF StartReport, AliveInv, Go
  <2>2. "none" \notin CommandPlaces /\ "top" \in OwnPlaces["report"]
    BY DEF CommandPlaces, HeldPlaces, OwnPlaces
  <2> QED BY <2>1, <2>2, OwnStep
<1>9. ASSUME NEW created \in BOOLEAN, StartCapture(created)
      PROVE  ThreadsTyped'
  <2>1. CASE created
    <3>1. Go("capture", "none", "rest") /\ UNCHANGED want
      BY <1>9, <2>1 DEF StartCapture, AliveInv, Go
    <3>2. "none" \notin CommandPlaces /\ "rest" \in OwnPlaces["capture"]
      BY DEF CommandPlaces, HeldPlaces, OwnPlaces
    <3> QED BY <3>1, <3>2, OwnStep
  <2>2. CASE ~created
    BY <1>9, <2>2 DEF StartCapture, ThreadsTyped
  <2> QED BY <2>1, <2>2
<1>10. CASE NoReport \/ Uplink \/ NothingToStop \/ Stopping \/ Session
              \/ NoSession \/ SessionEnds
  BY <1>10 DEF NoReport, Uplink, NothingToStop, Stopping, JoinReport,
     JoinCapture, Join, StopCleanup, Session, NoSession, SessionEnds, AppOnly,
     threadVars, ThreadsTyped
<1> QED BY <1>1, <1>2, <1>3, <1>4, <1>6, <1>7, <1>8, <1>9, <1>10
           DEF Next, App

-----------------------------------------------------------------------------
(* The threads are alive only where the app lets them be.                  *)
LEMMA AliveStep ==
  ASSUME TypeOK, AliveInv, [Next]_vars
  PROVE  AliveInv'
<1> USE DEF AliveInv, appVars, flagVars, speechVars, ThreadsTyped, Threads,
            FlagsTyped, TypeOK
<1>1. CASE Report
  <2>1. /\ at["report"] # "none"
        /\ at'["capture"] = at["capture"]
    BY <1>1 DEF Report, TopLeaves, TopPrepares, TopWaits, Prepared,
       NotPrepared, InnerLeaves, InnerCompares, Compared, NothingToCompare,
       CompareFails, Told, NotTold, Recover, ReportExits, ReportCleanup,
       Result, Move, Ask, Go
  <2> QED BY <1>1, <2>1, ThreadKeepsApp
<1>2. CASE Capture
  <2>1. /\ at["capture"] # "none"
        /\ at'["report"] = at["report"]
    BY <1>2 DEF Capture, TakePicture, CaptureExits, Picture, NoPicture,
       AskName, Name, UploadEnds, Result, Move, Ask, Go
  <2> QED BY <1>2, <2>1, ThreadKeepsApp
<1>3. CASE Ws
  <2>1. at'["report"] = at["report"] /\ at'["capture"] = at["capture"]
    BY <1>3 DEF Ws, FaceRecog, Sampled, NotSampled, Result, Ask, Go
  <2> QED BY <1>3, <2>1, ThreadKeepsApp
<1>4. ASSUME NEW t \in Threads, Command(t) PROVE AliveInv'
  <2>1. /\ at[t] # "none"
        /\ \A r \in Threads : r # t => at'[r] = at[r]
    BY <1>4 DEF Command, Acquire, EngineRuns, StartEngine, StartFails,
       HasSocket, Connect, ConnectFails, Send, Answer, NoAnswer, Go
  <2> QED BY <1>4, <2>1, CommandKeepsFlags
<1>5. CASE SpeechStarts \/ SpeechEnds
  BY <1>5 DEF SpeechStarts, SpeechEnds, Wake
<1>6. CASE GraceEnds \/ Itself \/ UNCHANGED vars
  BY <1>6 DEF GraceEnds, Itself, Crash, Hangs, ComesBack, EngineOnly, vars,
     threadVars
<1>7. CASE App
  <2> USE DEF AppOnly, threadVars
  <2>1. CASE StartReport \/ NoReport
    BY <2>1 DEF StartReport, NoReport
  <2>2. ASSUME NEW created \in BOOLEAN, StartCapture(created)
        PROVE  AliveInv'
    <3>1. CASE created
      BY <2>2, <3>1 DEF StartCapture
    <3>2. CASE ~created
      BY <2>2, <3>2 DEF StartCapture
    <3> QED BY <3>1, <3>2
  <2>3. CASE Uplink
    BY <2>3 DEF Uplink
  <2>4. CASE Stop
    BY <2>4 DEF Stop, Wake
  <2>5. CASE NothingToStop \/ Stopping
    BY <2>5 DEF NothingToStop, Stopping, JoinReport, JoinCapture, Join,
       StopCleanup
  <2>6. CASE Session \/ NoSession \/ SessionEnds
    BY <2>6 DEF Session, NoSession, SessionEnds, NextTry
  <2> QED BY <1>7, <2>1, <2>2, <2>3, <2>4, <2>5, <2>6 DEF App
<1> QED BY <1>1, <1>2, <1>3, <1>4, <1>5, <1>6, <1>7 DEF Next

-----------------------------------------------------------------------------
(* Who has the lock, and what it keeps open: a step by which a thread asks *)
(* for the lock, ...                                                       *)
LEMMA SocketAsk ==
  ASSUME ThreadsTyped, SocketInUse, NEW t \in Threads, NEW from, NEW what,
         Ask(t, from, what), from \notin HeldPlaces, UNCHANGED <<lock, sock>>
  PROVE  SocketInUse'
BY DEF SocketInUse, ThreadsTyped, Ask, Go, HeldPlaces

\* ... is done with it, ...
LEMMA SocketResult ==
  ASSUME ThreadsTyped, SocketInUse, NEW t \in Threads, NEW outcome, NEW what,
         NEW to, Result(t, outcome, what, to), to \notin HeldPlaces
  PROVE  SocketInUse'
BY DEF SocketInUse, ThreadsTyped, Result, Go, HeldPlaces, Quiet, engineVars,
       Threads

\* ... or goes from one place of its own to another, the socket being closed
\* only when the lock is free.
LEMMA SocketOwn ==
  ASSUME ThreadsTyped, SocketInUse, NEW t \in Threads, NEW from, NEW to,
         Go(t, from, to), from \notin HeldPlaces, to \notin HeldPlaces,
         UNCHANGED lock, UNCHANGED sock \/ lock = "free"
  PROVE  SocketInUse'
BY DEF SocketInUse, ThreadsTyped, Go, HeldPlaces, Threads

LEMMA SocketCommand ==
  ASSUME ThreadsTyped, EngineTyped, SocketInUse, NEW t \in Threads, Command(t)
  PROVE  SocketInUse'
<1> USE DEF SocketInUse, HeldPlaces, Threads, ThreadsTyped, EngineTyped,
            engineVars, Engine, Go
<1>1. CASE Acquire(t)
  BY <1>1 DEF Acquire
<1>2. CASE EngineRuns(t) \/ StartEngine(t) \/ StartFails(t)
  BY <1>2 DEF EngineRuns, StartEngine, StartFails, StaleSocket
<1>3. CASE HasSocket(t) \/ Connect(t)
  BY <1>3 DEF HasSocket, Connect, Connected
<1>4. CASE ConnectFails(t)
  BY <1>4 DEF ConnectFails, CleanupEngine
<1>5. CASE Send(t)
  BY <1>5 DEF Send
<1>6. CASE Answer(t) \/ NoAnswer(t)
  BY <1>6 DEF Answer, NoAnswer
<1> QED BY <1>1, <1>2, <1>3, <1>4, <1>5, <1>6 DEF Command

LEMMA SocketStep ==
  ASSUME TypeOK, AliveInv, SocketInUse, [Next]_vars
  PROVE  SocketInUse'
<1> USE DEF Threads, TypeOK
<1>1. CASE Report
  <2>1. CASE TopLeaves \/ TopWaits \/ InnerLeaves \/ Told \/ NotTold
    <3>1. PICK from \in {"top", "inner", "told"},
               to \in {"exitCleanup", "asleep", "top", "inner", "cleanup"} :
            Move("report", from, to)
      BY <2>1 DEF TopLeaves, TopWaits, InnerLeaves, Told, NotTold
    <3>2. from \notin HeldPlaces /\ to \notin HeldPlaces
      BY DEF HeldPlaces
    <3>3. Go("report", from, to) /\ UNCHANGED lock /\ UNCHANGED sock
      BY <3>1 DEF Move, Free, Quiet, engineVars
    <3> QED BY <3>2, <3>3, SocketOwn
  <2>2. CASE TopPrepares \/ InnerCompares
    <3>1. PICK from \in {"top", "inner"}, what \in {"prepare", "compare"} :
            Ask("report", from, what)
      BY <2>2 DEF TopPrepares, InnerCompares
    <3>2. from \notin HeldPlaces
      BY DEF HeldPlaces
    <3>3. UNCHANGED <<lock, sock>>
      BY <2>2 DEF TopPrepares, InnerCompares, Free, Quiet, engineVars
    <3> QED BY <3>1, <3>2, <3>3, SocketAsk
  <2>3. CASE Prepared \/ NotPrepared \/ Compared \/ NothingToCompare
               \/ CompareFails
    <3>1. PICK outcome \in {"ok", "failed"}, what \in {"prepare", "compare"},
               to \in {"inner", "top", "told", "cleanup"} :
            Result("report", outcome, what, to)
      BY <2>3 DEF Prepared, NotPrepared, Compared, NothingToCompare,
         CompareFails
    <3>2. to \notin HeldPlaces
      BY DEF HeldPlaces
    <3> QED BY <3>1, <3>2, SocketResult
  <2>4. CASE Recover \/ ReportExits
    <3>1. PICK from \in {"cleanup", "exitCleanup"}, to \in {"inner", "none"} :
            ReportCleanup(from, to)
      BY <2>4 DEF Recover, ReportExits
    <3>2. from \notin HeldPlaces /\ to \notin HeldPlaces
      BY DEF HeldPlaces
    <3>3. Go("report", from, to) /\ UNCHANGED lock /\ lock = "free"
      BY <3>1 DEF ReportCleanup
    <3> QED BY <3>2, <3>3, SocketOwn
  <2> QED BY <1>1, <2>1, <2>2, <2>3, <2>4 DEF Report
<1>2. CASE Capture
  <2>1. CASE CaptureExits \/ UploadEnds
    <3>1. PICK from \in {"rest", "upload", "commit"}, to \in {"none", "rest"} :
            Move("capture", from, to)
      BY <2>1 DEF CaptureExits, UploadEnds
    <3>2. from \notin HeldPlaces /\ to \notin HeldPlaces
      BY DEF HeldPlaces
    <3>3. Go("capture", from, to) /\ UNCHANGED lock /\ UNCHANGED sock
      BY <3>1 DEF Move, Free, Quiet, engineVars
    <3> QED BY <3>2, <3>3, SocketOwn
  <2>2. CASE TakePicture \/ AskName
    <3>1. PICK from \in {"rest", "upload"}, what \in {"picture", "name"} :
            Ask("capture", from, what)
      BY <2>2 DEF TakePicture, AskName
    <3>2. from \notin HeldPlaces
      BY DEF HeldPlaces
    <3>3. UNCHANGED <<lock, sock>>
      BY <2>2 DEF TakePicture, AskName, Free, Quiet, engineVars
    <3> QED BY <3>1, <3>2, <3>3, SocketAsk
  <2>3. ASSUME NEW outcome \in {"ok", "failed"},
               Picture \/ NoPicture \/ Name(outcome)
        PROVE  SocketInUse'
    <3>1. PICK done \in {"ok", "failed"}, what \in {"picture", "name"},
               to \in {"upload", "rest", "commit"} :
            Result("capture", done, what, to)
      BY <2>3 DEF Picture, NoPicture, Name
    <3>2. to \notin HeldPlaces
      BY DEF HeldPlaces
    <3> QED BY <3>1, <3>2, SocketResult
  <2> QED BY <1>2, <2>1, <2>2, <2>3 DEF Capture
<1>3. CASE Ws
  <2>1. CASE FaceRecog
    <3>1. Ask("ws", "none", "sample") /\ UNCHANGED <<lock, sock>>
      BY <2>1 DEF FaceRecog, Free, Quiet, engineVars
    <3>2. "none" \notin HeldPlaces
      BY DEF HeldPlaces
    <3> QED BY <3>1, <3>2, SocketAsk
  <2>2. CASE Sampled \/ NotSampled
    <3>1. PICK outcome \in {"ok", "failed"} :
            Result("ws", outcome, "sample", "none")
      BY <2>2 DEF Sampled, NotSampled
    <3>2. "none" \notin HeldPlaces
      BY DEF HeldPlaces
    <3> QED BY <3>1, <3>2, SocketResult
  <2> QED BY <1>3, <2>1, <2>2 DEF Ws
<1>4. ASSUME NEW t \in Threads, Command(t) PROVE SocketInUse'
  BY <1>4, SocketCommand
<1>5. CASE SpeechStarts \/ SpeechEnds \/ Stop
  <2>1. at' = Wake(at) /\ UNCHANGED <<lock, sock>>
    BY <1>5 DEF SpeechStarts, SpeechEnds, Stop, engineVars
  <2> QED BY <2>1 DEF SocketInUse, Wake, ThreadsTyped, HeldPlaces
<1>6. CASE GraceEnds \/ Itself \/ UNCHANGED vars
  BY <1>6 DEF GraceEnds, Itself, Crash, Hangs, ComesBack, EngineOnly, vars,
     threadVars, engineVars, SocketInUse
<1>7. CASE StartReport
  <2>1. Go("report", "none", "top") /\ UNCHANGED <<lock, sock>>
    BY <1>7 DEF StartReport, AliveInv, Go, engineVars
  <2>2. "none" \notin HeldPlaces /\ "top" \notin HeldPlaces
    BY DEF HeldPlaces
  <2> QED BY <2>1, <2>2, SocketOwn
<1>8. ASSUME NEW created \in BOOLEAN, StartCapture(created)
      PROVE  SocketInUse'
  <2>1. CASE created
    <3>1. Go("capture", "none", "rest") /\ UNCHANGED <<lock, sock>>
      BY <1>8, <2>1 DEF StartCapture, AliveInv, Go, engineVars
    <3>2. "none" \notin HeldPlaces /\ "rest" \notin HeldPlaces
      BY DEF HeldPlaces
    <3> QED BY <3>1, <3>2, SocketOwn
  <2>2. CASE ~created
    BY <1>8, <2>2 DEF StartCapture, SocketInUse, engineVars
  <2> QED BY <2>1, <2>2
<1>9. CASE StopCleanup
  BY <1>9 DEF StopCleanup, SocketInUse, HeldPlaces, threadVars
<1>10. CASE NoReport \/ Uplink \/ NothingToStop \/ JoinReport \/ JoinCapture
              \/ Session \/ NoSession \/ SessionEnds
  BY <1>10 DEF NoReport, Uplink, NothingToStop, JoinReport, JoinCapture, Join,
     Session, NoSession, SessionEnds, AppOnly, threadVars, engineVars,
     SocketInUse
<1> QED BY <1>1, <1>2, <1>3, <1>4, <1>5, <1>6, <1>7, <1>8, <1>9, <1>10
           DEF Next, App, Stopping

(* Only a process that is known to be dead, or has been killed, is         *)
(* forgotten.                                                              *)
LEMMA EngineStays ==
  ASSUME OneEngine, [Next]_vars
  PROVE  OneEngine'
<1> USE DEF OneEngine, engineVars
<1>1. CASE Report
  <2>1. CASE Recover \/ ReportExits
    BY <2>1 DEF Recover, ReportExits, ReportCleanup, CleanupEngine, ForgetChild
  <2>2. CASE ~(Recover \/ ReportExits)
    BY <1>1, <2>2 DEF Report, TopLeaves, TopPrepares, TopWaits, Prepared,
       NotPrepared, InnerLeaves, InnerCompares, Compared, NothingToCompare,
       CompareFails, Told, NotTold, Result, Move, Free, Quiet
  <2> QED BY <2>1, <2>2
<1>2. CASE Capture \/ Ws
  BY <1>2 DEF Capture, TakePicture, CaptureExits, Picture, NoPicture, AskName,
     Name, UploadEnds, Ws, FaceRecog, Sampled, NotSampled, Result, Move, Free,
     Quiet
<1>3. ASSUME NEW t \in Threads, Command(t) PROVE OneEngine'
  <2>1. CASE StartFails(t) \/ ConnectFails(t)
    BY <2>1 DEF StartFails, ConnectFails, CleanupEngine, ForgetChild
  <2>2. CASE ~(StartFails(t) \/ ConnectFails(t))
    BY <1>3, <2>2 DEF Command, Acquire, EngineRuns, StartEngine, HasSocket,
       Connect, Send, Answer, NoAnswer
  <2> QED BY <2>1, <2>2
<1>4. CASE SpeechStarts \/ SpeechEnds \/ GraceEnds \/ Itself \/ UNCHANGED vars
  BY <1>4 DEF SpeechStarts, SpeechEnds, GraceEnds, Itself, Crash, Hangs,
     ComesBack, EngineOnly, vars
<1>5. CASE StopCleanup
  BY <1>5 DEF StopCleanup, CleanupEngine, ForgetChild
<1>6. CASE App /\ ~StopCleanup
  BY <1>6 DEF App, StartReport, NoReport, StartCapture, Uplink, Stop,
     NothingToStop, Stopping, JoinReport, JoinCapture, Join, Session,
     NoSession, SessionEnds, AppOnly
<1> QED BY <1>1, <1>2, <1>3, <1>4, <1>5, <1>6 DEF Next

-----------------------------------------------------------------------------
(* The inductive invariant, and the theorems it gives.                     *)
IInv == TypeOK /\ AliveInv /\ SocketInUse /\ OneEngine

(* The inductive invariant holds in every reachable state.                 *)
THEOREM FaceInductive == Spec => []IInv
<1>1. Init => IInv
  <2> SUFFICES ASSUME Init PROVE IInv
    OBVIOUS
  <2> USE FaultsAssumption DEF Init, Threads
  <2>1. EngineTyped
    <3>1. stray \in BOOLEAN
      OBVIOUS
    <3>2. faults \in 0..MaxFaults
      OBVIOUS
    <3> QED BY <3>1, <3>2 DEF EngineTyped
  <2>6. FlagsTyped
    BY DEF FlagsTyped
  <2>2. ThreadsTyped
    <3>1. \A t \in Threads : "none" \in OwnPlaces[t]
      BY DEF OwnPlaces
    <3>2. "none" \in Places /\ "nothing" \in AllWants
      BY <3>1 DEF Places, AllWants
    <3> QED BY <3>1, <3>2 DEF ThreadsTyped
  <2>3. AliveInv
    BY DEF AliveInv
  <2>4. SocketInUse
    BY DEF SocketInUse, HeldPlaces
  <2>5. OneEngine
    BY DEF OneEngine
  <2> QED BY <2>1, <2>2, <2>3, <2>4, <2>5, <2>6 DEF IInv, TypeOK
<1>2. IInv /\ [Next]_vars => IInv'
  <2> SUFFICES ASSUME IInv, [Next]_vars PROVE IInv'
    OBVIOUS
  <2>1. EngineTyped' /\ FlagsTyped' /\ ThreadsTyped'
    BY EngineStep, FlagsStep, ThreadsStep DEF IInv, TypeOK
  <2>2. AliveInv' /\ SocketInUse' /\ OneEngine'
    BY AliveStep, SocketStep, EngineStays DEF IInv
  <2> QED BY <2>1, <2>2 DEF IInv, TypeOK
<1> QED BY <1>1, <1>2, PTL DEF Spec

(* Every variable keeps its type, and every thread its own places.         *)
THEOREM FaceTypeCorrect == Spec => []TypeOK
<1>1. IInv => TypeOK
  BY DEF IInv
<1> QED BY <1>1, FaceInductive, PTL

(* One thread at a time talks to the engine, on a socket that stays open   *)
(* under it.                                                               *)
THEOREM SocketIsHeld == Spec => []SocketInUse
<1>1. IInv => SocketInUse
  BY DEF IInv
<1> QED BY <1>1, FaceInductive, PTL

(* There is never a second engine.                                         *)
THEOREM AtMostOneEngine == Spec => []OneEngine
<1>1. IInv => OneEngine
  BY DEF IInv
<1> QED BY <1>1, FaceInductive, PTL

(* A stopped module's engine stays away: whoever starts one belongs to a   *)
(* module that is started or not yet joined, or is the ws thread.          *)
THEOREM StopIsFinal == Spec => NoRevival
<1> DEFINE Entitled ==
      \/ running \/ captureRunning
      \/ app \in {"joinReport", "joinCapture"}
      \/ lock = "ws"
<1>1. ASSUME IInv, [Next]_vars, child # "up", child' = "up"
      PROVE  Entitled
  <2>1. PICK t \in Threads : StartEngine(t)
    BY <1>1 DEF Next, vars, engineVars, Command, Acquire, EngineRuns,
       StartFails, HasSocket, Connect, ConnectFails, Send, Answer, NoAnswer,
       Engine, ForgetChild, CleanupEngine,
       Report, TopLeaves, TopPrepares, TopWaits, Prepared, NotPrepared,
       InnerLeaves, InnerCompares, Compared, NothingToCompare, CompareFails,
       Told, NotTold, Recover, ReportExits, ReportCleanup,
       Capture, TakePicture, CaptureExits, Picture, NoPicture, AskName, Name,
       UploadEnds, Ws, FaceRecog, Sampled, NotSampled, Result, Move, Free,
       Quiet, SpeechStarts, SpeechEnds, GraceEnds, Itself, Crash, Hangs,
       ComesBack, EngineOnly, App, StartReport, NoReport, StartCapture,
       Uplink, Stop, NothingToStop, Stopping, JoinReport, JoinCapture, Join,
       StopCleanup, Session, NoSession, SessionEnds, AppOnly
  <2>2. at[t] # "none" /\ lock = t
    BY <2>1 DEF StartEngine, Engine, Go
  <2> QED BY <1>1, <2>1, <2>2 DEF IInv, AliveInv, Threads
<1>2. IInv /\ [Next]_vars => [child # "up" /\ child' = "up" => Entitled]_vars
  BY <1>1
<1> QED BY <1>2, FaceInductive, PTL DEF Spec, NoRevival
=============================================================================
