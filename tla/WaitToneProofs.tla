---------------------------- MODULE WaitToneProofs ----------------------------
(* Theorems about WaitTone for any number of places for threads and every  *)
(* value of its bounds.                                                    *)
EXTENDS WaitTone, TLAPS

(* A thread is created in a place that was free.                           *)
LEMMA FreePlace ==
  ASSUME NEW threads, HasFree(threads)
  PROVE  Free(threads) \in Threads /\ threads[Free(threads)] = "none"
BY DEF HasFree, Free

-----------------------------------------------------------------------------
(* Every step keeps the types: those of the places, ...                    *)
LEMMA PlacesStep ==
  ASSUME PlacesTyped, [Next]_vars
  PROVE  PlacesTyped'
<1> USE DEF PlacesTyped
<1>1. CASE UNCHANGED vars
  BY <1>1 DEF vars, places
<1>2. ASSUME NEW i \in Threads, ToneThread(i) PROVE PlacesTyped'
  BY <1>2 DEF ToneThread, ToneTop, ToneCheck, TonePlay, ToneWait, ToneLeave,
              MoveTone
<1>3. ASSUME NEW i \in Threads, WaiterThread(i) PROVE PlacesTyped'
  <2>1. CASE WaiterBusy(i) \/ WaiterPoll(i) \/ WaiterDecide(i)
    BY <2>1 DEF WaiterBusy, WaiterPoll, WaiterDecide
  <2>2. CASE WaiterStart(i)
    BY <2>2 DEF WaiterStart
  <2>3. CASE WaiterCreate(i)
    BY <2>3, FreePlace DEF WaiterCreate, CreateTone
  <2> QED BY <1>3, <2>1, <2>2, <2>3 DEF WaiterThread
<1>4. CASE Handling
  <2>1. CASE WsStart \/ Arm \/ VadMark
    BY <2>1 DEF WsStart, Arm, VadMark
  <2>2. CASE WsCreate
    BY <2>2, FreePlace DEF WsCreate, CreateTone
  <2>3. CASE CreateWaiter
    BY <2>3, FreePlace DEF CreateWaiter
  <2>4. CASE InterruptSpeech \/ QueueList \/ PlayList
    BY <2>4 DEF InterruptSpeech, QueueList, PlayList
  <2> QED BY <1>4, <2>1, <2>2, <2>3, <2>4 DEF Handling
<1>5. CASE Message
  BY <1>5 DEF Message, WaitAudioStart, VadStop, MusicServer, BaiduAudio,
              TtsCompleted, places
<1>6. CASE ResetRound \/ Reconnect \/ Receive \/ MusicEnds
  BY <1>6 DEF ResetRound, Reconnect, Receive, MusicEnds, places
<1>7. CASE Tts
  BY <1>7 DEF Tts, TtsRead, TtsCancel, TtsStopTone, TtsMusic, TtsPlay,
              TtsInner, TtsIdle, TakeMusic, PlayTaken, MoveTts, places
<1> QED BY <1>1, <1>2, <1>3, <1>4, <1>5, <1>6, <1>7 DEF Next

(* ... of the marks ...                                                    *)
LEMMA MarksStep ==
  ASSUME MarksTyped, [Next]_vars
  PROVE  MarksTyped'
<1> USE DEF MarksTyped, sessionVars, toneVars, speechVars
<1>1. CASE UNCHANGED vars
  BY <1>1 DEF vars
<1>2. ASSUME NEW i \in Threads, ToneThread(i) PROVE MarksTyped'
  BY <1>2 DEF ToneThread, ToneTop, ToneCheck, TonePlay, ToneWait, ToneLeave,
              MoveTone, PlayMusic
<1>3. ASSUME NEW i \in Threads, WaiterThread(i) PROVE MarksTyped'
  BY <1>3 DEF WaiterThread, WaiterBusy, WaiterPoll, WaiterDecide, WaiterStart,
              WaiterCreate, Retire, RaiseTone, CreateTone
<1>4. CASE Handling
  BY <1>4 DEF Handling, WsStart, WsCreate, Arm, CreateWaiter, VadMark,
              InterruptSpeech, QueueList, PlayList, RaiseTone, CreateTone,
              InterruptMusic, PlayMusic
<1>5. CASE Message
  BY <1>5 DEF Message, WaitAudioStart, VadStop, MusicServer, BaiduAudio,
              TtsCompleted, LowerTone, PlayMusic
<1>6. CASE ResetRound \/ Reconnect \/ Receive \/ MusicEnds
  BY <1>6 DEF ResetRound, Reconnect, Receive, MusicEnds
<1>7. CASE TtsRead \/ TtsCancel \/ TtsStopTone \/ TtsMusic
  BY <1>7 DEF TtsRead, TtsCancel, TtsStopTone, TtsMusic, MoveTts, LowerTone,
              InterruptMusic
<1>8. CASE TtsPlay \/ TtsInner
  BY <1>8 DEF TtsPlay, TtsInner, MoveTts
<1>9. CASE TtsIdle \/ TakeMusic \/ PlayTaken
  BY <1>9 DEF TtsIdle, TakeMusic, PlayTaken, MoveTts, PlayMusic
<1> QED BY <1>1, <1>2, <1>3, <1>4, <1>5, <1>6, <1>7, <1>8, <1>9
           DEF Next, Tts

(* ... and of the counts.                                                  *)
LEMMA CountsStep ==
  ASSUME CountsTyped, [Next]_vars
  PROVE  CountsTyped'
<1> USE DEF CountsTyped
<1>1. CASE TtsRead
  BY <1>1 DEF TtsRead, TakeFrame
<1>2. CASE TtsInner
  BY <1>2 DEF TtsInner, MoveTts
<1>3. CASE Receive \/ InterruptSpeech \/ Reconnect
  BY <1>3 DEF Receive, InterruptSpeech, Reconnect
<1>4. CASE WaitAudioStart
  BY <1>4 DEF WaitAudioStart, speechVars
<1>5. CASE UNCHANGED <<frames, starts>>
  BY <1>5
<1>6. ASSUME NEW i \in Threads, ToneThread(i) \/ WaiterThread(i)
      PROVE  UNCHANGED <<frames, starts>>
  BY <1>6 DEF ToneThread, ToneTop, ToneCheck, TonePlay, ToneWait, ToneLeave,
              MoveTone, WaiterThread, WaiterBusy, WaiterPoll, WaiterDecide,
              WaiterStart, WaiterCreate, speechVars
<1>7. CASE \/ WsStart \/ WsCreate \/ Arm \/ CreateWaiter \/ VadMark
           \/ QueueList \/ PlayList
  BY <1>5, <1>7 DEF WsStart, WsCreate, Arm, CreateWaiter, VadMark, QueueList,
                    PlayList, speechVars
<1>8. CASE VadStop \/ MusicServer \/ BaiduAudio \/ TtsCompleted \/ ResetRound
           \/ MusicEnds \/ UNCHANGED vars
  BY <1>5, <1>8 DEF VadStop, MusicServer, BaiduAudio, TtsCompleted,
                    ResetRound, MusicEnds, speechVars, vars
<1>9. CASE TtsCancel \/ TtsStopTone \/ TtsMusic \/ TtsPlay \/ TtsIdle
           \/ TakeMusic \/ PlayTaken
  BY <1>5, <1>9 DEF TtsCancel, TtsStopTone, TtsMusic, TtsPlay, TtsIdle,
                    TakeMusic, PlayTaken, MoveTts, speechVars
<1> QED BY <1>1, <1>2, <1>3, <1>4, <1>5, <1>6, <1>7, <1>8, <1>9
           DEF Next, Handling, Message, Tts

-----------------------------------------------------------------------------
(* The threads that may meet in the tone: the steps that touch neither its *)
(* places nor its mark.                                                    *)
KeepsTone ==
  /\ UNCHANGED <<tone, waiter, toneRunning>>
  /\ w' = "create" => w = "create"

(* Whoever claims the tone's thread finds the mark down, whoever gives it  *)
(* up is alone with it.                                                    *)
LEMMA ToneStep ==
  ASSUME PlacesTyped, ToneInv, [Next]_vars
  PROVE  ToneInv'
<1> USE DEF ToneInv, Looping, PlacesTyped
<1>1. CASE KeepsTone
  BY <1>1 DEF KeepsTone
<1>2. ASSUME NEW i \in Threads, ToneThread(i) PROVE ToneInv'
  <2>1. CASE ToneTop(i) \/ ToneCheck(i) \/ TonePlay(i) \/ ToneWait(i)
    BY <2>1 DEF ToneTop, ToneCheck, TonePlay, ToneWait, MoveTone, toneVars
  <2>2. CASE ToneLeave(i)
    <3>1. \A j \in Threads : tone'[j] = "none"
      BY <2>2 DEF ToneLeave, MoveTone
    <3> QED BY <2>2, <3>1 DEF ToneLeave, MoveTone
  <2> QED BY <1>2, <2>1, <2>2 DEF ToneThread
<1>3. ASSUME NEW i \in Threads, WaiterThread(i) PROVE ToneInv'
  <2>1. CASE WaiterBusy(i) \/ WaiterPoll(i) \/ WaiterDecide(i)
    BY <2>1 DEF WaiterBusy, WaiterPoll, WaiterDecide, toneVars
  <2>2. CASE WaiterStart(i)
    BY <2>2 DEF WaiterStart, RaiseTone
  <2>3. CASE WaiterCreate(i)
    <3>1. \A j \in Threads : waiter'[j] # "create" /\ tone[j] = "none"
      BY <2>3 DEF WaiterCreate
    <3>2. w # "create" /\ w' # "create"
      BY <2>3 DEF WaiterCreate
    <3>3. \A j, k \in Threads : tone'[j] # "none" /\ tone'[k] # "none"
                                  => j = k /\ toneRunning'
      BY <2>3, <3>1, FreePlace DEF WaiterCreate, CreateTone, toneVars
    <3> QED BY <3>1, <3>2, <3>3
  <2> QED BY <1>3, <2>1, <2>2, <2>3 DEF WaiterThread
<1>4. CASE WsStart
  BY <1>4 DEF WsStart, RaiseTone
<1>5. CASE WsCreate
  <2>1. \A j \in Threads : waiter'[j] # "create" /\ tone[j] = "none"
    BY <1>5 DEF WsCreate
  <2>2. w' # "create"
    BY <1>5 DEF WsCreate
  <2>3. \A j, k \in Threads : tone'[j] # "none" /\ tone'[k] # "none"
                                => j = k /\ toneRunning'
    <3>1. CASE /\ HasFree(tone)
               /\ tone' = [tone EXCEPT ![Free(tone)] = "top"]
               /\ UNCHANGED toneVars
      <4>1. toneRunning'
        BY <1>5, <3>1 DEF WsCreate, toneVars
      <4> QED BY <2>1, <3>1, <4>1, FreePlace
    <3>2. CASE UNCHANGED tone
      BY <2>1, <3>2
    <3> QED BY <1>5, <3>1, <3>2 DEF WsCreate, CreateTone
  <2> QED BY <2>1, <2>2, <2>3
<1>6. CASE CreateWaiter
  <2>1. \A j \in Threads : waiter'[j] = "create" => waiter[j] = "create"
    BY <1>6, FreePlace DEF CreateWaiter
  <2>2. w' = "idle" /\ UNCHANGED <<tone, toneRunning>>
    BY <1>6 DEF CreateWaiter, toneVars
  <2> QED BY <2>1, <2>2
<1>7. CASE Arm \/ VadMark \/ InterruptSpeech \/ QueueList \/ PlayList
  BY <1>1, <1>7 DEF KeepsTone, Arm, VadMark, InterruptSpeech, QueueList,
                    PlayList, toneVars
<1>8. CASE Message \/ ResetRound \/ Reconnect \/ Receive \/ MusicEnds
  BY <1>1, <1>8 DEF KeepsTone, Message, WaitAudioStart, VadStop, MusicServer,
                    BaiduAudio, TtsCompleted, ResetRound, Reconnect, Receive,
                    MusicEnds, LowerTone, toneVars, places
<1>9. CASE Tts
  BY <1>1, <1>9 DEF KeepsTone, Tts, TtsRead, TtsCancel, TtsStopTone, TtsMusic,
                    TtsPlay, TtsInner, TtsIdle, TakeMusic, PlayTaken, MoveTts,
                    LowerTone, toneVars, places
<1>10. CASE UNCHANGED vars
  BY <1>1, <1>10 DEF KeepsTone, vars, toneVars, places
<1> QED BY <1>2, <1>3, <1>4, <1>5, <1>6, <1>7, <1>8, <1>9, <1>10
           DEF Next, Handling

-----------------------------------------------------------------------------
(* The steps that touch neither the waiters' places nor their marks.       *)
KeepsWaiter ==
  /\ UNCHANGED <<waiter, waiterRunning>>
  /\ pending' => pending
  /\ w' = "createWaiter" <=> w = "createWaiter"

(* The waiter's mark goes up and down with the waiter.                     *)
LEMMA WaiterStep ==
  ASSUME PlacesTyped, WaiterInv, [Next]_vars
  PROVE  WaiterInv'
<1> USE DEF WaiterInv, Waiting, PlacesTyped
<1>1. CASE KeepsWaiter
  BY <1>1 DEF KeepsWaiter
<1>2. ASSUME NEW i \in Threads, ToneThread(i) PROVE WaiterInv'
  BY <1>1, <1>2 DEF KeepsWaiter, ToneThread, ToneTop, ToneCheck, TonePlay,
                    ToneWait, ToneLeave, MoveTone, sessionVars
<1>3. ASSUME NEW i \in Threads, WaiterThread(i) PROVE WaiterInv'
  <2>1. CASE WaiterBusy(i) \/ WaiterPoll(i)
    <3>1. Waiting' = Waiting
      BY <2>1 DEF WaiterBusy, WaiterPoll
    <3> QED BY <2>1, <3>1 DEF WaiterBusy, WaiterPoll, sessionVars
  <2>2. CASE WaiterDecide(i)
    <3>1. Waiting' = {}
      BY <2>2 DEF WaiterDecide
    <3> QED BY <2>2, <3>1 DEF WaiterDecide, Retire
  <2>3. CASE WaiterStart(i) \/ WaiterCreate(i)
    <3>1. Waiting' = Waiting
      BY <2>3 DEF WaiterStart, WaiterCreate
    <3> QED BY <2>3, <3>1 DEF WaiterStart, WaiterCreate, sessionVars
  <2> QED BY <1>3, <2>1, <2>2, <2>3 DEF WaiterThread
<1>4. CASE Arm
  BY <1>4 DEF Arm
<1>5. CASE CreateWaiter
  <2>1. Waiting = {} /\ w' = "idle"
    BY <1>5 DEF CreateWaiter
  <2>2. CASE HasFree(waiter)
             /\ waiter' = [waiter EXCEPT ![Free(waiter)] = "busy"]
             /\ UNCHANGED <<pending, waiterRunning>>
    <3>1. Waiting' = {Free(waiter)}
      BY <2>1, <2>2, FreePlace
    <3> QED BY <1>5, <2>1, <2>2, <3>1 DEF CreateWaiter
  <2>3. CASE pending' = FALSE /\ waiterRunning' = FALSE /\ UNCHANGED waiter
    BY <2>1, <2>3
  <2> QED BY <1>5, <2>2, <2>3 DEF CreateWaiter
<1>6. CASE WsStart \/ WsCreate \/ VadMark \/ InterruptSpeech \/ QueueList
             \/ PlayList
  BY <1>1, <1>6 DEF KeepsWaiter, WsStart, WsCreate, VadMark, InterruptSpeech,
                    QueueList, PlayList, sessionVars
<1>7. CASE Message \/ ResetRound \/ Reconnect \/ Receive \/ MusicEnds
  BY <1>1, <1>7 DEF KeepsWaiter, Message, WaitAudioStart, VadStop,
                    MusicServer, BaiduAudio, TtsCompleted, ResetRound,
                    Reconnect, Receive, MusicEnds, sessionVars, places
<1>8. CASE Tts
  BY <1>1, <1>8 DEF KeepsWaiter, Tts, TtsRead, TtsCancel, TtsStopTone,
                    TtsMusic, TtsPlay, TtsInner, TtsIdle, TakeMusic,
                    PlayTaken, MoveTts, sessionVars, places
<1>9. CASE UNCHANGED vars
  BY <1>1, <1>9 DEF KeepsWaiter, vars, sessionVars, places
<1> QED BY <1>2, <1>3, <1>4, <1>5, <1>6, <1>7, <1>8, <1>9 DEF Next, Handling

-----------------------------------------------------------------------------
(* The inductive invariant, and the theorems it gives.                     *)
IInv == TypeOK /\ ToneInv /\ WaiterInv

(* The inductive invariant holds in every reachable state.                 *)
THEOREM ToneInductive == Spec => []IInv
<1>1. Init => IInv
  <2> SUFFICES ASSUME Init PROVE IInv
    OBVIOUS
  <2> USE DEF Init
  <2>1. MarksTyped /\ CountsTyped
    BY DEF MarksTyped, CountsTyped
  <2>2. PlacesTyped
    BY DEF PlacesTyped
  <2>3. Looping = {} /\ Waiting = {}
    BY DEF Looping, Waiting
  <2>4. ToneInv
    BY <2>3 DEF ToneInv
  <2>5. WaiterInv
    BY <2>3 DEF WaiterInv
  <2> QED BY <2>1, <2>2, <2>4, <2>5 DEF IInv, TypeOK
<1>2. IInv /\ [Next]_vars => IInv'
  BY PlacesStep, MarksStep, CountsStep, ToneStep, WaiterStep DEF IInv, TypeOK
<1> QED BY <1>1, <1>2, PTL DEF Spec

(* Every variable keeps its type.                                          *)
THEOREM ToneTypeCorrect == Spec => []TypeOK
<1>1. IInv => TypeOK
  BY DEF IInv
<1> QED BY <1>1, ToneInductive, PTL

(* However starts, stops and failed creations interleave, one thread at    *)
(* most repeats the tone and one at most waits for the speech to end.      *)
THEOREM AtMostOneThread == Spec => []OneOfEach
<1>1. IInv => OneOfEach
  BY DEF IInv, ToneInv, WaiterInv, OneOfEach
<1> QED BY <1>1, ToneInductive, PTL

(* A tone that was put off always has a waiter, or one about to be made.   *)
THEOREM PendingIsInHands == Spec => []PendingHasWaiter
<1>1. IInv => PendingHasWaiter
  BY DEF IInv, WaiterInv, PendingHasWaiter
<1> QED BY <1>1, ToneInductive, PTL
=============================================================================
