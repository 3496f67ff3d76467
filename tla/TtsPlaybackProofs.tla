--------------------------- MODULE TtsPlaybackProofs --------------------------
(* What is proved of TtsPlayback, for any number of packets, interrupts,   *)
(* sub-rounds, rounds and sessions.                                        *)
EXTENDS TtsPlayback, TLAPS

\* The device that is published is open, from before it is published.
DeviceInv == (active => open) /\ (pc = "publish" => open)

\* What is recorded, or about to be.
Known == IF pc = "mark" THEN chat ELSE reported

\* No chat that can still be read is earlier than one that was reported: not
\* the packets' chat, nor the one that the player has read.
ChatInv ==
  /\ stt \in {NoChat, round} /\ packetChat <= round
  /\ reported <= round /\ chat <= round
  /\ packetChat # NoChat => Known <= packetChat
  /\ pc = "sttRead" => packetChat = NoChat
  /\ pc \in {"setChat", "compare", "send"} /\ chat # NoChat => reported <= chat
  /\ pc \in {"compare", "send"} /\ packetChat # NoChat => chat <= packetChat
  /\ \A c \in sent : c <= Known
  /\ pc = "send" /\ chat # NoChat => \A c \in sent : c < chat

\* Each report of no chat has a cut of its own: the one that made the player
\* read no chat.
InHand ==
  \/ pc = "chatRead" /\ packetChat = NoChat
  \/ pc = "compare" /\ chat = NoChat

ToCome ==
  w \in {"int1", "int2", "int3", "int4", "int5", "int6", "sub1", "sub2",
        "sub3", "sub4", "sub5"}

BlankInv ==
  blanks + (IF InHand THEN 1 ELSE 0) + (IF ToCome THEN 1 ELSE 0) <= requests

\* The inductive invariant.
IInv ==
  TypeOK /\ DeviceInv /\ QuietWhenReporting /\ ChatInv /\ BlankInv

-----------------------------------------------------------------------------
(* Types: those of the Boolean variables and those of the others.          *)

Booleans ==
  /\ running \in BOOLEAN /\ flush \in BOOLEAN /\ playing \in BOOLEAN
  /\ drop \in BOOLEAN /\ waitingFirst \in BOOLEAN /\ lastAudio \in BOOLEAN
  /\ active \in BOOLEAN /\ open \in BOOLEAN /\ pend \in BOOLEAN
  /\ completed \in BOOLEAN /\ transport \in BOOLEAN

Places ==
  {"none", "top", "topFlush", "relLock", "relClose", "clear", "gen", "read",
   "checkRead", "checkGen", "idle", "idleDrop", "idleTimeout", "idleRound",
   "roundCompleted", "roundPlaying", "roundPending", "report", "chatTest",
   "chatRead", "sttRead", "compare", "send", "mark", "idleEnd", "first",
   "midFlush", "dropCheck", "openDevice", "publish", "process", "playLock",
   "playCheck", "play", "setChat", "setPlaying", "write", "inner",
   "innerFlush", "innerGen", "innerRead", "innerCheck", "innerDrop", "tail",
   "tailPending", "tailRound", "exit", "exited"}

Calls ==
  {"idle", "int1", "int2", "int3", "int4", "int5", "int6", "int7", "int8",
   "int9", "sub1", "sub2", "sub3", "sub4", "sub5", "sub6", "sub7", "sub8",
   "sub9", "stop2", "stop3", "stop4"}

Others ==
  /\ gen \in Nat /\ packetChat \in Nat /\ reported \in Nat
  /\ lock \in {"free", "player"} /\ pc \in Places
  /\ then \in {"top", "gen", "dropCheck", "tail", "idleRound", "idleEnd",
               "tailRound", "exit"}
  /\ readGen \in Nat /\ got \in {"frame", "none", "skip"} /\ chat \in Nat
  /\ w \in Calls /\ stt \in Nat /\ round \in Nat /\ net \in Nat
  /\ received \in Nat /\ requests \in Nat /\ starts \in Nat
  /\ sent \subseteq Nat /\ blanks \in Nat

LEMMA TwoTypes == TypeOK <=> Booleans /\ Others
BY DEF TypeOK, Booleans, Others, Places, Calls

LEMMA TypeInit == Init => Booleans /\ Others
<1>1. Init => Booleans
  BY Zenon DEF Init, Booleans
<1>2. Init => Others
  BY SMT DEF Init, Others, Places, Calls, NoChat
<1> QED BY <1>1, <1>2

\* The player thread.
LEMMA BooleansPlayer ==
  ASSUME Booleans, Player
  PROVE  Booleans'
<1> USE DEF Booleans, flags, device, locals, session, netVars, history, Goto,
       Release
<1>1. CASE Top
  <2>1. UNCHANGED <<flags, device, open, pend, completed, transport>>
    BY <1>1 DEF Top
  <2> QED BY <2>1, Zenon
<1>2. CASE TopFlush
  <2>1. UNCHANGED <<flags, device, open, pend, completed, transport>>
    BY <1>2 DEF TopFlush, FlushAt
  <2> QED BY <2>1, Zenon
<1>3. CASE ReleaseLock BY <1>3, Zenon DEF ReleaseLock
<1>4. CASE ReleaseClose BY <1>4, Zenon DEF ReleaseClose, CloseDevice
<1>5. CASE ClearFlush BY <1>5, Zenon DEF ClearFlush
<1>6. CASE CopyGeneration BY <1>6, Zenon DEF CopyGeneration
<1>7. CASE Read BY <1>7, Zenon DEF Read, HasPending, TakePacket
<1>8. CASE CheckRead
  <2>1. UNCHANGED <<flags, device, open, pend, completed, transport>>
    BY <1>8 DEF CheckRead, Judged
  <2> QED BY <2>1, Zenon
<1>9. CASE CheckGen BY <1>9, Zenon DEF CheckGen, Judged
<1>10. CASE SamplePending
  <2>1. pend' = (net > 0) /\ UNCHANGED <<flags, device, open, completed,
  transport>>
    BY <1>10 DEF SamplePending, HasPending
  <2>2. (net > 0) \in BOOLEAN
    OBVIOUS
  <2> QED BY <2>1, <2>2, Zenon
<1>11. CASE IdleDrop BY <1>11, Zenon DEF IdleDrop, StopDropping
<1>12. CASE IdleTimeout BY <1>12, Zenon DEF IdleTimeout
<1>13. CASE IdleNotYet BY <1>13, Zenon DEF IdleNotYet
<1>14. CASE RoundEnd BY <1>14, Zenon DEF RoundEnd
<1>15. CASE RoundDone
  <2>1. UNCHANGED <<flags, device, open, pend, completed, transport>>
    BY <1>15 DEF RoundDone
  <2> QED BY <2>1, Zenon
<1>16. CASE CurrentChat
  <2>1. UNCHANGED <<flags, device, open, pend, completed, transport>>
    BY <1>16 DEF CurrentChat
  <2> QED BY <2>1, Zenon
<1>17. CASE Report
  <2>1. UNCHANGED <<flags, device, open, pend, completed, transport>>
    BY <1>17 DEF Report
  <2> QED BY <2>1, Zenon
<1>18. CASE SendReport BY <1>18, Zenon DEF SendReport, Skip
<1>19. CASE MarkReported BY <1>19, Zenon DEF MarkReported, Skip
<1>20. CASE IdleEnd BY <1>20, Zenon DEF IdleEnd
<1>21. CASE FirstFrame BY <1>21, Zenon DEF FirstFrame
<1>22. CASE MidFlush
  <2>1. UNCHANGED <<flags, device, open, pend, completed, transport>>
    BY <1>22 DEF MidFlush, FlushAt
  <2> QED BY <2>1, Zenon
<1>23. CASE DropCheck BY <1>23, Zenon DEF DropCheck
<1>24. CASE OpenDevice BY <1>24, Zenon DEF OpenDevice
<1>25. CASE PublishDevice BY <1>25, Zenon DEF PublishDevice
<1>26. CASE Process BY <1>26, Zenon DEF Process
<1>27. CASE PlayLock BY <1>27, Zenon DEF PlayLock
<1>28. CASE PlayCheck BY <1>28, Zenon DEF PlayCheck, LeaveUnlocked
<1>29. CASE ReadStt BY <1>29, Zenon DEF ReadStt
<1>30. CASE SetPacketChat BY <1>30, Zenon DEF SetPacketChat
<1>31. CASE SetPlaying BY <1>31, Zenon DEF SetPlaying
<1>32. CASE WriteFrame BY <1>32, Zenon DEF WriteFrame
<1>33. CASE Inner BY <1>33, Zenon DEF Inner
<1>34. CASE InnerFlush
  <2>1. UNCHANGED <<flags, device, open, pend, completed, transport>>
    BY <1>34 DEF InnerFlush, FlushAt
  <2> QED BY <2>1, Zenon
<1>35. CASE InnerCheck
  <2>1. UNCHANGED <<flags, device, open, pend, completed, transport>>
    BY <1>35 DEF InnerCheck, Judged
  <2> QED BY <2>1, Zenon
<1>36. CASE InnerDrop BY <1>36, Zenon DEF InnerDrop, Judged
<1>37. CASE Tail BY <1>37, Zenon DEF Tail
<1>38. CASE TailPending
  <2>1. UNCHANGED <<flags, device, open, pend, completed, transport>>
    BY <1>38 DEF TailPending
  <2> QED BY <2>1, Zenon
<1>39. CASE Exit BY <1>39, Zenon DEF Exit
<1> QED
  BY <1>1, <1>2, <1>3, <1>4, <1>5, <1>6, <1>7, <1>8, <1>9, <1>10, <1>11,
     <1>12, <1>13, <1>14, <1>15, <1>16, <1>17, <1>18, <1>19, <1>20, <1>21,
     <1>22, <1>23, <1>24, <1>25, <1>26, <1>27, <1>28, <1>29, <1>30, <1>31,
     <1>32, <1>33, <1>34, <1>35, <1>36, <1>37, <1>38, <1>39
  DEF Player

LEMMA OthersPlayer ==
  ASSUME Others, Player
  PROVE  Others'
<1> USE DEF Others, Places, flags, device, locals, session, netVars, history,
       Goto, Release, NoChat
<1>1. CASE Top BY <1>1 DEF Top
<1>2. CASE TopFlush BY <1>2 DEF TopFlush, FlushAt
<1>3. CASE ReleaseLock BY <1>3 DEF ReleaseLock
<1>4. CASE ReleaseClose BY <1>4 DEF ReleaseClose, CloseDevice
<1>5. CASE ClearFlush BY <1>5 DEF ClearFlush
<1>6. CASE CopyGeneration BY <1>6 DEF CopyGeneration
<1>7. CASE Read BY <1>7 DEF Read, HasPending, TakePacket
<1>8. CASE CheckRead
  <2>1. /\ pc' \in {"relLock", "checkGen"} /\ then' \in {then, "exit"}
        /\ readGen' \in {0, readGen} /\ got' \in {"none", got}
    BY <1>8 DEF CheckRead, Judged
  <2>2. UNCHANGED <<flags, device, chat, w, session, netVars, history>>
    BY <1>8 DEF CheckRead, Judged
  <2> QED BY <2>1, <2>2
<1>9. CASE CheckGen BY <1>9 DEF CheckGen, Judged
<1>10. CASE SamplePending BY <1>10 DEF SamplePending
<1>11. CASE IdleDrop BY <1>11 DEF IdleDrop, StopDropping
<1>12. CASE IdleTimeout BY <1>12 DEF IdleTimeout
<1>13. CASE IdleNotYet BY <1>13 DEF IdleNotYet
<1>14. CASE RoundEnd BY <1>14 DEF RoundEnd
<1>15. CASE RoundDone BY <1>15 DEF RoundDone, TestAt, Skip
<1>16. CASE CurrentChat BY <1>16 DEF CurrentChat, TestAt, Skip
<1>17. CASE Report
  <2>1. /\ pc' \in Places /\ chat' \in Nat /\ blanks' \in Nat
        /\ then' \in {"top", "gen", "dropCheck", "tail", "idleRound",
                     "idleEnd", "tailRound", "exit"}
    BY <1>17 DEF Report, TestAt, Skip
  <2>2. UNCHANGED <<flags, device, open, readGen, got, pend, w, session,
                    netVars, received, requests, starts, sent>>
    BY <1>17 DEF Report
  <2> QED BY <2>1, <2>2
<1>18. CASE SendReport
  <2>1. sent' = sent \/ sent' = {} \/ sent' = sent \union {chat}
    BY <1>18 DEF SendReport
  <2>2. sent' \subseteq Nat
    BY <2>1
  <2>3. /\ pc' \in Places /\ chat' \in Nat
        /\ then' \in {"top", "gen", "dropCheck", "tail", "idleRound",
                     "idleEnd", "tailRound", "exit"}
    BY <1>18 DEF SendReport, Skip
  <2>4. UNCHANGED <<flags, device, open, readGen, got, pend, w, session,
                    netVars, received, requests, starts, blanks>>
    BY <1>18 DEF SendReport
  <2> QED BY <2>2, <2>3, <2>4
<1>19. CASE MarkReported BY <1>19 DEF MarkReported, Skip
<1>20. CASE IdleEnd BY <1>20 DEF IdleEnd
<1>21. CASE FirstFrame BY <1>21 DEF FirstFrame
<1>22. CASE MidFlush BY <1>22 DEF MidFlush, FlushAt
<1>23. CASE DropCheck BY <1>23 DEF DropCheck
<1>24. CASE OpenDevice BY <1>24 DEF OpenDevice
<1>25. CASE PublishDevice BY <1>25 DEF PublishDevice
<1>26. CASE Process BY <1>26 DEF Process
<1>27. CASE PlayLock BY <1>27 DEF PlayLock
<1>28. CASE PlayCheck BY <1>28 DEF PlayCheck, LeaveUnlocked
<1>29. CASE ReadStt BY <1>29 DEF ReadStt
<1>30. CASE SetPacketChat BY <1>30 DEF SetPacketChat
<1>31. CASE SetPlaying BY <1>31 DEF SetPlaying
<1>32. CASE WriteFrame BY <1>32 DEF WriteFrame
<1>33. CASE Inner BY <1>33 DEF Inner
<1>34. CASE InnerFlush BY <1>34 DEF InnerFlush, FlushAt
<1>35. CASE InnerCheck
  <2>1. /\ pc' \in {"inner", "innerDrop", "tail"} /\ then' = then
        /\ readGen' \in {0, readGen} /\ got' \in {"none", got}
    BY <1>35 DEF InnerCheck, Judged
  <2>2. UNCHANGED <<flags, device, chat, w, session, netVars, history>>
    BY <1>35 DEF InnerCheck, Judged
  <2> QED BY <2>1, <2>2
<1>36. CASE InnerDrop BY <1>36 DEF InnerDrop, Judged
<1>37. CASE Tail BY <1>37 DEF Tail
<1>38. CASE TailPending BY <1>38 DEF TailPending
<1>39. CASE Exit BY <1>39 DEF Exit
<1> QED
  BY <1>1, <1>2, <1>3, <1>4, <1>5, <1>6, <1>7, <1>8, <1>9, <1>10, <1>11,
     <1>12, <1>13, <1>14, <1>15, <1>16, <1>17, <1>18, <1>19, <1>20, <1>21,
     <1>22, <1>23, <1>24, <1>25, <1>26, <1>27, <1>28, <1>29, <1>30, <1>31,
     <1>32, <1>33, <1>34, <1>35, <1>36, <1>37, <1>38, <1>39
  DEF Player

\* The threads that call in, and the packets that come.
LEMMA BooleansCaller ==
  ASSUME Booleans, Caller \/ Receive
  PROVE  Booleans'
<1> USE DEF Booleans, Called, flags, device, locals, session, netVars, history
<1>1. CASE VadStart BY <1>1, Zenon DEF VadStart
<1>2. CASE InterruptFlags
  <2>1. flush' \in BOOLEAN
    BY <1>2, Zenon DEF InterruptFlags
  <2>2. playing' \in BOOLEAN
    BY <1>2, Zenon DEF InterruptFlags
  <2>3. drop' \in BOOLEAN
    BY <1>2, Zenon DEF InterruptFlags
  <2>4. lastAudio' \in BOOLEAN
    BY <1>2, Zenon DEF InterruptFlags
  <2>5. waitingFirst' \in BOOLEAN
    BY <1>2, Zenon DEF InterruptFlags
  <2>6. UNCHANGED <<running, device, open, pend, completed, transport>>
    BY <1>2 DEF InterruptFlags
  <2> QED BY <2>1, <2>2, <2>3, <2>4, <2>5, <2>6, Zenon
<1>3. CASE InterruptDevice BY <1>3, Zenon DEF InterruptDevice
<1>4. CASE InterruptTransport BY <1>4, Zenon DEF InterruptTransport
<1>5. CASE SubroundStart BY <1>5, Zenon DEF SubroundStart
<1>6. CASE SubroundFlags
  <2>1. flush' \in BOOLEAN
    BY <1>6, Zenon DEF SubroundFlags
  <2>2. drop' \in BOOLEAN
    BY <1>6, Zenon DEF SubroundFlags
  <2>3. waitingFirst' \in BOOLEAN
    BY <1>6, Zenon DEF SubroundFlags
  <2>4. lastAudio' \in BOOLEAN
    BY <1>6, Zenon DEF SubroundFlags
  <2>5. UNCHANGED <<running, playing, device, open, pend, completed,
  transport>>
    BY <1>6 DEF SubroundFlags
  <2> QED BY <2>1, <2>2, <2>3, <2>4, <2>5, Zenon
<1>7. CASE SubroundSession BY <1>7, Zenon DEF SubroundSession
<1>8. CASE SttCompleted BY <1>8, Zenon DEF SttCompleted
<1>9. CASE TtsCompleted BY <1>9, Zenon DEF TtsCompleted
<1>10. CASE Start BY <1>10, Zenon DEF Start
<1>11. CASE Stop
  <2>1. running' \in BOOLEAN /\ flush' \in BOOLEAN
    BY <1>11, Zenon DEF Stop
  <2>2. playing' \in BOOLEAN /\ drop' \in BOOLEAN
    BY <1>11, Zenon DEF Stop
  <2>3. waitingFirst' \in BOOLEAN /\ transport' \in BOOLEAN
    BY <1>11, Zenon DEF Stop
  <2>4. UNCHANGED <<lastAudio, device, open, pend, completed>>
    BY <1>11 DEF Stop
  <2> QED BY <2>1, <2>2, <2>3, <2>4, Zenon
<1>12. CASE Receive BY <1>12, Zenon DEF Receive
<1> QED
  BY <1>1, <1>2, <1>3, <1>4, <1>5, <1>6, <1>7, <1>8, <1>9, <1>10, <1>11,
     <1>12
  DEF Caller

LEMMA OthersCaller ==
  ASSUME Others, Caller \/ Receive
  PROVE  Others'
<1> USE DEF Others, Calls, Places, flags, device, locals, session, netVars,
       history, NoChat
<1>1. CASE VadStart BY <1>1 DEF VadStart, Called
<1>2. CASE InterruptFlags BY <1>2 DEF InterruptFlags, Called
<1>3. CASE InterruptDevice BY <1>3 DEF InterruptDevice, Called
<1>4. CASE InterruptTransport BY <1>4 DEF InterruptTransport, Called
<1>5. CASE SubroundStart BY <1>5 DEF SubroundStart, Called
<1>6. CASE SubroundFlags
  <2>1. sent' = sent \/ sent' = {}
    BY <1>6 DEF SubroundFlags
  <2>2. sent' \subseteq Nat
    BY <2>1
  <2>3. w' \in Calls
    BY <1>6 DEF SubroundFlags, Called
  <2>4. gen' \in Nat /\ packetChat' \in Nat /\ reported' \in Nat
    BY <1>6 DEF SubroundFlags
  <2>5. UNCHANGED <<pc, locals, device, session, netVars, received, requests,
                    starts, blanks>>
    BY <1>6 DEF SubroundFlags, Called
  <2> QED BY <2>2, <2>3, <2>4, <2>5
<1>7. CASE SubroundSession BY <1>7 DEF SubroundSession, Called
<1>8. CASE SttCompleted BY <1>8 DEF SttCompleted, Called
<1>9. CASE TtsCompleted BY <1>9 DEF TtsCompleted, Called
<1>10. CASE Start BY <1>10 DEF Start, Called
<1>11. CASE Stop BY <1>11 DEF Stop, Called
<1>12. CASE Receive BY <1>12 DEF Receive
<1> QED
  BY <1>1, <1>2, <1>3, <1>4, <1>5, <1>6, <1>7, <1>8, <1>9, <1>10, <1>11,
     <1>12
  DEF Caller

\* All of them.
LEMMA TypeStep == TypeOK /\ [Next]_vars => TypeOK'
<1> SUFFICES ASSUME Booleans, Others, [Next]_vars PROVE Booleans' /\ Others'
  BY DEF TypeOK, Booleans, Others, Places, Calls
<1>1. CASE Player
  BY <1>1, BooleansPlayer, OthersPlayer
<1>2. CASE Caller \/ Receive
  BY <1>2, BooleansCaller, OthersCaller
<1>3. CASE UNCHANGED vars
  <2>1. Booleans'
    BY <1>3, Zenon DEF vars, Booleans, flags, device, locals, session, netVars
  <2>2. Others'
    BY <1>3, SMT DEF vars, Others, flags, device, locals, session, netVars,
       history
  <2> QED BY <2>1, <2>2
<1> QED BY <1>1, <1>2, <1>3 DEF Next

-----------------------------------------------------------------------------
(* The device.                                                             *)

\* Three steps of the player concern the device, and no call does.
LEMMA DeviceUntouched ==
  ASSUME Others, Player, ~ReleaseClose, ~OpenDevice, ~PublishDevice
  PROVE  UNCHANGED <<active, open>> /\ pc' # "publish"
<1> USE DEF Others, Places, device, locals, Goto, Release, Judged
<1>1. CASE Top BY <1>1 DEF Top
<1>2. CASE TopFlush BY <1>2 DEF TopFlush, FlushAt
<1>3. CASE ReleaseLock BY <1>3 DEF ReleaseLock
<1>4. CASE ClearFlush BY <1>4 DEF ClearFlush
<1>5. CASE CopyGeneration BY <1>5 DEF CopyGeneration
<1>6. CASE Read BY <1>6 DEF Read
<1>7. CASE CheckRead BY <1>7 DEF CheckRead
<1>8. CASE CheckGen BY <1>8 DEF CheckGen
<1>9. CASE SamplePending BY <1>9 DEF SamplePending
<1>10. CASE IdleDrop BY <1>10 DEF IdleDrop
<1>11. CASE IdleTimeout BY <1>11 DEF IdleTimeout
<1>12. CASE IdleNotYet BY <1>12 DEF IdleNotYet
<1>13. CASE RoundEnd BY <1>13 DEF RoundEnd
<1>14. CASE RoundDone BY <1>14 DEF RoundDone, TestAt, Skip
<1>15. CASE CurrentChat BY <1>15 DEF CurrentChat, TestAt, Skip
<1>16. CASE Report BY <1>16 DEF Report, TestAt, Skip
<1>17. CASE SendReport BY <1>17 DEF SendReport, Skip
<1>18. CASE MarkReported BY <1>18 DEF MarkReported, Skip
<1>19. CASE IdleEnd BY <1>19 DEF IdleEnd
<1>20. CASE FirstFrame BY <1>20 DEF FirstFrame
<1>21. CASE MidFlush BY <1>21 DEF MidFlush, FlushAt
<1>22. CASE DropCheck BY <1>22 DEF DropCheck
<1>23. CASE Process BY <1>23 DEF Process
<1>24. CASE PlayLock BY <1>24 DEF PlayLock
<1>25. CASE PlayCheck BY <1>25 DEF PlayCheck
<1>26. CASE ReadStt BY <1>26 DEF ReadStt
<1>27. CASE SetPacketChat BY <1>27 DEF SetPacketChat
<1>28. CASE SetPlaying BY <1>28 DEF SetPlaying
<1>29. CASE WriteFrame BY <1>29 DEF WriteFrame
<1>30. CASE Inner BY <1>30 DEF Inner
<1>31. CASE InnerFlush BY <1>31 DEF InnerFlush, FlushAt
<1>32. CASE InnerCheck BY <1>32 DEF InnerCheck
<1>33. CASE InnerDrop BY <1>33 DEF InnerDrop
<1>34. CASE Tail BY <1>34 DEF Tail
<1>35. CASE TailPending BY <1>35 DEF TailPending
<1>36. CASE Exit BY <1>36 DEF Exit
<1> QED
  BY <1>1, <1>2, <1>3, <1>4, <1>5, <1>6, <1>7, <1>8, <1>9, <1>10, <1>11,
     <1>12, <1>13, <1>14, <1>15, <1>16, <1>17, <1>18, <1>19, <1>20, <1>21,
     <1>22, <1>23, <1>24, <1>25, <1>26, <1>27, <1>28, <1>29, <1>30, <1>31,
     <1>32, <1>33, <1>34, <1>35, <1>36
  DEF Player

\* Nor does a call report.
LEMMA CallsLeaveDevice ==
  ASSUME Caller \/ Receive
  PROVE  UNCHANGED <<active, open>> /\ (pc' = pc \/ pc' = "top")
<1> USE DEF device, locals, Called
<1>1. CASE VadStart BY <1>1 DEF VadStart
<1>2. CASE InterruptFlags BY <1>2 DEF InterruptFlags
<1>3. CASE InterruptDevice BY <1>3 DEF InterruptDevice
<1>4. CASE InterruptTransport BY <1>4 DEF InterruptTransport
<1>5. CASE SubroundStart BY <1>5 DEF SubroundStart
<1>6. CASE SubroundFlags BY <1>6 DEF SubroundFlags
<1>7. CASE SubroundSession BY <1>7 DEF SubroundSession
<1>8. CASE SttCompleted BY <1>8 DEF SttCompleted
<1>9. CASE TtsCompleted BY <1>9 DEF TtsCompleted
<1>10. CASE Start BY <1>10 DEF Start
<1>11. CASE Stop BY <1>11 DEF Stop
<1>12. CASE Receive BY <1>12 DEF Receive
<1> QED
  BY <1>1, <1>2, <1>3, <1>4, <1>5, <1>6, <1>7, <1>8, <1>9, <1>10, <1>11,
     <1>12
  DEF Caller

\* What is published is open, and what is open is closed only with it.
LEMMA DeviceStep ==
  ASSUME Booleans, Others, DeviceInv, [Next]_vars
  PROVE  DeviceInv'
<1>1. CASE ReleaseClose
  <2>1. open' = FALSE /\ active' = FALSE /\ pc' # "publish"
    BY <1>1, Zenon DEF ReleaseClose, CloseDevice, Others
  <2> QED BY <2>1, Zenon DEF DeviceInv
<1>2. CASE OpenDevice
  <2>1. UNCHANGED active
    BY <1>2 DEF OpenDevice, device
  <2>2. open' = TRUE \/ (UNCHANGED open /\ pc' # "publish")
    BY <1>2, Zenon DEF OpenDevice
  <2> QED BY <2>1, <2>2, Zenon DEF DeviceInv
<1>3. CASE PublishDevice
  <2>1. pc = "publish" /\ UNCHANGED open /\ pc' # "publish"
    BY <1>3 DEF PublishDevice, locals
  <2> QED BY <2>1, Zenon DEF DeviceInv
<1>4. CASE Player /\ ~ReleaseClose /\ ~OpenDevice /\ ~PublishDevice
  <2>1. UNCHANGED <<active, open>> /\ pc' # "publish"
    BY <1>4, DeviceUntouched
  <2> QED BY <2>1, Zenon DEF DeviceInv
<1>5. CASE Caller \/ Receive
  <2>1. UNCHANGED <<active, open>> /\ (pc' = pc \/ pc' # "publish")
    BY <1>5, CallsLeaveDevice
  <2> QED BY <2>1, Zenon DEF DeviceInv
<1>6. CASE UNCHANGED vars
  BY <1>6, Zenon DEF vars, device, locals, DeviceInv
<1> QED BY <1>1, <1>2, <1>3, <1>4, <1>5, <1>6 DEF Next

-----------------------------------------------------------------------------
(* Quiet.                                                                  *)

\* One step leads to a report, the one that finds that nothing plays, and only
\* one sets `playing`, which leads elsewhere.
LEMMA QuietPlayer ==
  ASSUME Others, QuietWhenReporting, Player
  PROVE  QuietWhenReporting'
<1> USE DEF QuietWhenReporting, Reporting, flags, Goto, Release, Judged
<1>1. CASE Top BY <1>1, Zenon DEF Top
<1>2. CASE TopFlush BY <1>2, Zenon DEF TopFlush, FlushAt
<1>3. CASE ReleaseLock BY <1>3, Zenon DEF ReleaseLock
<1>4. CASE ReleaseClose BY <1>4, Zenon DEF ReleaseClose, Others
<1>5. CASE ClearFlush BY <1>5, Zenon DEF ClearFlush, Others
<1>6. CASE CopyGeneration BY <1>6, Zenon DEF CopyGeneration
<1>7. CASE Read BY <1>7, Zenon DEF Read
<1>8. CASE CheckRead BY <1>8, Zenon DEF CheckRead, Others
<1>9. CASE CheckGen BY <1>9, Zenon DEF CheckGen, Others
<1>10. CASE SamplePending BY <1>10, Zenon DEF SamplePending
<1>11. CASE IdleDrop BY <1>11, Zenon DEF IdleDrop
<1>12. CASE IdleTimeout BY <1>12, Zenon DEF IdleTimeout
<1>13. CASE IdleNotYet BY <1>13, Zenon DEF IdleNotYet
<1>14. CASE RoundEnd BY <1>14, Zenon DEF RoundEnd
<1>15. CASE RoundDone BY <1>15, Zenon DEF RoundDone, TestAt, Skip, Silent,
   Others
<1>16. CASE CurrentChat BY <1>16, Zenon DEF CurrentChat, TestAt, Skip, Others
<1>17. CASE Report BY <1>17, Zenon DEF Report, TestAt, Skip, Others
<1>18. CASE SendReport BY <1>18, Zenon DEF SendReport, Skip, Others
<1>19. CASE MarkReported BY <1>19, Zenon DEF MarkReported, Skip, Others
<1>20. CASE IdleEnd BY <1>20, Zenon DEF IdleEnd
<1>21. CASE FirstFrame BY <1>21, Zenon DEF FirstFrame
<1>22. CASE MidFlush BY <1>22, Zenon DEF MidFlush, FlushAt
<1>23. CASE DropCheck BY <1>23, Zenon DEF DropCheck
<1>24. CASE OpenDevice BY <1>24, Zenon DEF OpenDevice
<1>25. CASE PublishDevice BY <1>25, Zenon DEF PublishDevice
<1>26. CASE Process BY <1>26, Zenon DEF Process
<1>27. CASE PlayLock BY <1>27, Zenon DEF PlayLock
<1>28. CASE PlayCheck BY <1>28, Zenon DEF PlayCheck
<1>29. CASE ReadStt BY <1>29, Zenon DEF ReadStt
<1>30. CASE SetPacketChat BY <1>30, Zenon DEF SetPacketChat
<1>31. CASE SetPlaying BY <1>31, Zenon DEF SetPlaying
<1>32. CASE WriteFrame BY <1>32, Zenon DEF WriteFrame
<1>33. CASE Inner BY <1>33, Zenon DEF Inner
<1>34. CASE InnerFlush BY <1>34, Zenon DEF InnerFlush, FlushAt
<1>35. CASE InnerCheck BY <1>35, Zenon DEF InnerCheck
<1>36. CASE InnerDrop BY <1>36, Zenon DEF InnerDrop
<1>37. CASE Tail BY <1>37, Zenon DEF Tail
<1>38. CASE TailPending BY <1>38, Zenon DEF TailPending
<1>39. CASE Exit BY <1>39, Zenon DEF Exit
<1> QED
  BY <1>1, <1>2, <1>3, <1>4, <1>5, <1>6, <1>7, <1>8, <1>9, <1>10, <1>11,
     <1>12, <1>13, <1>14, <1>15, <1>16, <1>17, <1>18, <1>19, <1>20, <1>21,
     <1>22, <1>23, <1>24, <1>25, <1>26, <1>27, <1>28, <1>29, <1>30, <1>31,
     <1>32, <1>33, <1>34, <1>35, <1>36, <1>37, <1>38, <1>39
  DEF Player

\* A call takes the mark down or leaves it.
LEMMA QuietCaller ==
  ASSUME QuietWhenReporting, Caller \/ Receive
  PROVE  QuietWhenReporting'
<1>1. pc' = pc \/ pc' = "top"
  BY CallsLeaveDevice
<1>2. playing' = FALSE \/ UNCHANGED playing
  BY Zenon DEF Caller, Receive, VadStart, InterruptFlags, InterruptDevice,
     InterruptTransport, SubroundStart, SubroundFlags, SubroundSession,
     SttCompleted, TtsCompleted, Start, Stop, flags
<1> QED BY <1>1, <1>2, Zenon DEF QuietWhenReporting, Reporting

-----------------------------------------------------------------------------
(* What is reported.                                                       *)

chats == <<stt, round, packetChat, reported, chat, sent, blanks>>

\* Where the player has a chat, or a reason to read one, in hand.
Hand == {"setChat", "chatRead", "sttRead", "compare", "send", "mark"}

\* The steps of the player that have to do with it are six.
LEMMA ChatUntouched ==
  ASSUME Others, Player, ~CurrentChat, ~Report, ~SendReport, ~MarkReported,
         ~ReadStt, ~SetPacketChat
  PROVE  UNCHANGED chats /\ pc \notin Hand /\ pc' \notin Hand
<1> USE DEF chats, Hand, Others, Places, flags, locals, session, history, Goto,
       Release, Judged
<1>1. CASE Top BY <1>1 DEF Top
<1>2. CASE TopFlush BY <1>2 DEF TopFlush, FlushAt
<1>3. CASE ReleaseLock BY <1>3 DEF ReleaseLock
<1>4. CASE ReleaseClose BY <1>4 DEF ReleaseClose
<1>5. CASE ClearFlush BY <1>5 DEF ClearFlush
<1>6. CASE CopyGeneration BY <1>6 DEF CopyGeneration
<1>7. CASE Read BY <1>7 DEF Read
<1>8. CASE CheckRead BY <1>8 DEF CheckRead
<1>9. CASE CheckGen BY <1>9 DEF CheckGen
<1>10. CASE SamplePending BY <1>10 DEF SamplePending
<1>11. CASE IdleDrop BY <1>11 DEF IdleDrop
<1>12. CASE IdleTimeout BY <1>12 DEF IdleTimeout
<1>13. CASE IdleNotYet BY <1>13 DEF IdleNotYet
<1>14. CASE RoundEnd BY <1>14 DEF RoundEnd
<1>15. CASE RoundDone BY <1>15 DEF RoundDone, TestAt, Skip
<1>16. CASE IdleEnd BY <1>16 DEF IdleEnd
<1>17. CASE FirstFrame BY <1>17 DEF FirstFrame
<1>18. CASE MidFlush BY <1>18 DEF MidFlush, FlushAt
<1>19. CASE DropCheck BY <1>19 DEF DropCheck
<1>20. CASE OpenDevice BY <1>20 DEF OpenDevice
<1>21. CASE PublishDevice BY <1>21 DEF PublishDevice
<1>22. CASE Process BY <1>22 DEF Process
<1>23. CASE PlayLock BY <1>23 DEF PlayLock
<1>24. CASE PlayCheck BY <1>24 DEF PlayCheck
<1>25. CASE SetPlaying BY <1>25 DEF SetPlaying
<1>26. CASE WriteFrame BY <1>26 DEF WriteFrame
<1>27. CASE Inner BY <1>27 DEF Inner
<1>28. CASE InnerFlush BY <1>28 DEF InnerFlush, FlushAt
<1>29. CASE InnerCheck BY <1>29 DEF InnerCheck
<1>30. CASE InnerDrop BY <1>30 DEF InnerDrop
<1>31. CASE Tail BY <1>31 DEF Tail
<1>32. CASE TailPending BY <1>32 DEF TailPending
<1>33. CASE Exit BY <1>33 DEF Exit
<1> QED
  BY <1>1, <1>2, <1>3, <1>4, <1>5, <1>6, <1>7, <1>8, <1>9, <1>10, <1>11,
     <1>12, <1>13, <1>14, <1>15, <1>16, <1>17, <1>18, <1>19, <1>20, <1>21,
     <1>22, <1>23, <1>24, <1>25, <1>26, <1>27, <1>28, <1>29, <1>30, <1>31,
     <1>32, <1>33
  DEF Player

\* A report is of a round that is later than any reported before.
LEMMA ChatPlayer ==
  ASSUME Others, ChatInv, Player
  PROVE  ChatInv'
<1>1. CASE CurrentChat
  <2>0. UNCHANGED <<stt, round, packetChat, reported, sent>>
    BY <1>1 DEF CurrentChat, flags, session, history
  <2>1. CASE pc = "chatTest"
    <3>1. /\ pc' = IF packetChat # NoChat THEN "chatRead" ELSE "sttRead"
          /\ UNCHANGED chat
      BY <1>1, <2>1 DEF CurrentChat, TestAt
    <3> QED BY <2>0, <2>1, <3>1 DEF ChatInv, Known
  <2>2. CASE pc = "chatRead"
    <3>1. pc' = "compare" /\ chat' = packetChat
      BY <1>1, <2>2 DEF CurrentChat, TestAt
    <3> QED BY <2>0, <2>2, <3>1 DEF ChatInv, Known, Others
  <2>3. CASE pc = "sttRead"
    <3>1. chat' = stt /\ pc' = IF stt # NoChat THEN "compare" ELSE then
      BY <1>1, <2>3 DEF CurrentChat, TestAt, Skip
    <3> QED BY <2>0, <2>3, <3>1 DEF ChatInv, Known, Others
  <2> QED BY <1>1, <2>1, <2>2, <2>3 DEF CurrentChat, TestAt
<1>2. CASE Report
  <2>1. pc = "compare" /\ UNCHANGED <<stt, round, packetChat, reported, sent>>
    BY <1>2 DEF Report, TestAt, flags, session
  <2>2. CASE chat # reported
    <3>1. pc' = "send" /\ UNCHANGED chat
      BY <1>2, <2>2 DEF Report, TestAt, IsNew
    <3>2. ASSUME chat # NoChat PROVE \A c \in sent : c < chat
      BY <2>1, <2>2, <3>2 DEF ChatInv, Known, Others
    <3> QED BY <2>1, <3>1, <3>2 DEF ChatInv, Known
  <2>3. CASE chat = reported
    <3>1. pc' = then /\ chat' = NoChat
      BY <1>2, <2>3 DEF Report, TestAt, Skip, IsNew
    <3> QED BY <2>1, <3>1 DEF ChatInv, Known, Others, NoChat
  <2> QED BY <2>2, <2>3
<1>3. CASE SendReport
  <2>1. pc = "send" /\ UNCHANGED <<stt, round, packetChat, reported>>
    BY <1>3 DEF SendReport, flags, session
  <2>2. CASE pc' = "mark"
    <3>1. /\ sent' = IF chat = NoChat THEN {} ELSE sent \union {chat}
          /\ UNCHANGED chat
      BY <1>3, <2>2 DEF SendReport, Skip, Others
    <3>2. CASE chat = NoChat
      BY <2>1, <2>2, <3>1, <3>2 DEF ChatInv, Known, Others, NoChat
    <3>3. CASE chat # NoChat
      <4>1. \A c \in sent' : c <= chat
        <5>1. \A c \in sent : c < chat
          BY <2>1, <3>3 DEF ChatInv
        <5>2. sent' = sent \union {chat} /\ chat \in Nat /\ sent \subseteq Nat
          BY <3>1, <3>3 DEF Others
        <5> QED BY <5>1, <5>2
      <4>2. packetChat # NoChat => chat <= packetChat
        BY <2>1 DEF ChatInv
      <4>3. Known' = chat
        BY <2>2, <3>1 DEF Known
      <4> QED BY <2>1, <2>2, <3>1, <4>1, <4>2, <4>3 DEF ChatInv
    <3> QED BY <3>2, <3>3
  <2>3. CASE pc' # "mark"
    <3>1. pc' = then /\ chat' = NoChat /\ UNCHANGED sent
      BY <1>3, <2>3 DEF SendReport, Skip
    <3> QED BY <2>1, <3>1 DEF ChatInv, Known, Others, NoChat
  <2> QED BY <2>2, <2>3
<1>4. CASE MarkReported
  <2>1. /\ pc = "mark" /\ UNCHANGED <<stt, round, packetChat, sent>>
        /\ reported' = chat /\ chat' = NoChat /\ pc' = then
    BY <1>4 DEF MarkReported, Skip, session, history
  <2> QED BY <2>1 DEF ChatInv, Known, Others, NoChat
<1>5. CASE ReadStt
  <2>1. /\ pc = "play" /\ UNCHANGED <<stt, round, packetChat, reported, sent>>
        /\ chat' = stt /\ pc' = "setChat"
    BY <1>5 DEF ReadStt, flags, session, history
  <2> QED BY <2>1 DEF ChatInv, Known, Others, NoChat
<1>6. CASE SetPacketChat
  <2>1. /\ pc = "setChat" /\ UNCHANGED <<stt, round, reported, sent>>
        /\ packetChat' = IF chat # NoChat THEN chat ELSE packetChat
        /\ chat' = NoChat /\ pc' = "setPlaying"
    BY <1>6 DEF SetPacketChat, session, history
  <2> QED BY <2>1 DEF ChatInv, Known, Others, NoChat
<1>7. CASE /\ ~CurrentChat /\ ~Report /\ ~SendReport /\ ~MarkReported
           /\ ~ReadStt /\ ~SetPacketChat
  <2>1. /\ UNCHANGED <<stt, round, packetChat, reported, chat, sent>>
        /\ pc \notin Hand /\ pc' \notin Hand
    BY <1>7, ChatUntouched DEF chats
  <2> QED BY <2>1 DEF ChatInv, Known, Hand
<1> QED BY <1>1, <1>2, <1>3, <1>4, <1>5, <1>6, <1>7

\* The player decides on a report of no chat only with one in hand, and gets
\* it in hand only from an interrupt or a sub-round.
LEMMA BlankPlayer ==
  ASSUME Others, BlankInv, Player
  PROVE  BlankInv'
<1>0. UNCHANGED <<w, requests>>
  BY DEF Player, Top, TopFlush, FlushAt, ReleaseLock, ReleaseClose, ClearFlush,
     CopyGeneration, Read, CheckRead, CheckGen, SamplePending, IdleDrop,
     IdleTimeout, IdleNotYet, RoundEnd, RoundDone, CurrentChat, Report,
     SendReport, MarkReported, IdleEnd, FirstFrame, MidFlush, DropCheck,
     OpenDevice, PublishDevice, Process, PlayLock, PlayCheck, ReadStt,
     SetPacketChat, SetPlaying, WriteFrame, Inner, InnerFlush, InnerCheck,
     InnerDrop, Tail, TailPending, Exit, Goto, Release, Judged, history
<1> USE <1>0 DEF BlankInv, InHand, ToCome, Others
<1>1. CASE CurrentChat
  <2>1. UNCHANGED <<packetChat, blanks>>
    BY <1>1 DEF CurrentChat, flags, history
  <2>2. CASE pc = "chatTest"
    <3>1. pc' = IF packetChat # NoChat THEN "chatRead" ELSE "sttRead"
      BY <1>1, <2>2 DEF CurrentChat, TestAt
    <3> QED BY <2>1, <2>2, <3>1
  <2>3. CASE pc = "chatRead"
    <3>1. pc' = "compare" /\ chat' = packetChat
      BY <1>1, <2>3 DEF CurrentChat, TestAt
    <3> QED BY <2>1, <2>3, <3>1
  <2>4. CASE pc = "sttRead"
    <3>1. chat' = stt /\ pc' = IF stt # NoChat THEN "compare" ELSE then
      BY <1>1, <2>4 DEF CurrentChat, TestAt, Skip
    <3> QED BY <2>1, <2>4, <3>1
  <2> QED BY <1>1, <2>2, <2>3, <2>4 DEF CurrentChat, TestAt
<1>2. CASE Report
  <2>1. pc = "compare" /\ UNCHANGED packetChat
    BY <1>2 DEF Report, TestAt, flags
  <2>2. pc' \in {then, "send"}
    BY <1>2 DEF Report, TestAt, Skip
  <2>3. blanks' = blanks \/ (chat = NoChat /\ blanks' = blanks + 1)
    BY <1>2 DEF Report
  <2> QED BY <2>1, <2>2, <2>3
<1>3. CASE SendReport \/ MarkReported
  <2>1. UNCHANGED <<packetChat, blanks>> /\ pc' \in {then, "mark"}
    BY <1>3 DEF SendReport, MarkReported, Skip, flags, history
  <2> QED BY <2>1
<1>4. CASE ReadStt \/ SetPacketChat
  <2>1. UNCHANGED blanks /\ pc' \in {"setChat", "setPlaying"}
    BY <1>4 DEF ReadStt, SetPacketChat, history
  <2> QED BY <2>1
<1>5. CASE /\ ~CurrentChat /\ ~Report /\ ~SendReport /\ ~MarkReported
           /\ ~ReadStt /\ ~SetPacketChat
  <2>1. UNCHANGED chats /\ pc \notin Hand /\ pc' \notin Hand
    BY <1>5, ChatUntouched
  <2> QED BY <2>1 DEF chats, Hand
<1> QED BY <1>1, <1>2, <1>3, <1>4, <1>5

\* What a call does to all this.
LEMMA CallsOnChats ==
  ASSUME Caller \/ Receive
  PROVE  /\ \/ UNCHANGED chats
            \/ stt' = NoChat
               /\ UNCHANGED <<round, packetChat, reported, chat, sent, blanks>>
            \/ packetChat' = NoChat
               /\ UNCHANGED <<stt, round, reported, chat, sent, blanks>>
            \/ /\ reported' = NoChat /\ sent' = {}
               /\ UNCHANGED <<stt, round, packetChat, chat, blanks>>
            \/ /\ packetChat' = NoChat /\ reported' = NoChat /\ sent' = {}
               /\ UNCHANGED <<stt, round, chat, blanks>>
            \/ /\ round' = round + 1 /\ stt' = round'
               /\ UNCHANGED <<packetChat, reported, chat, sent, blanks>>
         /\ pc' = pc \/ (pc' = "top" /\ pc \in {"none", "exited"})
BY DEF Caller, Receive, VadStart, InterruptFlags, InterruptDevice,
   InterruptTransport, SubroundStart, SubroundFlags, SubroundSession,
   SttCompleted, TtsCompleted, Start, Stop, Called, chats, flags, locals,
   session, history

\* The session only goes on to later rounds, and forgets.
LEMMA ChatCaller ==
  ASSUME Others, ChatInv, Caller \/ Receive
  PROVE  ChatInv'
<1>0. pc' = pc \/ (pc' = "top" /\ pc \in {"none", "exited"})
  BY CallsOnChats
<1>1. CASE UNCHANGED chats
  BY <1>0, <1>1 DEF ChatInv, Known, chats
<1>2. CASE stt' = NoChat
           /\ UNCHANGED <<round, packetChat, reported, chat, sent, blanks>>
  BY <1>0, <1>2 DEF ChatInv, Known
<1>3. CASE packetChat' = NoChat
           /\ UNCHANGED <<stt, round, reported, chat, sent, blanks>>
  BY <1>0, <1>3 DEF ChatInv, Known, Others, NoChat
<1>4. CASE /\ reported' = NoChat /\ sent' = {}
           /\ UNCHANGED <<stt, round, packetChat, chat, blanks>>
  BY <1>0, <1>4 DEF ChatInv, Known, Others, NoChat
<1>5. CASE /\ packetChat' = NoChat /\ reported' = NoChat /\ sent' = {}
           /\ UNCHANGED <<stt, round, chat, blanks>>
  BY <1>0, <1>5 DEF ChatInv, Known, Others, NoChat
<1>6. CASE /\ round' = round + 1 /\ stt' = round'
           /\ UNCHANGED <<packetChat, reported, chat, sent, blanks>>
  BY <1>0, <1>6 DEF ChatInv, Known, Others, NoChat
<1> QED BY <1>1, <1>2, <1>3, <1>4, <1>5, <1>6, CallsOnChats

\* A call has one cut to its account from its start until it has made the
\* packets' chat be forgotten.
LEMMA BlankCaller ==
  ASSUME Others, BlankInv, Caller \/ Receive
  PROVE  BlankInv'
<1> USE DEF BlankInv, InHand, ToCome, Others
<1>1. UNCHANGED <<chat, blanks>>
  BY CallsOnChats DEF chats
<1>2. pc' = pc \/ (pc' = "top" /\ pc \in {"none", "exited"})
  BY CallsOnChats
<1>3. CASE VadStart \/ SubroundStart
  <2>1. /\ w = "idle" /\ requests' = requests + 1 /\ UNCHANGED packetChat
        /\ w' \in {"int1", "sub1"}
    BY <1>3 DEF VadStart, SubroundStart, Called, flags
  <2> QED BY <1>1, <1>2, <2>1
<1>4. CASE InterruptFlags
  <2>1. UNCHANGED requests
    BY <1>4 DEF InterruptFlags, history
  <2>2. \/ w \in {"int1", "int2", "int3", "int4", "int5", "int7"}
           /\ UNCHANGED packetChat
           /\ (w' \in {"int2", "int3", "int4", "int5", "int6"} \/ w = "int7")
           /\ w' # "sub1" /\ (w = "int7" => w' = "int8")
        \/ w = "int6" /\ w' = "int7"
    BY <1>4 DEF InterruptFlags, Called
  <2> QED BY <1>1, <1>2, <2>1, <2>2
<1>5. CASE SubroundFlags
  <2>1. UNCHANGED requests
    BY <1>5 DEF SubroundFlags
  <2>2. \/ /\ w \in {"sub1", "sub2", "sub3", "sub4"} /\ UNCHANGED packetChat
           /\ w' \in {"sub2", "sub3", "sub4", "sub5"}
        \/ w = "sub5" /\ w' = "sub6"
        \/ /\ w \in {"sub6", "sub7"} /\ w' \in {"sub7", "sub8"}
           /\ UNCHANGED packetChat
    BY <1>5 DEF SubroundFlags, Called
  <2> QED BY <1>1, <1>2, <2>1, <2>2
<1>6. CASE Start
  <2>1. /\ pc \in {"none", "exited"} /\ pc' \in {pc, "top"}
        /\ UNCHANGED <<w, requests>>
    BY <1>6 DEF Start
  <2> QED BY <1>1, <2>1
<1>7. CASE \/ InterruptDevice \/ InterruptTransport \/ SubroundSession
           \/ SttCompleted \/ TtsCompleted \/ Stop \/ Receive
  <2>1. UNCHANGED <<packetChat, requests>>
    BY <1>7 DEF InterruptDevice, InterruptTransport, SubroundSession,
       SttCompleted, TtsCompleted, Stop, Receive, flags, history
  <2>2. w' = w \/ w' \in {"idle", "int9", "sub9", "stop2", "stop3", "stop4"}
    BY <1>7 DEF InterruptDevice, InterruptTransport, SubroundSession,
       SttCompleted, TtsCompleted, Stop, Receive, Called
  <2> QED BY <1>1, <1>2, <2>1, <2>2
<1> QED BY <1>3, <1>4, <1>5, <1>6, <1>7 DEF Caller

-----------------------------------------------------------------------------
(* The theorems.                                                           *)

\* The strengthened invariant holds in every reachable state.
THEOREM TtsInductive == Spec => []IInv
<1>1. Init => IInv
  <2>1. Init => TypeOK
    BY TypeInit, TwoTypes
  <2>2. Init => DeviceInv /\ QuietWhenReporting
    BY Zenon DEF Init, DeviceInv, QuietWhenReporting
  <2>3. Init => ChatInv /\ BlankInv
    BY DEF Init, ChatInv, Known, NoChat, BlankInv, InHand, ToCome
  <2> QED BY <2>1, <2>2, <2>3 DEF IInv
<1>2. ASSUME IInv, [Next]_vars PROVE IInv'
  <2>1. Booleans /\ Others
    BY <1>2, TwoTypes DEF IInv
  <2>2. TypeOK'
    BY <1>2, TypeStep DEF IInv
  <2>3. DeviceInv'
    BY <1>2, <2>1, DeviceStep DEF IInv
  <2>4. QuietWhenReporting' /\ ChatInv' /\ BlankInv'
    <3>1. CASE Player
      BY <1>2, <2>1, <3>1, QuietPlayer, ChatPlayer, BlankPlayer DEF IInv
    <3>2. CASE Caller \/ Receive
      BY <1>2, <2>1, <3>2, QuietCaller, ChatCaller, BlankCaller DEF IInv
    <3>3. CASE UNCHANGED vars
      <4>1. UNCHANGED <<pc, playing, stt, round, packetChat, reported, chat,
                        sent, blanks, requests, w>>
        BY <3>3 DEF vars, flags, locals, session, history
      <4>2. QuietWhenReporting'
        BY <1>2, <4>1, Zenon DEF IInv, QuietWhenReporting
      <4>3. ChatInv' /\ BlankInv'
        BY <1>2, <4>1 DEF IInv, ChatInv, Known, BlankInv, InHand, ToCome
      <4> QED BY <4>2, <4>3
    <3> QED BY <1>2, <3>1, <3>2, <3>3 DEF Next
  <2> QED BY <2>2, <2>3, <2>4 DEF IInv
<1> QED BY <1>1, <1>2, PTL DEF Spec

\* Every variable has its type.
THEOREM TtsTypeCorrect == Spec => []TypeOK
<1>1. IInv => TypeOK
  BY DEF IInv
<1> QED BY <1>1, TtsInductive, PTL

\* The device that an interrupting thread flushes is one that is open.
THEOREM FlushedIsOpen == Spec => []FlushedDeviceIsOpen
<1>1. IInv => FlushedDeviceIsOpen
  BY DEF IInv, DeviceInv, FlushedDeviceIsOpen
<1> QED BY <1>1, TtsInductive, PTL

\* The end of a round is reported at most once, for any number of rounds,
\* interrupts and failed reports, until a sub-round or a report of no chat
\* clears the record.
THEOREM ReportedOnce == Spec => []StopReportedOnce
<1>1. IInv => StopReportedOnce
  <2>1. ASSUME IInv, pc = "send", chat # NoChat PROVE chat \notin sent
    <3>1. chat \in Nat
      BY <2>1 DEF IInv, TypeOK
    <3>2. \A c \in sent : c < chat
      BY <2>1 DEF IInv, ChatInv
    <3> QED BY <3>1, <3>2
  <2> QED BY <2>1 DEF StopReportedOnce
<1> QED BY <1>1, TtsInductive, PTL

\* Nothing plays while a report is made.
THEOREM ReportsAreQuiet == Spec => []QuietWhenReporting
<1>1. IInv => QuietWhenReporting
  BY DEF IInv
<1> QED BY <1>1, TtsInductive, PTL

-----------------------------------------------------------------------------
(* The refinement: what the server is told is that of RoundReports.        *)

\* Nothing of it changes but by the steps about chats and the three that set
\* the mark.
LEMMA PlayingUntouched ==
  ASSUME Player, ~ReleaseClose, ~SetPlaying, ~Exit
  PROVE  UNCHANGED playing
<1> USE DEF flags, Goto, Release, Judged
<1>1. CASE \/ Top \/ TopFlush \/ ReleaseLock \/ ClearFlush \/ CopyGeneration
           \/ Read \/ CheckRead \/ CheckGen \/ SamplePending \/ IdleDrop 
           \/ IdleTimeout \/ IdleNotYet \/ RoundEnd
  BY <1>1, Zenon DEF Top, TopFlush, ReleaseLock, ClearFlush, CopyGeneration,
     Read, CheckRead, CheckGen, SamplePending, IdleDrop, IdleTimeout,
     IdleNotYet, RoundEnd, FlushAt
<1>2. CASE \/ RoundDone \/ CurrentChat \/ Report \/ SendReport 
           \/ MarkReported \/ IdleEnd \/ FirstFrame \/ MidFlush \/ DropCheck 
           \/ OpenDevice \/ PublishDevice \/ Process \/ PlayLock
  BY <1>2, Zenon DEF RoundDone, CurrentChat, Report, SendReport, MarkReported,
     IdleEnd, FirstFrame, MidFlush, DropCheck, OpenDevice, PublishDevice,
     Process, PlayLock, FlushAt
<1>3. CASE \/ PlayCheck \/ ReadStt \/ SetPacketChat \/ WriteFrame \/ Inner
           \/ InnerFlush \/ InnerCheck \/ InnerDrop \/ Tail \/ TailPending
  BY <1>3, Zenon DEF PlayCheck, ReadStt, SetPacketChat, WriteFrame, Inner,
     InnerFlush, InnerCheck, InnerDrop, Tail, TailPending, FlushAt
<1> QED BY <1>1, <1>2, <1>3 DEF Player

\* Every step of the player is one of RoundReports or none.
LEMMA PlayerReports ==
  ASSUME IInv, Others, Player
  PROVE  Reports!Next \/ UNCHANGED Reports!vars
<1> USE DEF Reports!vars, Telling, Told
<1>0. UNCHANGED requests
  BY DEF Player, Top, TopFlush, FlushAt, ReleaseLock, ReleaseClose, ClearFlush,
     CopyGeneration, Read, CheckRead, CheckGen, SamplePending, IdleDrop,
     IdleTimeout, IdleNotYet, RoundEnd, RoundDone, CurrentChat, Report,
     SendReport, MarkReported, IdleEnd, FirstFrame, MidFlush, DropCheck,
     OpenDevice, PublishDevice, Process, PlayLock, PlayCheck, ReadStt,
     SetPacketChat, SetPlaying, WriteFrame, Inner, InnerFlush, InnerCheck,
     InnerDrop, Tail, TailPending, Exit, Goto, Release, Judged, history
<1>1. CASE Report
  <2>1. pc = "compare" /\ UNCHANGED <<round, playing, sent>>
    BY <1>1 DEF Report, TestAt, flags, session
  <2>2. CASE chat # reported /\ chat # NoChat
    <3>1. pc' = "send" /\ UNCHANGED <<chat, blanks>>
      BY <1>1, <2>2 DEF Report, TestAt, IsNew
    <3>2. chat \in 1..round
      BY <2>2 DEF IInv, ChatInv, Others, NoChat
    <3>3. \A c \in sent : c < chat
      BY <2>1, <2>2 DEF IInv, ChatInv, Known, Others
    <3>4. ~playing
      BY <2>1 DEF IInv, QuietWhenReporting, Reporting
    <3>5. Reports!Decide
      BY <1>0, <2>1, <3>1, <3>2, <3>3, <3>4 DEF Reports!Decide
    <3> QED BY <3>5 DEF Reports!Next
  <2>3. CASE chat # reported /\ chat = NoChat
    <3>1. pc' = "send" /\ UNCHANGED chat /\ blanks' = blanks + 1
      BY <1>1, <2>3 DEF Report, TestAt, IsNew
    <3>2. blanks < requests
      BY <2>1, <2>3 DEF IInv, BlankInv, InHand, ToCome, Others
    <3>3. ~playing
      BY <2>1 DEF IInv, QuietWhenReporting, Reporting
    <3>4. Reports!DecideBlank
      BY <1>0, <2>1, <2>3, <3>1, <3>2, <3>3 DEF Reports!DecideBlank, NoChat
    <3> QED BY <3>4 DEF Reports!Next
  <2>4. CASE chat = reported
    <3>1. pc' = then /\ UNCHANGED blanks
      BY <1>1, <2>4 DEF Report, TestAt, Skip, IsNew
    <3> QED BY <1>0, <2>1, <3>1 DEF Others
  <2> QED BY <2>2, <2>3, <2>4
<1>2. CASE SendReport
  <2>1. pc = "send" /\ UNCHANGED <<round, playing, blanks>>
    BY <1>2 DEF SendReport, flags, session
  <2>2. CASE pc' = "mark"
    <3>1. sent' = IF chat = NoChat THEN {} ELSE sent \union {chat}
      BY <1>2, <2>2 DEF SendReport, Skip, Others
    <3> QED BY <1>0, <2>1, <2>2, <3>1 DEF Reports!Tell, Reports!Next, NoChat
  <2>3. CASE pc' # "mark"
    <3>1. pc' = then /\ UNCHANGED sent
      BY <1>2, <2>3 DEF SendReport, Skip
    <3>2. pc' # "send"
      BY <3>1 DEF Others
    <3> QED BY <1>0, <2>1, <3>1, <3>2 DEF Reports!Fail, Reports!Next, NoChat
  <2> QED BY <2>2, <2>3
<1>3. CASE CurrentChat \/ MarkReported \/ ReadStt \/ SetPacketChat
  <2>1. /\ UNCHANGED <<round, playing, sent, blanks>>
        /\ pc # "send"
        /\ pc' \in {"chatRead", "sttRead", "compare", "setChat",
                     "setPlaying", then}
    BY <1>3 DEF CurrentChat, MarkReported, ReadStt, SetPacketChat, TestAt,
       Skip, flags, session, history
  <2> QED BY <1>0, <2>1 DEF Others
<1>4. CASE SetPlaying
  <2>1. /\ pc = "setPlaying" /\ UNCHANGED <<round, sent, blanks>>
        /\ playing' = TRUE /\ pc' = "write"
    BY <1>4 DEF SetPlaying, session, history
  <2> QED BY <1>0, <2>1 DEF Reports!Play, Reports!Next
<1>5. CASE /\ ~Report /\ ~SendReport /\ ~MarkReported /\ ~SetPlaying
           /\ ~CurrentChat /\ ~ReadStt /\ ~SetPacketChat
  <2>1. /\ UNCHANGED <<round, sent, blanks>>
        /\ pc # "send" /\ pc' # "send"
    BY <1>5, ChatUntouched DEF chats, Hand
  <2>2. CASE ReleaseClose \/ Exit
    <3>1. playing' = FALSE
      BY <2>2 DEF ReleaseClose, Exit
    <3> QED BY <1>0, <2>1, <3>1 DEF Reports!Silence, Reports!Next
  <2>3. CASE ~ReleaseClose /\ ~Exit
    <3>1. UNCHANGED playing
      BY <1>5, <2>3, PlayingUntouched
    <3> QED BY <1>0, <2>1, <3>1
  <2> QED BY <2>2, <2>3
<1> QED BY <1>1, <1>2, <1>3, <1>4, <1>5

\* So is every step of a call.
LEMMA CallerReports ==
  ASSUME Caller \/ Receive
  PROVE  Reports!Next \/ UNCHANGED Reports!vars
<1> USE DEF Reports!vars, Telling, Told
<1>1. playing' = FALSE \/ UNCHANGED playing
  BY Zenon DEF Caller, Receive, VadStart, InterruptFlags, InterruptDevice,
     InterruptTransport, SubroundStart, SubroundFlags, SubroundSession,
     SttCompleted, TtsCompleted, Start, Stop, flags
<1>2. /\ pc' = pc \/ (pc' = "top" /\ pc \in {"none", "exited"})
      /\ UNCHANGED <<chat, blanks>>
  BY CallsOnChats DEF chats
<1>3. UNCHANGED <<Telling, Told>>
  BY <1>2
<1>4. CASE VadStart \/ SubroundStart
  <2>1. requests' = requests + 1 /\ UNCHANGED <<round, playing, sent>>
    BY <1>4 DEF VadStart, SubroundStart, flags, session
  <2> QED BY <1>2, <1>3, <2>1 DEF Reports!Cut, Reports!Next
<1>5. CASE SttCompleted
  <2>1. round' = round + 1 /\ UNCHANGED <<requests, playing, sent>>
    BY <1>5 DEF SttCompleted, flags, history
  <2> QED BY <1>2, <1>3, <2>1 DEF Reports!Recognize, Reports!Next
<1>6. CASE \/ InterruptFlags \/ InterruptDevice \/ InterruptTransport
           \/ SubroundFlags \/ SubroundSession \/ TtsCompleted \/ Start
           \/ Stop \/ Receive
  <2>1. UNCHANGED <<round, requests>> /\ (sent' = {} \/ UNCHANGED sent)
    BY <1>6 DEF InterruptFlags, InterruptDevice, InterruptTransport,
       SubroundFlags, SubroundSession, TtsCompleted, Start, Stop, Receive,
       session, history
  <2>2. CASE sent' = {}
    <3>1. playing' \in {playing, FALSE}
      BY <1>1
    <3> QED BY <1>2, <1>3, <2>1, <2>2, <3>1 DEF Reports!Forget, Reports!Next
  <2>3. CASE UNCHANGED sent
    <3>1. CASE playing' = FALSE
      BY <1>2, <1>3, <2>1, <2>3, <3>1 DEF Reports!Silence, Reports!Next
    <3> QED BY <1>1, <1>2, <1>3, <2>1, <2>3, <3>1
  <2> QED BY <2>1, <2>2, <2>3
<1> QED BY <1>4, <1>5, <1>6 DEF Caller

\* The server is told of each round once and in their order, while nothing is
\* played, and of no round at most once for each time the speech was cut off:
\* the player implements RoundReports.
THEOREM PlayerKeepsToReports == Spec => ReportsSpec
<1>1. Init => Reports!Init
  BY DEF Init, Reports!Init, Telling, Told, NoChat
<1>2. ASSUME IInv, [Next]_vars
      PROVE  [Reports!Next]_(Reports!vars)
  <2>1. Others
    BY <1>2, TwoTypes DEF IInv
  <2>2. CASE UNCHANGED vars
    BY <2>2 DEF vars, flags, locals, session, history, Reports!vars, Telling,
       Told
  <2> QED BY <1>2, <2>1, <2>2, PlayerReports, CallerReports DEF Next
<1> QED
  BY <1>1, <1>2, TtsInductive, PTL DEF Spec, ReportsSpec, Reports!Spec
=============================================================================
