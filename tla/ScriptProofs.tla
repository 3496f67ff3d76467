----------------------------- MODULE ScriptProofs -----------------------------
(* What is proved of the board's scripts: of Supervisor, for any number of *)
(* scripts, supervisors, runs and kills, and of Update, for any number of  *)
(* power cuts.                                                             *)
EXTENDS Supervisor, Update, TLAPS

-----------------------------------------------------------------------------
(* Supervisor.                                                             *)

\* The inductive invariant.
IInv == TypeOK /\ TidyInv /\ AloneInv

-----------------------------------------------------------------------------
(* Types.                                                                  *)

\* Every start of the system is well typed.
LEMMA TypeInit == Init => TypeOK
<1> SUFFICES ASSUME Init PROVE TypeOK
  OBVIOUS
<1>1. /\ lock \in BOOLEAN /\ whole \in BOOLEAN
      /\ alone \in BOOLEAN /\ tidy \in BOOLEAN
      /\ pidFile \in Pids \cup {NoPid}
  BY DEF Init
<1>2. at \in [Scripts -> Places]
  BY DEF Init, Places
<1>3. /\ command \in [Scripts -> Commands]
      /\ forked \in [Scripts -> Pids \cup {NoPid}]
      /\ listed \in [Scripts -> SUBSET Processes]
  BY DEF Init, Commands
<1>4. /\ sup \in [Pids -> {"none", "forked"} \cup Running]
      /\ client \in [Pids -> {"none", "forked", "up"}]
  BY DEF Init
<1>5. runs \in 0..MaxRuns /\ kills \in 0..MaxKills
  BY BoundsAssumption DEF Init
<1> QED BY <1>1, <1>2, <1>3, <1>4, <1>5 DEF TypeOK

\* Supervisors and their clients keep the types.
LEMMA TypeSupervise ==
  ASSUME TypeOK, NEW s \in Pids, Supervise(s) \/ ClientLoads(s) \/ ClientExits(s)
  PROVE  TypeOK'
BY DEF TypeOK, Supervise, Loads, Prepare, Launch, NoFaceDir, Relaunch, Goes,
       ClientLoads, ClientExits, Running, scriptVars, supVars

\* A script moves from place to place.
LEMMA TypeMove ==
  ASSUME TypeOK, NEW x \in Scripts, NEW from, NEW to \in Places,
         Move(x, from, to)
  PROVE  at' \in [Scripts -> Places]
BY DEF TypeOK, Move

\* So does every step of a start.
LEMMA TypeStart ==
  ASSUME TypeOK, NEW x \in Scripts, Start(x),
         UNCHANGED <<whole, runs, kills, alone>>
  PROVE  TypeOK'
<1>1. at' \in [Scripts -> Places]
  BY TypeMove DEF Start, TakeLock, JudgeLock, ClearLock, RemoveLock,
     RetakeLock, CheckRunning, DropPidFile, Fork, Record, Leave, Places,
     StartPlaces
<1>2. lock' \in BOOLEAN
  BY DEF TypeOK, Start, TakeLock, JudgeLock, ClearLock, RemoveLock,
     RetakeLock, CheckRunning, DropPidFile, Fork, Record, Leave
<1>3. pidFile' \in Pids \cup {NoPid}
  BY DEF TypeOK, Start, TakeLock, JudgeLock, ClearLock, RemoveLock,
     RetakeLock, CheckRunning, DropPidFile, Fork, Record, Leave
<1>4. forked' \in [Scripts -> Pids \cup {NoPid}]
  BY DEF TypeOK, Start, TakeLock, JudgeLock, ClearLock, RemoveLock,
     RetakeLock, CheckRunning, DropPidFile, Fork, Record, Leave
<1>5. sup' \in [Pids -> {"none", "forked"} \cup Running]
  BY DEF TypeOK, Start, TakeLock, JudgeLock, ClearLock, RemoveLock,
     RetakeLock, CheckRunning, DropPidFile, Fork, Record, Leave, supVars
<1>6. UNCHANGED <<command, listed, client, tidy>>
  BY DEF Start, TakeLock, JudgeLock, ClearLock, RemoveLock,
     RetakeLock, CheckRunning, DropPidFile, Fork, Record, Leave, supVars
<1> QED BY <1>1, <1>2, <1>3, <1>4, <1>5, <1>6 DEF TypeOK

\* What a list may hold.
LEMMA TypeLists ==
  ASSUME NEW x \in Scripts
  PROVE  Daemons \subseteq Processes /\ Related(x) \subseteq Processes
BY DEF Daemons, Related, Others, Processes, Sup, Client, Script

\* Nothing but the list changes when a script lists processes.
LEMMA TypeList ==
  ASSUME TypeOK, NEW x \in Scripts, NEW from, NEW procs, NEW to \in Places,
         List(x, from, procs, to), procs \subseteq Processes,
         UNCHANGED <<tidy, whole, runs, kills, alone>>
  PROVE  TypeOK'
<1>1. at' \in [Scripts -> Places]
  BY TypeMove DEF List
<1>2. listed' \in [Scripts -> SUBSET Processes]
  BY DEF List, TypeOK
<1>3. UNCHANGED <<lock, pidFile, command, forked, sup, client>>
  BY DEF List, supVars
<1> QED BY <1>1, <1>2, <1>3 DEF TypeOK

\* Whatever a signal is sent to, the types are kept.
LEMMA TypeSignal ==
  ASSUME TypeOK, NEW x \in Scripts, NEW here, NEW signal,
         Signal(x, here, signal), UNCHANGED <<tidy, whole, runs, kills, alone>>
  PROVE  TypeOK'
<1>1. PICK p \in listed[x] :
       \/ /\ p.is = "sup" /\ KillSup(p.of)
          /\ listed' = [listed EXCEPT ![x] = @ \ {p}]
          /\ UNCHANGED <<lock, at, forked, client>>
       \/ /\ p.is = "client" /\ KillClient(p.of)
          /\ listed' = [listed EXCEPT ![x] = @ \ {p}]
          /\ UNCHANGED <<lock, at, forked, sup>>
       \/ /\ p.is = "script"
          /\ IF signal = "TERM" /\ at[p.of] \in Trapped
             THEN lock' = FALSE /\ UNCHANGED <<at, forked>>
                  /\ listed' = [listed EXCEPT ![x] = @ \ {p}]
             ELSE /\ at' = [at EXCEPT ![p.of] = "idle"]
                  /\ forked' = [forked EXCEPT ![p.of] = NoPid]
                  /\ listed' = [listed EXCEPT ![x] = @ \ {p}, ![p.of] = {}]
                  /\ UNCHANGED lock
          /\ UNCHANGED <<sup, client>>
  BY DEF Signal
<1>2. at' \in [Scripts -> Places] /\ lock' \in BOOLEAN
  BY <1>1 DEF TypeOK, Places
<1>3. forked' \in [Scripts -> Pids \cup {NoPid}]
  BY <1>1 DEF TypeOK
<1>4. listed' \in [Scripts -> SUBSET Processes]
  BY <1>1 DEF TypeOK
<1>5. sup' \in [Pids -> {"none", "forked"} \cup Running]
  BY <1>1 DEF TypeOK, KillSup
<1>6. client' \in [Pids -> {"none", "forked", "up"}]
  BY <1>1 DEF TypeOK, KillClient
<1>7. UNCHANGED <<pidFile, command>>
  BY DEF Signal
<1> QED BY <1>2, <1>3, <1>4, <1>5, <1>6, <1>7 DEF TypeOK

\* The steps that a stop and kill.sh have in common.
LEMMA TypeSweep ==
  ASSUME TypeOK, NEW x \in Scripts, NEW from, NEW to \in Places,
         NEW some \in Places,
         UNCHANGED <<tidy, whole, runs, kills, alone>>,
         \/ Swept(x, from, to) \/ KillRecorded(x, from, to, some)
         \/ RemovePidFile(x, from, to) \/ KillClients(x, from, to)
  PROVE  TypeOK'
<1>1. at' \in [Scripts -> Places]
  BY TypeMove DEF Swept, KillRecorded, RemovePidFile, KillClients
<1>2. pidFile' \in Pids \cup {NoPid}
  BY DEF TypeOK, Swept, KillRecorded, RemovePidFile, KillClients
<1>3. sup' \in [Pids -> {"none", "forked"} \cup Running]
  BY DEF TypeOK, Swept, KillRecorded, RemovePidFile, KillClients, KillOld,
     KillSup, supVars
<1>4. client' \in [Pids -> {"none", "forked", "up"}]
  BY DEF TypeOK, Swept, KillRecorded, RemovePidFile, KillClients, supVars
<1>5. UNCHANGED <<lock, command, forked, listed>>
  BY DEF Swept, KillRecorded, RemovePidFile, KillClients
<1> QED BY <1>1, <1>2, <1>3, <1>4, <1>5 DEF TypeOK

\* A step of stop.
LEMMA TypeStop ==
  ASSUME TypeOK, NEW x \in Scripts, Stop(x),
         UNCHANGED <<whole, runs, kills, alone>>
  PROVE  TypeOK'
<1>1. {"sweep", "pid", "clients", "rmpid", "rmlock"} \subseteq Places
  BY DEF Places
<1>2. CASE List(x, "scan", Daemons, "sweep") /\ UNCHANGED tidy
  BY <1>1, <1>2, TypeList, TypeLists
<1>3. CASE Signal(x, "sweep", "TERM") /\ UNCHANGED tidy
  BY <1>3, TypeSignal
<1>4. CASE Swept(x, "sweep", "pid") /\ UNCHANGED tidy
  BY <1>1, <1>4, TypeSweep
<1>5. CASE KillRecorded(x, "pid", "clients", "rmpid") /\ UNCHANGED tidy
  BY <1>1, <1>5, TypeSweep
<1>6. CASE RemovePidFile(x, "rmpid", "clients") /\ UNCHANGED tidy
  BY <1>1, <1>6, TypeSweep
<1>7. CASE KillClients(x, "clients", "rmlock") /\ UNCHANGED tidy
  BY <1>1, <1>7, TypeSweep
<1>8. CASE RemoveStopLock(x)
  <2>1. AfterStop(x) \in Places
    BY DEF AfterStop, TypeOK, Commands, Places, StartPlaces
  <2>2. at' \in [Scripts -> Places]
    BY <1>8, <2>1, TypeMove DEF RemoveStopLock
  <2>3. lock' \in BOOLEAN /\ tidy' \in BOOLEAN
    BY <1>8 DEF RemoveStopLock, TypeOK
  <2>4. UNCHANGED <<pidFile, command, forked, listed, sup, client>>
    BY <1>8 DEF RemoveStopLock, supVars
  <2> QED BY <2>2, <2>3, <2>4 DEF TypeOK
<1> QED
  BY <1>2, <1>3, <1>4, <1>5, <1>6, <1>7, <1>8 DEF Stop

\* A step of kill.sh.
LEMMA TypeKillAll ==
  ASSUME TypeOK, NEW x \in Scripts, KillAll(x),
         UNCHANGED <<whole, runs, kills, alone>>
  PROVE  TypeOK'
<1>1. {"rmpid2", "clients2", "list", "term", "list2", "kill", "rmpid3",
       "rmdir", "idle"} \subseteq Places
  BY DEF Places
<1>2. UNCHANGED tidy
  BY DEF KillAll
<1>3. CASE KillRecorded(x, "pid2", "clients2", "rmpid2")
  BY <1>1, <1>2, <1>3, TypeSweep
<1>4. CASE RemovePidFile(x, "rmpid2", "clients2")
  BY <1>1, <1>2, <1>4, TypeSweep
<1>5. CASE KillClients(x, "clients2", "list")
  BY <1>1, <1>2, <1>5, TypeSweep
<1>6. CASE List(x, "list", Related(x), "term")
  BY <1>1, <1>2, <1>6, TypeList, TypeLists
<1>7. CASE Signal(x, "term", "TERM")
  BY <1>2, <1>7, TypeSignal
<1>8. CASE Swept(x, "term", "list2")
  BY <1>1, <1>2, <1>8, TypeSweep
<1>9. CASE List(x, "list2", Related(x), "kill")
  BY <1>1, <1>2, <1>9, TypeList, TypeLists
<1>10. CASE Signal(x, "kill", "KILL")
  BY <1>2, <1>10, TypeSignal
<1>11. CASE Swept(x, "kill", "rmpid3")
  BY <1>1, <1>2, <1>11, TypeSweep
<1>12. CASE RemovePidFile(x, "rmpid3", "rmdir")
  BY <1>1, <1>2, <1>12, TypeSweep
<1>13. CASE RemoveDir(x)
  <2>1. at' \in [Scripts -> Places] /\ lock' \in BOOLEAN
    BY <1>1, <1>13, TypeMove DEF RemoveDir
  <2>2. UNCHANGED <<pidFile, command, forked, listed, sup, client>>
    BY <1>13 DEF RemoveDir, supVars
  <2> QED BY <1>2, <2>1, <2>2 DEF TypeOK
<1> QED
  BY <1>3, <1>4, <1>5, <1>6, <1>7, <1>8, <1>9, <1>10, <1>11, <1>12, <1>13
  DEF KillAll

\* The world keeps the types too.
LEMMA TypeWorld ==
  ASSUME TypeOK,
         \/ \E x \in Scripts : Begin(x)
         \/ Kill \/ Files
  PROVE  TypeOK'
<1>1. CASE \E x \in Scripts : Begin(x)
  <2>1. PICK x \in Scripts : Begin(x)
    BY <1>1
  <2>2. at' \in [Scripts -> Places] /\ command' \in [Scripts -> Commands]
    BY <2>1 DEF Begin, TypeOK, Places, StartPlaces
  <2>3. runs' \in 0..MaxRuns
    BY <2>1, BoundsAssumption DEF Begin, TypeOK
  <2>4. alone' \in BOOLEAN
    BY <2>1 DEF Begin, Alone
  <2>5. tidy' \in BOOLEAN
    BY <2>1 DEF Begin, TypeOK
  <2>6. UNCHANGED <<lock, pidFile, forked, listed, sup, client, whole, kills>>
    BY <2>1 DEF Begin, supVars
  <2> QED BY <2>2, <2>3, <2>4, <2>5, <2>6 DEF TypeOK
<1>2. CASE Kill
  <2>1. kills' \in 0..MaxKills /\ alone' \in BOOLEAN
    <3>1. kills < MaxKills
      BY <1>2 DEF Kill
    <3>2. kills' = kills + 1
      BY <1>2 DEF Kill
    <3>3. alone' \in BOOLEAN
      BY <1>2, Zenon DEF Kill
    <3> QED BY <3>1, <3>2, <3>3, BoundsAssumption DEF TypeOK
  <2>2. UNCHANGED <<lock, pidFile, command, client, whole, runs>>
    BY <1>2 DEF Kill
  <2>3. CASE \E s \in Pids : KillSupervisor(s)
    BY <2>1, <2>2, <2>3 DEF KillSupervisor, KillSup, TypeOK
  <2>4. CASE \E x \in Scripts : KillScript(x)
    <3>1. PICK x \in Scripts : KillScript(x)
      BY <2>4
    <3>2. at' \in [Scripts -> Places]
      BY <3>1 DEF KillScript, TypeOK, Places
    <3>3. forked' \in [Scripts -> Pids \cup {NoPid}]
      BY <3>1 DEF KillScript, TypeOK
    <3>4. listed' \in [Scripts -> SUBSET Processes]
      BY <3>1 DEF KillScript, TypeOK
    <3>5. tidy' \in BOOLEAN /\ UNCHANGED sup
      BY <3>1 DEF KillScript, TypeOK
    <3> QED BY <2>1, <2>2, <3>2, <3>3, <3>4, <3>5 DEF TypeOK
  <2> QED BY <1>2, <2>3, <2>4 DEF Kill
<1>3. CASE Files
  BY <1>3 DEF Files, TypeOK, scriptVars, supVars
<1> QED BY <1>1, <1>2, <1>3

\* Every step of the system keeps the types.
LEMMA TypeStep == TypeOK /\ [Next]_vars => TypeOK'
<1> SUFFICES ASSUME TypeOK, [Next]_vars PROVE TypeOK'
  OBVIOUS
<1>1. CASE \E s \in Pids : Supervise(s) \/ ClientLoads(s) \/ ClientExits(s)
  BY <1>1, TypeSupervise
<1>2. CASE \E x \in Scripts : RunScript(x)
  BY <1>2, TypeStart, TypeStop, TypeKillAll DEF RunScript
<1>3. CASE (\E x \in Scripts : Begin(x)) \/ Kill \/ Files
  BY <1>3, TypeWorld
<1>4. CASE UNCHANGED vars
  BY <1>4 DEF vars, TypeOK, scriptVars, supVars
<1> QED BY <1>1, <1>2, <1>3, <1>4 DEF Next

-----------------------------------------------------------------------------
(* As long as no start was disturbed.                                      *)

Early == StartPlaces \ {"record", "leave"}
Clean == {"drop", "fork"} \cup PastPidFile

\* What does no harm: supervisors go, pid files that name none change, no
\* script begins to start, and none comes to a clean place unless all is clean.
LEMMA TidyKept ==
  ASSUME TypeOK, TidyInv, tidy' => tidy,
         \A s \in Pids : sup'[s] # "none" => sup[s] # "none",
         \A s \in Pids : sup'[s] = "forked" => sup[s] = "forked",
         pidFile' = pidFile \/ NoSup',
         \A y \in Scripts :
           /\ at'[y] \in StartPlaces => at[y] \in StartPlaces
           /\ at'[y] \in Early => at[y] \in Early
           /\ at'[y] \in Clean => at[y] \in Clean \/ NoSup'
           /\ at'[y] = "record" => at[y] = "record" /\ forked'[y] = forked[y]
           /\ at[y] = "record" /\ tidy' => at'[y] = "record"
           /\ at[y] = "idle" => at'[y] = "idle"
  PROVE  TidyInv'
<1> SUFFICES ASSUME tidy' PROVE TidyInv'
  BY DEF TidyInv
<1>1. \A x \in Scripts : at'[x] \in StartPlaces => Alone(x)'
  BY DEF TidyInv, Alone, Others
<1>2. \A x \in Scripts : at'[x] \in Early => \A s \in Pids : sup'[s] # "forked"
  BY DEF TidyInv, Early
<1>3. \A x \in Scripts : at'[x] \in Clean => NoSup'
  BY DEF TidyInv, Clean, NoSup
<1>4. \A x \in Scripts : at'[x] = "record" =>
        \A s \in Pids : sup'[s] # "none" => s = forked'[x]
  BY DEF TidyInv
<1>5. (\A x \in Scripts : at'[x] # "record") =>
        \A s \in Pids : sup'[s] # "none" => s = pidFile'
  BY DEF TidyInv, NoSup
<1> QED BY <1>1, <1>2, <1>3, <1>4, <1>5 DEF TidyInv, Early, Clean

\* Supervisors that are under way, and their clients, change nothing of it.
LEMMA TidySupervise ==
  ASSUME TypeOK, TidyInv, NEW s \in Pids,
         Supervise(s) \/ ClientLoads(s) \/ ClientExits(s)
  PROVE  TidyInv'
<1>1. UNCHANGED <<tidy, pidFile, at, forked>>
  BY DEF Supervise, ClientLoads, ClientExits, scriptVars
<1>2. /\ \A t \in Pids : sup'[t] # "none" => sup[t] # "none"
      /\ \A t \in Pids : sup'[t] = "forked" => sup[t] = "forked"
  BY DEF Supervise, ClientLoads, ClientExits, Loads, Prepare, Launch,
     NoFaceDir, Relaunch, Goes, TypeOK
<1> QED BY <1>1, <1>2, TidyKept

\* A script that moves on while supervisors, files and forks stay.
LEMMA TidyMove ==
  ASSUME TypeOK, TidyInv, NEW x \in Scripts, NEW from, NEW to,
         Move(x, from, to), UNCHANGED <<pidFile, forked>>, tidy' => tidy,
         \A s \in Pids : sup'[s] = sup[s] \/ sup'[s] = "none",
         from # "idle", from # "record", to # "record",
         to \in StartPlaces => from \in StartPlaces,
         to \in Early => from \in Early,
         to \in Clean => from \in Clean \/ NoSup'
  PROVE  TidyInv'
<1>1. \A y \in Scripts : at'[y] = IF y = x THEN to ELSE at[y]
  BY DEF TypeOK, Move
<1>2. at[x] = from
  BY DEF Move
<1> QED BY <1>1, <1>2, TidyKept

\* Where a start is under way and has not forked, what runs is recorded and
\* recognized; where a stop is, what runs is recorded.
LEMMA TidyLook ==
  ASSUME TypeOK, TidyInv, tidy, NEW x \in Scripts
  PROVE  /\ at[x] \in Early /\ ~IsRunning => NoSup
         /\ at[x] \notin StartPlaces \cup {"idle"} =>
              \A s \in Pids : sup[s] # "none" => s = pidFile
<1>1. ASSUME at[x] # "idle", at[x] # "record"
      PROVE  \A s \in Pids : sup[s] # "none" => s = pidFile
  <2>1. \A y \in Scripts : at[y] # "record"
    BY <1>1 DEF TidyInv, Alone, Others, StartPlaces
  <2> QED BY <2>1 DEF TidyInv
<1>2. ASSUME at[x] \in Early, ~IsRunning PROVE NoSup
  <2>1. at[x] # "idle" /\ at[x] # "record"
    BY <1>2 DEF Early, StartPlaces
  <2>2. \A s \in Pids : sup[s] # "forked"
    BY <1>2 DEF TidyInv, Early
  <2>3. \A s \in Pids : sup[s] # "none" => sup[s] \in Running
    BY <2>2 DEF TypeOK
  <2>4. \A s \in Pids : s # NoPid
    BY PidsAssumption DEF NoPid
  <2> QED BY <1>1, <1>2, <2>1, <2>3, <2>4 DEF IsRunning, NoSup
<1>3. at[x] \notin StartPlaces \cup {"idle"} => at[x] # "record" /\ at[x] # "idle"
  BY DEF StartPlaces
<1> QED BY <1>1, <1>2, <1>3

\* A start that is alone forks when there is no supervisor, and records its own.
LEMMA TidyStart ==
  ASSUME TypeOK, TidyInv, NEW x \in Scripts, Start(x)
  PROVE  TidyInv'
<1> USE DEF StartPlaces, Early, Clean, PastPidFile
<1>1. CASE TakeLock(x)
  <2>1. PICK to \in {"judge", "check"} : Move(x, "mkdir", to)
    BY <1>1 DEF TakeLock
  <2> QED BY <1>1, <2>1, TidyMove DEF TakeLock, Start, supVars
<1>2. CASE JudgeLock(x)
  <2>1. PICK to \in {"idle", "clear"} : Move(x, "judge", to)
    BY <1>2 DEF JudgeLock
  <2> QED BY <1>2, <2>1, TidyMove DEF JudgeLock, Start, supVars
<1>3. CASE ClearLock(x)
  BY <1>3, TidyMove DEF ClearLock, RemoveLock, Start, supVars
<1>4. CASE RetakeLock(x)
  <2>1. PICK to \in {"idle", "check"} : Move(x, "again", to)
    BY <1>4 DEF RetakeLock
  <2> QED BY <1>4, <2>1, TidyMove DEF RetakeLock, Start, supVars
<1>5. CASE CheckRunning(x)
  <2>1. UNCHANGED <<pidFile, forked, sup, tidy>>
    BY <1>5 DEF CheckRunning, Start, supVars
  <2>2. CASE IsRunning
    BY <1>5, <2>1, <2>2, TidyMove DEF CheckRunning, FoundRunning
  <2>3. CASE ~IsRunning
    <3>1. Move(x, "check", "drop")
      BY <1>5, <2>3 DEF CheckRunning, FoundRunning
    <3>2. CASE ~tidy
      BY <2>1, <3>2 DEF TidyInv
    <3>3. CASE tidy
      <4>1. NoSup
        BY <2>3, <3>1, <3>3, TidyLook DEF Move
      <4> QED BY <2>1, <3>1, <4>1, TidyMove DEF NoSup
    <3> QED BY <3>2, <3>3
  <2> QED BY <2>2, <2>3
<1>6. CASE DropPidFile(x)
  <2>1. /\ at[x] = "drop" /\ UNCHANGED <<forked, sup, tidy>>
        /\ \A y \in Scripts : at'[y] = IF y = x THEN "fork" ELSE at[y]
    BY <1>6 DEF DropPidFile, Move, Start, supVars, TypeOK
  <2>2. CASE ~tidy
    BY <2>1, <2>2 DEF TidyInv
  <2>3. CASE tidy
    <3>1. NoSup'
      BY <2>1, <2>3 DEF TidyInv, NoSup
    <3> QED BY <2>1, <3>1, TidyKept
  <2> QED BY <2>2, <2>3
<1>7. CASE Fork(x)
  <2> SUFFICES ASSUME tidy' PROVE TidyInv'
    BY DEF TidyInv
  <2>1. PICK s \in Pids : /\ sup' = [sup EXCEPT ![s] = "forked"]
                          /\ forked' = [forked EXCEPT ![x] = s]
    BY <1>7 DEF Fork
  <2>2. /\ at[x] = "fork" /\ tidy /\ pidFile' = pidFile
        /\ \A y \in Scripts : at'[y] = IF y = x THEN "record" ELSE at[y]
    BY <1>7 DEF Fork, Start, Move, TypeOK
  <2>3. NoSup /\ \A y \in Scripts : y # x => at[y] = "idle"
    BY <2>2 DEF TidyInv, Alone, Others
  <2>4. \A t \in Pids : sup'[t] # "none" => t = s
    BY <2>1, <2>3 DEF NoSup, TypeOK
  <2>5. forked'[x] = s
    BY <2>1 DEF TypeOK
  <2> QED BY <2>2, <2>3, <2>4, <2>5 DEF TidyInv, Alone, Others
<1>8. CASE Record(x)
  <2> SUFFICES ASSUME tidy' PROVE TidyInv'
    BY DEF TidyInv
  <2>1. /\ at[x] = "record" /\ tidy /\ pidFile' = forked[x] /\ UNCHANGED sup
        /\ \A y \in Scripts : at'[y] = IF y = x THEN "leave" ELSE at[y]
    BY <1>8 DEF Record, Start, Move, TypeOK, supVars
  <2>2. \A y \in Scripts : y # x => at[y] = "idle"
    BY <2>1 DEF TidyInv, Alone, Others
  <2>3. \A s \in Pids : sup[s] # "none" => s = forked[x]
    BY <2>1 DEF TidyInv
  <2> QED BY <2>1, <2>2, <2>3 DEF TidyInv, Alone, Others
<1>9. CASE Leave(x)
  BY <1>9, TidyMove DEF Leave, Start, supVars
<1> QED BY <1>1, <1>2, <1>3, <1>4, <1>5, <1>6, <1>7, <1>8, <1>9 DEF Start

\* A script that lists processes is no start.
LEMMA TidyList ==
  ASSUME TypeOK, TidyInv, NEW x \in Scripts, NEW from, NEW procs, NEW to,
         List(x, from, procs, to), UNCHANGED tidy,
         from \notin StartPlaces \cup {"idle"},
         to \notin StartPlaces, to \in Clean => from \in Clean
  PROVE  TidyInv'
BY TidyMove DEF List, supVars, StartPlaces, Early

\* Nor is one that kills: a start that it lists is none by now.
LEMMA TidySignal ==
  ASSUME TypeOK, TidyInv, NEW x \in Scripts, NEW here, NEW signal,
         Signal(x, here, signal), UNCHANGED tidy,
         here \notin StartPlaces \cup {"idle"}
  PROVE  TidyInv'
<1> SUFFICES ASSUME tidy, tidy' PROVE TidyInv'
  BY DEF TidyInv
<1>1. at[x] = here /\ pidFile' = pidFile
  BY DEF Signal
<1>2. \A y \in Scripts : at[y] \notin StartPlaces
  BY <1>1 DEF TidyInv, Alone, Others
<1>3. \A y \in Scripts : at'[y] = at[y] \/ at'[y] = "idle"
  BY DEF Signal, TypeOK
<1>4. \A s \in Pids : sup'[s] = sup[s] \/ sup'[s] = "none"
  BY DEF Signal, KillSup, TypeOK
<1>5. "record" \in StartPlaces /\ "idle" \notin StartPlaces \cup Clean
  BY DEF StartPlaces, Clean, PastPidFile
<1> QED BY <1>1, <1>2, <1>3, <1>4, <1>5, TidyKept DEF Early

\* A stop has come past the pid file only when there is no supervisor.
LEMMA TidySweep ==
  ASSUME TypeOK, TidyInv, NEW x \in Scripts, NEW from, NEW to,
         from \notin StartPlaces \cup {"idle"}, to \notin StartPlaces,
         UNCHANGED tidy,
         \/ Swept(x, from, to) /\ (to \in Clean => from \in Clean)
         \/ RemovePidFile(x, from, to) /\ from \in Clean
         \/ KillClients(x, from, to) /\ from \in Clean
  PROVE  TidyInv'
<1>1. CASE Swept(x, from, to) /\ (to \in Clean => from \in Clean)
  BY <1>1, TidyMove DEF Swept, supVars, StartPlaces, Early
<1>2. CASE RemovePidFile(x, from, to) /\ from \in Clean
  <2> SUFFICES ASSUME tidy PROVE TidyInv'
    BY DEF TidyInv
  <2>1. /\ at[x] = from /\ UNCHANGED <<forked, sup>>
        /\ \A y \in Scripts : at'[y] = IF y = x THEN to ELSE at[y]
    BY <1>2 DEF RemovePidFile, Move, supVars, TypeOK
  <2>2. NoSup'
    BY <1>2, <2>1 DEF TidyInv, NoSup, Clean
  <2> QED BY <2>1, <2>2, TidyKept DEF StartPlaces, Early
<1>3. CASE KillClients(x, from, to) /\ from \in Clean
  BY <1>3, TidyMove DEF KillClients, StartPlaces, Early
<1> QED BY <1>1, <1>2, <1>3

\* The process that the file names is the last one there can be.
LEMMA TidyRecorded ==
  ASSUME TypeOK, TidyInv, NEW x \in Scripts, NEW from, NEW none, NEW some,
         KillRecorded(x, from, none, some), UNCHANGED tidy,
         from \notin StartPlaces \cup {"idle"},
         none \notin StartPlaces, some \notin StartPlaces
  PROVE  TidyInv'
<1> SUFFICES ASSUME tidy PROVE TidyInv'
  BY DEF TidyInv
<1>1. at[x] = from /\ UNCHANGED <<pidFile, forked>>
  BY DEF KillRecorded, Move
<1>2. \A s \in Pids : sup[s] # "none" => s = pidFile
  BY <1>1, TidyLook
<1>3. \A s \in Pids : sup'[s] = sup[s] \/ sup'[s] = "none"
  BY DEF KillRecorded, KillOld, KillSup, TypeOK
<1>4. NoSup'
  <2>1. CASE pidFile = NoPid
    BY <1>2, <2>1, PidsAssumption DEF KillRecorded, KillOld, NoSup, NoPid
  <2>2. CASE pidFile # NoPid
    BY <1>2, <2>2 DEF KillRecorded, KillOld, KillSup, NoSup, TypeOK
  <2> QED BY <2>1, <2>2
<1>5. PICK to \in {none, some} : Move(x, from, to)
  BY DEF KillRecorded
<1> QED BY <1>1, <1>3, <1>4, <1>5, TidyMove DEF StartPlaces, Early

\* A step of stop; a restart starts when nothing can disturb it.
LEMMA TidyStop ==
  ASSUME TypeOK, TidyInv, NEW x \in Scripts, Stop(x)
  PROVE  TidyInv'
<1> USE DEF StartPlaces, Clean, PastPidFile
<1>1. CASE List(x, "scan", Daemons, "sweep") /\ UNCHANGED tidy
  BY <1>1, TidyList
<1>2. CASE Signal(x, "sweep", "TERM") /\ UNCHANGED tidy
  BY <1>2, TidySignal
<1>3. CASE Swept(x, "sweep", "pid") /\ UNCHANGED tidy
  BY <1>3, TidySweep
<1>4. CASE KillRecorded(x, "pid", "clients", "rmpid") /\ UNCHANGED tidy
  BY <1>4, TidyRecorded
<1>5. CASE RemovePidFile(x, "rmpid", "clients") /\ UNCHANGED tidy
  BY <1>5, TidySweep
<1>6. CASE KillClients(x, "clients", "rmlock") /\ UNCHANGED tidy
  BY <1>6, TidySweep
<1>7. CASE RemoveStopLock(x)
  <2> SUFFICES ASSUME tidy' PROVE TidyInv'
    BY DEF TidyInv
  <2>1. /\ at[x] = "rmlock" /\ tidy
        /\ UNCHANGED <<pidFile, forked, sup>>
        /\ command[x] = "restart" => Undisturbed(x)
        /\ \A y \in Scripts : at'[y] = IF y = x THEN AfterStop(x) ELSE at[y]
    BY <1>7 DEF RemoveStopLock, Move, supVars, TypeOK
  <2>2. NoSup
    BY <2>1 DEF TidyInv
  <2>3. CASE command[x] = "restart"
    <3>1. AfterStop(x) = "mkdir"
      BY <2>3 DEF AfterStop
    <3>2. \A y \in Scripts : y # x => at[y] = "idle"
      BY <2>1, <2>3 DEF Undisturbed, Alone, Others
    <3> QED BY <2>1, <2>2, <3>1, <3>2 DEF TidyInv, Alone, Others, NoSup
  <2>4. CASE command[x] # "restart"
    <3>1. AfterStop(x) \in {"idle", "pid2"}
      BY <2>4 DEF AfterStop, TypeOK, Commands
    <3> QED BY <2>1, <2>2, <3>1, TidyKept DEF NoSup, Early
  <2> QED BY <2>3, <2>4
<1> QED
  BY <1>1, <1>2, <1>3, <1>4, <1>5, <1>6, <1>7 DEF Stop

\* A step of kill.sh.
LEMMA TidyKillAll ==
  ASSUME TypeOK, TidyInv, NEW x \in Scripts, KillAll(x)
  PROVE  TidyInv'
<1> USE DEF StartPlaces, Clean, PastPidFile
<1>1. UNCHANGED tidy
  BY DEF KillAll
<1>2. CASE KillRecorded(x, "pid2", "clients2", "rmpid2")
  BY <1>1, <1>2, TidyRecorded
<1>3. CASE RemovePidFile(x, "rmpid2", "clients2")
  BY <1>1, <1>3, TidySweep
<1>4. CASE KillClients(x, "clients2", "list")
  BY <1>1, <1>4, TidySweep
<1>5. CASE List(x, "list", Related(x), "term")
  BY <1>1, <1>5, TidyList
<1>6. CASE Signal(x, "term", "TERM")
  BY <1>1, <1>6, TidySignal
<1>7. CASE Swept(x, "term", "list2")
  BY <1>1, <1>7, TidySweep
<1>8. CASE List(x, "list2", Related(x), "kill")
  BY <1>1, <1>8, TidyList
<1>9. CASE Signal(x, "kill", "KILL")
  BY <1>1, <1>9, TidySignal
<1>10. CASE Swept(x, "kill", "rmpid3")
  BY <1>1, <1>10, TidySweep
<1>11. CASE RemovePidFile(x, "rmpid3", "rmdir")
  BY <1>1, <1>11, TidySweep
<1>12. CASE RemoveDir(x)
  BY <1>1, <1>12, TidyMove DEF RemoveDir, supVars, Early
<1> QED
  BY <1>2, <1>3, <1>4, <1>5, <1>6, <1>7, <1>8, <1>9, <1>10, <1>11, <1>12
  DEF KillAll

\* A script begins only as `tidy` says; what is killed does no harm, but for
\* a start between its fork and its record.
LEMMA TidyWorld ==
  ASSUME TypeOK, TidyInv,
         \/ \E x \in Scripts : Begin(x)
         \/ Kill \/ Files
  PROVE  TidyInv'
<1> SUFFICES ASSUME tidy' PROVE TidyInv'
  BY DEF TidyInv
<1>1. CASE \E x \in Scripts : Begin(x)
  <2>1. PICK x \in Scripts : Begin(x)
    BY <1>1
  <2>2. PICK c \in Commands :
          /\ at' = [at EXCEPT ![x] = IF c = "start" THEN "mkdir" ELSE "scan"]
          /\ tidy /\ \A y \in Others(x) : at[y] \notin StartPlaces
          /\ c = "start" => Undisturbed(x)
    BY <2>1 DEF Begin
  <2>3. at[x] = "idle" /\ UNCHANGED <<pidFile, forked, sup>> /\ tidy
    BY <2>1, <2>2 DEF Begin, supVars
  <2>4. \A y \in Scripts :
          at'[y] = IF y = x THEN IF c = "start" THEN "mkdir" ELSE "scan" ELSE at[y]
    BY <2>2 DEF TypeOK
  <2>5. \A y \in Scripts : at[y] \notin StartPlaces
    BY <2>2, <2>3 DEF Others, StartPlaces
  <2>6. CASE c = "start"
    <3>1. /\ \A y \in Scripts : y # x => at[y] = "idle"
          /\ \A s \in Pids : sup[s] # "forked"
      <4>1. Undisturbed(x)
        BY <2>2, <2>6
      <4> QED BY <4>1 DEF Undisturbed, Alone, Others
    <3>2. \A s \in Pids : sup[s] # "none" => s = pidFile
      BY <2>3, <2>5 DEF TidyInv, StartPlaces
    <3> QED
      BY <2>3, <2>4, <2>6, <3>1, <3>2
      DEF TidyInv, Alone, Others, StartPlaces, PastPidFile, NoSup
  <2>7. CASE c # "start"
    <3>1. \A y \in Scripts : at'[y] # at[y] => y = x /\ at'[y] = "scan"
      BY <2>4, <2>7
    <3>2. \A y \in Scripts : at'[y] \notin StartPlaces
      BY <2>5, <3>1 DEF StartPlaces
    <3>3. (\A y \in Scripts : at'[y] \in Clean => NoSup')
      BY <2>3, <3>1 DEF TidyInv, Clean, PastPidFile, NoSup
    <3>4. \A s \in Pids : sup'[s] # "none" => s = pidFile'
      BY <2>3, <2>5 DEF TidyInv, StartPlaces
    <3> QED BY <3>2, <3>3, <3>4 DEF TidyInv, Clean, StartPlaces
  <2> QED BY <2>6, <2>7
<1>2. CASE Kill
  <2>1. CASE \E s \in Pids : KillSupervisor(s)
    <3>1. /\ UNCHANGED <<pidFile, tidy, at, forked>>
          /\ \A s \in Pids : sup'[s] = sup[s] \/ sup'[s] = "none"
      BY <1>2, <2>1 DEF Kill, KillSupervisor, KillSup, TypeOK
    <3> QED BY <3>1, TidyKept
  <2>2. CASE \E x \in Scripts : KillScript(x)
    <3>1. PICK x \in Scripts : KillScript(x)
      BY <2>2
    <3>2. /\ UNCHANGED <<pidFile, sup>> /\ tidy /\ at[x] # "record"
          /\ at' = [at EXCEPT ![x] = "idle"]
          /\ forked' = [forked EXCEPT ![x] = NoPid]
      BY <1>2, <3>1 DEF Kill, KillScript
    <3>3. \A y \in Scripts :
            /\ at'[y] = IF y = x THEN "idle" ELSE at[y]
            /\ y # x => forked'[y] = forked[y]
      BY <3>2 DEF TypeOK
    <3> QED BY <3>2, <3>3, TidyKept
      DEF StartPlaces, Early, Clean, PastPidFile
  <2> QED BY <1>2, <2>1, <2>2 DEF Kill
<1>3. CASE Files
  <2>1. UNCHANGED <<tidy, pidFile, at, forked, sup>>
    BY <1>3 DEF Files, scriptVars, supVars
  <2> QED BY <2>1 DEF TidyInv, Alone, NoSup
<1> QED BY <1>1, <1>2, <1>3

\* Every step of the system.
LEMMA TidyStep == TypeOK /\ TidyInv /\ [Next]_vars => TidyInv'
<1> SUFFICES ASSUME TypeOK, TidyInv, [Next]_vars PROVE TidyInv'
  OBVIOUS
<1>1. CASE \E s \in Pids : Supervise(s) \/ ClientLoads(s) \/ ClientExits(s)
  BY <1>1, TidySupervise
<1>2. CASE \E x \in Scripts : RunScript(x)
  BY <1>2, TidyStart, TidyStop, TidyKillAll DEF RunScript
<1>3. CASE (\E x \in Scripts : Begin(x)) \/ Kill \/ Files
  BY <1>3, TidyWorld
<1>4. CASE UNCHANGED vars
  BY <1>4, TidyKept DEF vars, scriptVars, supVars
<1> QED BY <1>1, <1>2, <1>3, <1>4 DEF Next

-----------------------------------------------------------------------------
(* While a script is alone.                                                *)

\* The script that moves is the one that is not idle: what it has achieved is
\* all there is to show.
LEMMA AloneMove ==
  ASSUME TypeOK, AloneInv, NEW x \in Scripts, NEW from, NEW to,
         Move(x, from, to), from # "idle", alone' => alone,
         alone /\ Achieved(x) => Achieved(x)'
  PROVE  AloneInv'
<1> SUFFICES ASSUME alone, NEW y \in Scripts, at'[y] # "idle"
             PROVE  Alone(y)' /\ Achieved(y)'
  BY DEF AloneInv
<1>1. at[x] = from /\ at' = [at EXCEPT ![x] = to]
  BY DEF Move
<1>2. Alone(x) /\ Achieved(x)
  BY <1>1 DEF AloneInv
<1>3. y = x
  BY <1>1, <1>2 DEF Alone, Others, TypeOK
<1>4. Alone(x)'
  BY <1>1, <1>2 DEF Alone, Others, TypeOK
<1> QED BY <1>2, <1>3, <1>4

\* A supervisor neither comes nor goes by itself, and a client comes only by
\* a supervisor.
LEMMA AloneSupervise ==
  ASSUME TypeOK, AloneInv, NEW s \in Pids,
         Supervise(s) \/ ClientLoads(s) \/ ClientExits(s)
  PROVE  AloneInv'
<1>1. UNCHANGED <<alone, at, lock, forked, listed, pidFile>>
  BY DEF Supervise, ClientLoads, ClientExits, scriptVars
<1>2. \A t \in Pids : sup'[t] = "none" <=> sup[t] = "none"
  BY DEF Supervise, ClientLoads, ClientExits, Loads, Prepare, Launch,
     NoFaceDir, Relaunch, Goes, TypeOK
<1>3. \A t \in Pids : client'[t] # "none" => client[t] # "none" \/ ~NoSup
  BY DEF Supervise, ClientLoads, ClientExits, Loads, Prepare, Launch,
     NoFaceDir, Relaunch, Goes, TypeOK, NoSup
<1>4. NoSup' <=> NoSup
  BY <1>2 DEF NoSup
<1>5. ASSUME NEW x \in Scripts, Achieved(x)
      PROVE  Achieved(x)'
  <2>1. /\ at'[x] = "again" => ~lock'
        /\ at'[x] = "leave" => ~NoSup'
        /\ at'[x] \in {"list2", "kill", "rmpid3", "rmdir"} => NoSup'
        /\ at'[x] = "rmdir" => pidFile' = NoPid
    BY <1>1, <1>4, <1>5 DEF Achieved
  <2>2. at'[x] = "record" => forked'[x] \in Pids /\ sup'[forked'[x]] # "none"
    BY <1>1, <1>2, <1>5 DEF Achieved
  <2>3. at'[x] = "term" =>
          \A t \in Pids : sup'[t] # "none" => Sup(t) \in listed'[x]
    BY <1>1, <1>2, <1>5 DEF Achieved
  <2>4. at'[x] = "kill" =>
          \A t \in Pids : client'[t] # "none" => Client(t) \in listed'[x]
    BY <1>1, <1>3, <1>5 DEF Achieved
  <2>5. at'[x] \in {"rmpid3", "rmdir"} => \A t \in Pids : client'[t] = "none"
    BY <1>1, <1>3, <1>5 DEF Achieved
  <2> QED BY <2>1, <2>2, <2>3, <2>4, <2>5 DEF Achieved, Sup, Client
<1> QED BY <1>1, <1>5 DEF AloneInv, Alone

\* A step of start.
LEMMA AloneStart ==
  ASSUME TypeOK, AloneInv, NEW x \in Scripts, Start(x), UNCHANGED alone
  PROVE  AloneInv'
<1>1. CASE TakeLock(x)
  <2>1. PICK to \in {"judge", "check"} : Move(x, "mkdir", to)
    BY <1>1 DEF TakeLock
  <2>2. Achieved(x)'
    BY <2>1 DEF Achieved, Move, TypeOK
  <2> QED BY <2>1, <2>2, AloneMove
<1>2. CASE JudgeLock(x)
  <2>1. PICK to \in {"idle", "clear"} : Move(x, "judge", to)
    BY <1>2 DEF JudgeLock
  <2>2. Achieved(x)'
    BY <2>1 DEF Achieved, Move, TypeOK
  <2> QED BY <2>1, <2>2, AloneMove
<1>3. CASE ClearLock(x)
  <2>1. Move(x, "clear", "again") /\ ~lock'
    BY <1>3 DEF ClearLock, RemoveLock
  <2>2. Achieved(x)'
    BY <2>1 DEF Achieved, Move, TypeOK
  <2> QED BY <2>1, <2>2, AloneMove
<1>4. CASE RetakeLock(x)
  <2>1. PICK to \in {"idle", "check"} : Move(x, "again", to)
    BY <1>4 DEF RetakeLock
  <2>2. Achieved(x)'
    BY <2>1 DEF Achieved, Move, TypeOK
  <2> QED BY <2>1, <2>2, AloneMove
<1>5. CASE CheckRunning(x)
  <2>1. UNCHANGED <<sup, pidFile>>
    BY <1>5 DEF CheckRunning, supVars
  <2>2. CASE IsRunning
    <3>1. Move(x, "check", "leave")
      BY <1>5, <2>2 DEF CheckRunning, FoundRunning
    <3>2. pidFile \in Pids /\ sup[pidFile] # "none"
      BY <2>2 DEF IsRunning, TypeOK, Running
    <3>3. Achieved(x)'
      BY <2>1, <3>1, <3>2 DEF Achieved, Move, TypeOK, NoSup
    <3> QED BY <3>1, <3>3, AloneMove
  <2>3. CASE ~IsRunning
    <3>1. Move(x, "check", "drop")
      BY <1>5, <2>3 DEF CheckRunning, FoundRunning
    <3>2. Achieved(x)'
      BY <3>1 DEF Achieved, Move, TypeOK
    <3> QED BY <3>1, <3>2, AloneMove
  <2> QED BY <2>2, <2>3
<1>6. CASE DropPidFile(x)
  <2>1. Move(x, "drop", "fork")
    BY <1>6 DEF DropPidFile
  <2>2. Achieved(x)'
    BY <2>1 DEF Achieved, Move, TypeOK
  <2> QED BY <2>1, <2>2, AloneMove
<1>7. CASE Fork(x)
  <2>1. Move(x, "fork", "record")
    BY <1>7 DEF Fork
  <2>2. PICK s \in Pids : /\ sup' = [sup EXCEPT ![s] = "forked"]
                          /\ forked' = [forked EXCEPT ![x] = s]
    BY <1>7 DEF Fork
  <2>3. forked'[x] = s /\ sup'[s] # "none" /\ at'[x] = "record"
    BY <2>1, <2>2 DEF Move, TypeOK
  <2>4. Achieved(x)'
    BY <2>3 DEF Achieved
  <2> QED BY <2>1, <2>4, AloneMove
<1>8. CASE Record(x)
  <2>1. Move(x, "record", "leave") /\ UNCHANGED sup
    BY <1>8 DEF Record, supVars
  <2>2. Achieved(x) => Achieved(x)'
    BY <2>1 DEF Achieved, Move, TypeOK, NoSup
  <2> QED BY <2>1, <2>2, AloneMove, <1>8
<1>9. CASE Leave(x)
  <2>1. Move(x, "leave", "idle")
    BY <1>9 DEF Leave
  <2>2. Achieved(x)'
    BY <2>1 DEF Achieved, Move, TypeOK
  <2> QED BY <2>1, <2>2, AloneMove
<1> QED BY <1>1, <1>2, <1>3, <1>4, <1>5, <1>6, <1>7, <1>8, <1>9 DEF Start

\* What is killed leaves the list, and nothing else does.
LEMMA AloneSignal ==
  ASSUME TypeOK, AloneInv, NEW x \in Scripts, NEW here, NEW signal,
         Signal(x, here, signal), UNCHANGED alone, here \in {"sweep", "term", "kill"}
  PROVE  AloneInv'
<1> SUFFICES ASSUME alone, NEW y \in Scripts, at'[y] # "idle"
             PROVE  Alone(y)' /\ Achieved(y)'
  BY DEF AloneInv
<1>1. at[x] = here
  BY DEF Signal
<1>2. \A z \in Scripts : at'[z] = at[z] \/ at'[z] = "idle"
  BY DEF Signal, TypeOK
<1>3. Alone(x) /\ Achieved(x)
  BY <1>1 DEF AloneInv
<1>4. y = x /\ at'[x] = here
  BY <1>1, <1>2, <1>3 DEF Alone, Others
<1>5. Alone(y)'
  BY <1>2, <1>3, <1>4 DEF Alone, Others
<1>6. PICK p \in listed[x] :
       \/ /\ p.is = "sup" /\ KillSup(p.of)
          /\ listed' = [listed EXCEPT ![x] = @ \ {p}]
          /\ UNCHANGED <<lock, at, forked, client>>
       \/ /\ p.is = "client" /\ KillClient(p.of)
          /\ listed' = [listed EXCEPT ![x] = @ \ {p}]
          /\ UNCHANGED <<lock, at, forked, sup>>
       \/ /\ p.is = "script"
          /\ IF signal = "TERM" /\ at[p.of] \in Trapped
             THEN lock' = FALSE /\ UNCHANGED <<at, forked>>
                  /\ listed' = [listed EXCEPT ![x] = @ \ {p}]
             ELSE /\ at' = [at EXCEPT ![p.of] = "idle"]
                  /\ forked' = [forked EXCEPT ![p.of] = NoPid]
                  /\ listed' = [listed EXCEPT ![x] = @ \ {p}, ![p.of] = {}]
                  /\ UNCHANGED lock
          /\ UNCHANGED <<sup, client>>
  BY DEF Signal
<1>7. listed'[x] = listed[x] \ {p}
  <2>1. CASE listed' = [listed EXCEPT ![x] = @ \ {p}]
    BY <2>1 DEF TypeOK
  <2>2. CASE at' = [at EXCEPT ![p.of] = "idle"]
             /\ listed' = [listed EXCEPT ![x] = @ \ {p}, ![p.of] = {}]
    <3>1. p.of # x
      BY <1>1, <1>4, <2>2 DEF TypeOK
    <3> QED BY <2>2, <3>1 DEF TypeOK
  <2> QED BY <1>6, <2>1, <2>2
<1>8. p \in Processes
  BY DEF TypeOK
<1>9. \A s \in Pids : sup'[s] # "none" => sup[s] # "none" /\ p # Sup(s)
  BY <1>6, <1>8 DEF TypeOK, KillSup, Processes, Sup
<1>10. \A s \in Pids :
         client'[s] # "none" => client[s] # "none" /\ p # Client(s)
  BY <1>6, <1>8 DEF TypeOK, KillClient, Processes, Client
<1>11. at'[x] = "term" =>
         \A s \in Pids : sup'[s] # "none" => Sup(s) \in listed'[x]
  BY <1>1, <1>3, <1>4, <1>7, <1>9 DEF Achieved
<1>12. at'[x] = "kill" =>
         NoSup' /\ \A s \in Pids : client'[s] # "none" => Client(s) \in listed'[x]
  <2>1. ASSUME at[x] = "kill"
        PROVE  NoSup /\ \A s \in Pids : client[s] # "none" => Client(s) \in listed[x]
    BY <1>3, <2>1 DEF Achieved
  <2>2. ASSUME at[x] = "kill"
        PROVE  NoSup'
    BY <1>9, <2>1, <2>2 DEF NoSup
  <2> QED BY <1>1, <1>4, <1>7, <1>10, <2>1, <2>2
<1>13. Achieved(x)'
  BY <1>4, <1>11, <1>12 DEF Achieved, Sup, Client
<1> QED BY <1>4, <1>5, <1>13

\* A step of stop: it promises nothing to the one that runs it.
LEMMA AloneStop ==
  ASSUME TypeOK, AloneInv, NEW x \in Scripts, Stop(x), UNCHANGED alone
  PROVE  AloneInv'
<1>1. CASE Signal(x, "sweep", "TERM")
  BY <1>1, AloneSignal
<1>2. CASE ~Signal(x, "sweep", "TERM")
  <2>1. PICK from \in {"scan", "sweep", "pid", "rmpid", "clients", "rmlock"},
             to \in {"sweep", "pid", "clients", "rmpid", "rmlock", "idle",
                    "mkdir", "pid2"} : Move(x, from, to)
    <3>1. AfterStop(x) \in {"idle", "mkdir", "pid2"}
      BY DEF AfterStop, TypeOK, Commands
    <3> QED BY <1>2, <3>1 DEF Stop, List, Swept, KillRecorded, RemovePidFile,
               KillClients, RemoveStopLock
  <2>2. Achieved(x)'
    BY <2>1 DEF Achieved, Move, TypeOK
  <2> QED BY <2>1, <2>2, AloneMove
<1> QED BY <1>1, <1>2

\* A step of kill.sh: first the supervisors are gone, then the clients.
LEMMA AloneKillAll ==
  ASSUME TypeOK, AloneInv, NEW x \in Scripts, KillAll(x), UNCHANGED alone
  PROVE  AloneInv'
<1>1. CASE KillRecorded(x, "pid2", "clients2", "rmpid2")
  <2>1. PICK to \in {"clients2", "rmpid2"} : Move(x, "pid2", to)
    BY <1>1 DEF KillRecorded
  <2>2. Achieved(x)'
    BY <2>1 DEF Achieved, Move, TypeOK
  <2> QED BY <2>1, <2>2, AloneMove
<1>2. CASE RemovePidFile(x, "rmpid2", "clients2")
  <2>1. Achieved(x)'
    BY <1>2 DEF Achieved, Move, TypeOK, RemovePidFile
  <2> QED BY <1>2, <2>1, AloneMove DEF RemovePidFile
<1>3. CASE KillClients(x, "clients2", "list")
  <2>1. Achieved(x)'
    BY <1>3 DEF Achieved, Move, TypeOK, KillClients
  <2> QED BY <1>3, <2>1, AloneMove DEF KillClients
<1>4. CASE List(x, "list", Related(x), "term")
  <2>1. /\ Move(x, "list", "term") /\ UNCHANGED sup
        /\ listed'[x] = Related(x) /\ at'[x] = "term"
    BY <1>4 DEF List, supVars, Move, TypeOK
  <2>2. \A s \in Pids : sup[s] # "none" => Sup(s) \in Related(x)
    BY DEF Related
  <2>3. Achieved(x)'
    BY <2>1, <2>2 DEF Achieved, Sup
  <2> QED BY <2>1, <2>3, AloneMove
<1>5. CASE Signal(x, "term", "TERM")
  BY <1>5, AloneSignal
<1>6. CASE Swept(x, "term", "list2")
  <2>1. /\ Move(x, "term", "list2") /\ UNCHANGED <<sup, listed>>
        /\ at[x] = "term" /\ at'[x] = "list2" /\ listed[x] = {}
    BY <1>6 DEF Swept, supVars, Move, TypeOK
  <2>2. Achieved(x) => NoSup'
    BY <2>1 DEF Achieved, NoSup
  <2>3. Achieved(x) => Achieved(x)'
    BY <2>1, <2>2 DEF Achieved
  <2> QED BY <2>1, <2>3, AloneMove
<1>7. CASE List(x, "list2", Related(x), "kill")
  <2>1. /\ Move(x, "list2", "kill") /\ UNCHANGED <<sup, client>>
        /\ listed'[x] = Related(x) /\ at[x] = "list2" /\ at'[x] = "kill"
    BY <1>7 DEF List, supVars, Move, TypeOK
  <2>2. \A s \in Pids : client[s] # "none" => Client(s) \in Related(x)
    BY DEF Related
  <2>3. Achieved(x) => NoSup'
    BY <2>1 DEF Achieved, NoSup
  <2>4. Achieved(x) => Achieved(x)'
    BY <2>1, <2>2, <2>3 DEF Achieved, Client
  <2> QED BY <2>1, <2>4, AloneMove
<1>8. CASE Signal(x, "kill", "KILL")
  BY <1>8, AloneSignal
<1>9. CASE Swept(x, "kill", "rmpid3")
  <2>1. /\ Move(x, "kill", "rmpid3") /\ UNCHANGED <<sup, client>>
        /\ at[x] = "kill" /\ at'[x] = "rmpid3" /\ listed[x] = {}
    BY <1>9 DEF Swept, supVars, Move, TypeOK
  <2>2. Achieved(x) => NoSup' /\ \A s \in Pids : client'[s] = "none"
    BY <2>1 DEF Achieved, NoSup
  <2>3. Achieved(x) => Achieved(x)'
    BY <2>1, <2>2 DEF Achieved
  <2> QED BY <2>1, <2>3, AloneMove
<1>10. CASE RemovePidFile(x, "rmpid3", "rmdir")
  <2>1. /\ Move(x, "rmpid3", "rmdir") /\ UNCHANGED <<sup, client>>
        /\ at[x] = "rmpid3" /\ at'[x] = "rmdir" /\ pidFile' = NoPid
    BY <1>10 DEF RemovePidFile, supVars, Move, TypeOK
  <2>2. Achieved(x) => NoSup' /\ \A s \in Pids : client'[s] = "none"
    BY <2>1 DEF Achieved, NoSup
  <2>3. Achieved(x) => Achieved(x)'
    BY <2>1, <2>2 DEF Achieved
  <2> QED BY <2>1, <2>3, AloneMove
<1>11. CASE RemoveDir(x)
  <2>1. Achieved(x)'
    BY <1>11 DEF Achieved, Move, TypeOK, RemoveDir
  <2> QED BY <1>11, <2>1, AloneMove DEF RemoveDir
<1> QED
  BY <1>1, <1>2, <1>3, <1>4, <1>5, <1>6, <1>7, <1>8, <1>9, <1>10, <1>11
  DEF KillAll

\* A script that begins has achieved nothing; a kill from outside ends the
\* claim.
LEMMA AloneWorld ==
  ASSUME TypeOK, AloneInv,
         \/ \E x \in Scripts : Begin(x)
         \/ Kill \/ Files
  PROVE  AloneInv'
<1>1. CASE \E x \in Scripts : Begin(x)
  <2>1. PICK x \in Scripts : Begin(x)
    BY <1>1
  <2>2. PICK to \in {"mkdir", "scan"} : at' = [at EXCEPT ![x] = to]
    BY <2>1 DEF Begin
  <2>3. alone' => Alone(x)
    BY <2>1 DEF Begin
  <2> SUFFICES ASSUME alone', NEW y \in Scripts, at'[y] # "idle"
               PROVE  Alone(y)' /\ Achieved(y)'
    BY DEF AloneInv
  <2>4. y = x /\ Alone(x)'
    BY <2>2, <2>3 DEF Alone, Others, TypeOK
  <2>5. Achieved(x)'
    BY <2>2 DEF Achieved, TypeOK
  <2> QED BY <2>4, <2>5
<1>2. CASE Kill
  <2>1. ~alone'
    BY <1>2 DEF Kill
  <2> QED BY <2>1 DEF AloneInv
<1>3. CASE Files
  <2>1. UNCHANGED <<alone, at, lock, forked, listed, sup, client, pidFile>>
    BY <1>3 DEF Files, scriptVars, supVars
  <2> QED BY <2>1 DEF AloneInv, Achieved, Alone, NoSup, Sup, Client
<1> QED BY <1>1, <1>2, <1>3

\* Every step of the system.
LEMMA AloneStep == TypeOK /\ AloneInv /\ [Next]_vars => AloneInv'
<1> SUFFICES ASSUME TypeOK, AloneInv, [Next]_vars PROVE AloneInv'
  OBVIOUS
<1>1. CASE \E s \in Pids : Supervise(s) \/ ClientLoads(s) \/ ClientExits(s)
  BY <1>1, AloneSupervise
<1>2. CASE \E x \in Scripts : RunScript(x)
  BY <1>2, AloneStart, AloneStop, AloneKillAll DEF RunScript
<1>3. CASE (\E x \in Scripts : Begin(x)) \/ Kill \/ Files
  BY <1>3, AloneWorld
<1>4. CASE UNCHANGED vars
  <2>1. UNCHANGED <<alone, at, lock, forked, listed, sup, client, pidFile>>
    BY <1>4 DEF vars, scriptVars, supVars
  <2> QED BY <2>1 DEF AloneInv, Achieved, Alone, NoSup, Sup, Client
<1> QED BY <1>1, <1>2, <1>3, <1>4 DEF Next

-----------------------------------------------------------------------------
(* The theorems.                                                           *)

\* The strengthened invariant holds in every reachable state.
THEOREM SupervisorInductive == Spec => []IInv
<1>1. Init => IInv
  <2>1. Init => TidyInv
    BY DEF Init, TidyInv, StartPlaces, PastPidFile
  <2>2. Init => AloneInv
    BY DEF Init, AloneInv
  <2> QED BY <2>1, <2>2, TypeInit DEF IInv
<1>2. IInv /\ [Next]_vars => IInv'
  BY TypeStep, TidyStep, AloneStep DEF IInv
<1> QED BY <1>1, <1>2, PTL DEF Spec

\* Every variable has its type.
THEOREM SupervisorTypeCorrect == Spec => []TypeOK
<1>1. IInv => TypeOK
  BY DEF IInv
<1> QED BY <1>1, SupervisorInductive, PTL

\* There is one supervisor, for any number of starts, stops, restarts and
\* processes killed, as long as no start was disturbed.
THEOREM AtMostOneSupervisor == Spec => []OneSupervisor
<1>1. IInv => OneSupervisor
  <2> SUFFICES ASSUME TidyInv, tidy, NEW s \in Pids, NEW t \in Pids,
                      sup[s] # "none", sup[t] # "none"
               PROVE  s = t
    BY DEF IInv, OneSupervisor
  <2>1. CASE \E x \in Scripts : at[x] = "record"
    BY <2>1 DEF TidyInv
  <2>2. CASE \A x \in Scripts : at[x] # "record"
    BY <2>2 DEF TidyInv
  <2> QED BY <2>1, <2>2
<1> QED BY <1>1, SupervisorInductive, PTL

\* What a script that is alone leaves, it leaves by a step of its own.
LEMMA OwnStep ==
  ASSUME IInv, [Next]_vars, alone', NEW x \in Scripts,
         at[x] # "idle", at'[x] # at[x]
  PROVE  RunScript(x) /\ Alone(x) /\ Achieved(x)
<1>1. CASE \E s \in Pids : Supervise(s) \/ ClientLoads(s) \/ ClientExits(s)
  BY <1>1 DEF Supervise, ClientLoads, ClientExits, scriptVars
<1>2. CASE \E y \in Scripts : RunScript(y)
  <2>1. PICK y \in Scripts : RunScript(y)
    BY <1>2
  <2>2. alone
    BY <2>1 DEF RunScript
  <2>3. Alone(x) /\ Achieved(x)
    BY <2>2 DEF IInv, AloneInv
  <2>4. at[y] # "idle"
    BY <2>1 DEF RunScript, Start, Stop, KillAll, TakeLock, JudgeLock,
       ClearLock, RemoveLock, RetakeLock, CheckRunning, DropPidFile, Fork,
       Record, Leave, List, Signal, Swept, KillRecorded, RemovePidFile,
       KillClients, RemoveStopLock, RemoveDir, Move
  <2>5. y = x
    BY <2>3, <2>4 DEF Alone, Others
  <2> QED BY <2>1, <2>3, <2>5
<1>3. CASE \E y \in Scripts : Begin(y)
  BY <1>3 DEF Begin, IInv, TypeOK
<1>4. CASE Kill
  BY <1>4 DEF Kill
<1>5. CASE Files
  BY <1>5 DEF Files, scriptVars
<1>6. CASE UNCHANGED vars
  BY <1>6 DEF vars, scriptVars
<1> QED BY <1>1, <1>2, <1>3, <1>4, <1>5, <1>6 DEF Next

\* A start that nothing interferes with leaves a supervisor running.
THEOREM StartIsEffective == Spec => StartTakesEffect
<1>1. ASSUME IInv, [Next]_vars, NEW x \in Scripts,
             at[x] \in StartPlaces, at'[x] = "idle", alone'
      PROVE  \E s \in Pids : sup'[s] # "none"
  <2>1. RunScript(x) /\ Alone(x) /\ Achieved(x)
    BY <1>1, OwnStep DEF StartPlaces
  <2>2. Start(x)
    BY <1>1, <2>1 DEF RunScript, Stop, KillAll, List, Signal, Swept,
       KillRecorded, RemovePidFile, KillClients, RemoveStopLock, RemoveDir,
       Move, StartPlaces
  <2>3. at[x] \in {"judge", "again", "leave"}
    BY <1>1, <2>2 DEF Start, TakeLock, JudgeLock, ClearLock, RemoveLock,
       RetakeLock, CheckRunning, DropPidFile, Fork, Record, Leave, Move,
       IInv, TypeOK
  <2>4. CASE at[x] = "judge"
    <3>1. JudgeLock(x)
      BY <2>2, <2>4 DEF Start, TakeLock, ClearLock, RemoveLock, RetakeLock,
         CheckRunning, DropPidFile, Fork, Record, Leave, Move
    <3>2. IsRunning
      BY <1>1, <2>4, <3>1 DEF JudgeLock, Move, IInv, TypeOK
    <3>3. UNCHANGED sup
      BY <3>1 DEF JudgeLock, supVars
    <3> QED BY <1>1, <3>2, <3>3 DEF IsRunning, Running, IInv, TypeOK
  <2>5. CASE at[x] = "again"
    <3>1. RetakeLock(x)
      BY <2>2, <2>5 DEF Start, TakeLock, ClearLock, RemoveLock, JudgeLock,
         CheckRunning, DropPidFile, Fork, Record, Leave, Move
    <3>2. lock
      BY <1>1, <2>5, <3>1 DEF RetakeLock, Move, IInv, TypeOK
    <3> QED BY <2>1, <2>5, <3>2 DEF Achieved
  <2>6. CASE at[x] = "leave"
    <3>1. Leave(x)
      BY <2>2, <2>6 DEF Start, TakeLock, ClearLock, RemoveLock, JudgeLock,
         CheckRunning, DropPidFile, Fork, Record, RetakeLock, Move
    <3> QED BY <2>1, <2>6, <3>1 DEF Leave, Achieved, supVars, NoSup
  <2> QED BY <2>3, <2>4, <2>5, <2>6
<1>2. IInv /\ [Next]_vars =>
        \A x \in Scripts :
          at[x] \in StartPlaces /\ at'[x] = "idle" /\ alone' =>
            \E s \in Pids : sup'[s] # "none"
  BY <1>1
<1> QED BY <1>2, SupervisorInductive, PTL DEF Spec, StartTakesEffect

\* A stop leaves no supervisor, as long as no start was disturbed.
THEOREM StopIsThorough == Spec => StopIsComplete
<1>1. ASSUME IInv, [Next]_vars, NEW x \in Scripts,
             at[x] = "rmlock", at'[x] # "rmlock", alone', tidy
      PROVE  \A s \in Pids : sup'[s] = "none"
  <2>1. RunScript(x)
    BY <1>1, OwnStep
  <2>2. UNCHANGED sup
    BY <1>1, <2>1 DEF RunScript, Start, Stop, KillAll, TakeLock, JudgeLock,
       ClearLock, RemoveLock, RetakeLock, CheckRunning, DropPidFile, Fork,
       Record, Leave, List, Signal, Swept, KillRecorded, RemovePidFile,
       KillClients, RemoveStopLock, RemoveDir, Move, supVars
  <2>3. NoSup
    BY <1>1 DEF IInv, TidyInv, PastPidFile
  <2> QED BY <2>2, <2>3 DEF NoSup
<1>2. IInv /\ [Next]_vars =>
        \A x \in Scripts :
          at[x] = "rmlock" /\ at'[x] # "rmlock" /\ alone' /\ tidy =>
            \A s \in Pids : sup'[s] = "none"
  BY <1>1
<1> QED BY <1>2, SupervisorInductive, PTL DEF Spec, StopIsComplete

\* kill.sh, run alone, leaves nothing, whatever came before it.
THEOREM KillIsThorough == Spec => KillStopsAll
<1>1. ASSUME IInv, [Next]_vars, NEW x \in Scripts,
             at[x] = "rmdir", at'[x] = "idle", alone'
      PROVE  /\ \A s \in Pids : sup'[s] = "none" /\ client'[s] = "none"
             /\ ~lock' /\ pidFile' = NoPid
  <2>1. RunScript(x) /\ Achieved(x)
    BY <1>1, OwnStep
  <2>2. RemoveDir(x)
    BY <1>1, <2>1 DEF RunScript, Start, Stop, KillAll, TakeLock, JudgeLock,
       ClearLock, RemoveLock, RetakeLock, CheckRunning, DropPidFile, Fork,
       Record, Leave, List, Signal, Swept, KillRecorded, RemovePidFile,
       KillClients, RemoveStopLock, Move
  <2> QED BY <1>1, <2>1, <2>2 DEF Achieved, RemoveDir, NoSup, supVars
<1>2. IInv /\ [Next]_vars =>
        \A x \in Scripts :
          at[x] = "rmdir" /\ at'[x] = "idle" /\ alone' =>
            /\ \A s \in Pids : sup'[s] = "none" /\ client'[s] = "none"
            /\ ~lock' /\ pidFile' = NoPid
  BY <1>1
<1> QED BY <1>2, SupervisorInductive, PTL DEF Spec, KillStopsAll

-----------------------------------------------------------------------------
(* Update.                                                                 *)

\* While the board boots nothing runs; from the deletion on neither
\* supervisor nor client does.
QuietInv ==
  /\ supRuns \/ clientRuns \/ up # "off" => ~booting
  /\ up = "client" => ~supRuns
  /\ up \notin {"off", "supervisor", "client"} => ~supRuns /\ ~clientRuns

AllOf(holds, versions) == \A f \in Targets : holds[f] \in versions

\* What a file holds it may hold after a cut.
KeptInv == \A f \in Targets : file[f] \in disk[f]

\* What a success rests on: what init calls is new only with all the rest, on
\* the disk too, and there is no success without it.
Honest ==
  /\ file["init"] = "new" => AllOf(file, {"new"})
  /\ "new" \in disk["init"] => file["init"] = "new"
  /\ disk["init"] = {"new"} => \A f \in Targets : disk[f] = {"new"}
  /\ up \in {"supervisor", "client", "delete", "sync", "load", "loading"} =>
       file["init"] # "new"
  /\ up = "sync" => entry = 1
  /\ up \in {"load", "loading"} =>
       \A i \in 1..Last : i < entry => file[Manifest[i]] = "new"
  /\ up = "loading" => file[Manifest[entry]] = "part"
  /\ up \in {"report", "reboot"} => file["init"] = "new"
  /\ result = "success" => file["init"] = "new"
  /\ kept = "success" => disk["init"] = {"new"}

HonestInv == reliable /\ ~torn => Honest

\* Nothing of the new version has been loaded since the board last booted.
Before ==
  /\ AllOf(file, {"old", "none"}) /\ AllOf(disk, SUBSET {"old", "none"})
  /\ up \in {"off", "supervisor", "client", "delete", "sync"}
  /\ up \in {"supervisor", "client", "sync"} => entry = 1
  /\ up = "delete" =>
       \A i \in 1..Last : i < entry => file[Manifest[i]] = "none"
  /\ up = "sync" => AllOf(file, {"none"})

\* How far the files are loaded.
Progress ==
  \/ /\ up \in {"load", "loading"}
     /\ \A i \in 1..Last :
          /\ i < entry => file[Manifest[i]] = "new"
          /\ i > entry => file[Manifest[i]] = "none"
     /\ file[Manifest[entry]] = IF up = "load" THEN "none" ELSE "part"
  \/ up \in {"report", "reboot"} /\ AllOf(file, {"new"})
  \/ up = "off"

\* The deletion is on the disk, and nothing runs until the next boot.
Between ==
  /\ ~supRuns /\ ~clientRuns /\ ~booting
  /\ AllOf(file, {"none", "part", "new"})
  /\ AllOf(disk, SUBSET {"none", "part", "new"})
  /\ "none" \in disk["init"]
  /\ Progress

\* The board has booted without what init calls.
Dead ==
  /\ ~supRuns /\ ~clientRuns /\ up = "off"
  /\ file["init"] \in {"none", "part"}
  /\ disk["init"] \subseteq {"none", "part"}

\* The board has booted with the new version.
Done == AllOf(file, {"new"}) /\ AllOf(disk, {{"new"}}) /\ up = "off"

Modes == Before \/ Between \/ Dead \/ Done

ModeInv == reliable /\ ~torn /\ refused = 0 => Modes

\* The inductive invariant.
UpdateInv == UpdateTypeOK /\ QuietInv /\ KeptInv /\ HonestInv /\ ModeInv

\* Five files of different names, what init calls the last of them.
LEMMA FiveFiles ==
  /\ Last = 5 /\ Manifest[5] = "init"
  /\ \A i \in 1..5 : Manifest[i] \in Targets
  /\ \A i \in 1..5, j \in 1..5 : Manifest[i] = Manifest[j] => i = j
  /\ \A f \in Targets : \E i \in 1..5 : f = Manifest[i]
  /\ {"engine", "library", "client", "script", "init"} \subseteq Targets
<1>1. Len(Manifest) = 5
  BY DEF Manifest
<1>2. /\ Manifest[1] = "engine" /\ Manifest[2] = "library"
      /\ Manifest[3] = "client" /\ Manifest[4] = "script"
      /\ Manifest[5] = "init"
  BY DEF Manifest
<1>3. Targets = {Manifest[i] : i \in 1..5}
  BY <1>1 DEF Targets
<1>4. \A i \in 1..5 : i = 1 \/ i = 2 \/ i = 3 \/ i = 4 \/ i = 5
  OBVIOUS
<1>5. \A i \in 1..5, j \in 1..5 : Manifest[i] = Manifest[j] => i = j
  BY <1>2, <1>4
<1>6. {"engine", "library", "client", "script", "init"} \subseteq Targets
  BY <1>2, <1>3
<1> QED BY <1>1, <1>2, <1>3, <1>5, <1>6 DEF Last

LEMMA FirstEntry == 1 \in 1..Last
BY FiveFiles

\* What the manifest holds up to its last entry is all there is.
LEMMA WholeManifest ==
  ASSUME NEW S, NEW holds, \A i \in 1..Last : holds[Manifest[i]] \in S
  PROVE  AllOf(holds, S)
BY FiveFiles DEF AllOf

\* The places of the updater and the results.
UpPlaces == {"off", "supervisor", "client", "delete", "sync", "load",
             "loading", "report", "reboot"}
Results == {"none", "failed", "success"}

\* The steps that write or delete the file the updater is at, if any.
Writes ==
  DeleteTarget \/ Load \/ CannotLoad \/ Loaded \/ Fails \/ CannotRemove
    \/ ChmodFails

\* Those that leave the files alone.
Leaves == StopSupervisor \/ StopClient \/ NoDirectory \/ Report

LEMMA UpdaterSteps == Updater <=> Writes \/ Leaves \/ Sync \/ Reboot
BY DEF Updater, Writes, Leaves

\* What they write.
LEMMA WritesOne ==
  ASSUME Writes
  PROVE  /\ \/ UNCHANGED fileVars
            \/ \E content \in {"none", "part", "new"} :
                 Put(Manifest[entry], content)
         /\ UpdaterOnly
BY DEF Writes, DeleteTarget, Load, CannotLoad, Loaded, Fails, CannotRemove,
   ChmodFails

\* To put something in the place of the file the updater is at.
LEMMA PutOne ==
  ASSUME UpdateTypeOK, NEW content \in Contents,
         Put(Manifest[entry], content)
  PROVE  /\ file' \in [Targets -> Contents]
         /\ disk' \in [Targets -> SUBSET Contents]
         /\ \A i \in 1..Last :
              /\ file'[Manifest[i]] =
                   IF i = entry THEN content ELSE file[Manifest[i]]
              /\ disk'[Manifest[i]] =
                   IF i = entry THEN disk[Manifest[i]] \cup {"none", content}
                   ELSE disk[Manifest[i]]
<1>1. /\ file \in [Targets -> Contents]
      /\ disk \in [Targets -> SUBSET Contents] /\ entry \in 1..5 /\ Last = 5
  BY FiveFiles DEF UpdateTypeOK
<1>2. /\ \A i \in 1..5 : Manifest[i] \in Targets
      /\ \A i \in 1..5, j \in 1..5 : Manifest[i] = Manifest[j] => i = j
  BY FiveFiles
<1>3. {"none", content} \subseteq Contents
  BY DEF Contents
<1> QED BY <1>1, <1>2, <1>3 DEF Put

-----------------------------------------------------------------------------
(* Types, and when what runs.                                              *)

LEMMA UpdateTypeInit == UpdateInit => UpdateTypeOK
<1> SUFFICES ASSUME UpdateInit PROVE UpdateTypeOK
  OBVIOUS
<1>1. file \in [Targets -> Contents]
  BY DEF UpdateInit, Contents
<1>2. disk \in [Targets -> SUBSET Contents]
  BY <1>1 DEF UpdateInit
<1>3. entry \in 1..Last /\ cuts \in 0..MaxCuts /\ refused \in 0..MaxRefused
  BY CutsAssumption, RefusedAssumption, FirstEntry DEF UpdateInit
<1> QED BY <1>1, <1>2, <1>3 DEF UpdateInit, UpdateTypeOK

\* Of what files and disk hold.
FilesTyped ==
  file \in [Targets -> Contents] /\ disk \in [Targets -> SUBSET Contents]

LEMMA FilesTypedStep ==
  ASSUME UpdateTypeOK, [UpdateNext]_updateVars
  PROVE  FilesTyped'
<1>0. FilesTyped
  BY DEF UpdateTypeOK, FilesTyped
<1>1. CASE UNCHANGED fileVars
  BY <1>0, <1>1 DEF FilesTyped, fileVars
<1>2. CASE Writes
  <2>1. CASE \E content \in {"none", "part", "new"} :
               Put(Manifest[entry], content)
    BY <2>1, PutOne DEF FilesTyped, Contents
  <2> QED BY <1>1, <1>2, <2>1, WritesOne
<1>3. CASE Sync \/ Reboot
  <2>1. file' = file /\ disk' = [f \in Targets |-> {file[f]}]
    BY <1>3 DEF Sync, Reboot, Rebooted, Synced
  <2> QED BY <1>0, <2>1 DEF FilesTyped
<1>4. CASE PowerCut
  <2>1. PICK left \in [Targets -> UNION {disk[f] : f \in Targets}] :
          /\ \A f \in Targets : left[f] \in disk[f]
          /\ file' = left /\ disk' = [f \in Targets |-> {left[f]}]
    BY <1>4 DEF PowerCut
  <2>2. left \in [Targets -> Contents]
    BY <1>0, <2>1 DEF FilesTyped
  <2> QED BY <2>1, <2>2 DEF FilesTyped
<1>5. CASE Boot \/ LaunchClient \/ ClientEnds \/ BeginUpdate \/ Leaves
           \/ UpdaterKilled \/ UNCHANGED updateVars
  <2>1. UNCHANGED fileVars
    BY <1>5 DEF Boot, LaunchClient, ClientEnds, BeginUpdate, Leaves,
       StopSupervisor, StopClient, NoDirectory, Report, UpdaterKilled,
       updateVars
  <2> QED BY <1>1, <2>1
<1> QED BY <1>2, <1>3, <1>4, <1>5, UpdaterSteps DEF UpdateNext

\* The next entry.
LEMMA NextEntry ==
  ASSUME UpdateTypeOK, NEW here \in UpPlaces, NEW after \in UpPlaces,
         Step(here, after)
  PROVE  entry' \in 1..Last /\ up' \in UpPlaces
BY FiveFiles DEF UpdateTypeOK, Step, UpPlaces

\* A step of the updater keeps the types.
LEMMA TypeUpdater == UpdateTypeOK /\ Updater => UpdateTypeOK'
<1> SUFFICES ASSUME UpdateTypeOK, Updater PROVE UpdateTypeOK'
  OBVIOUS
<1>1. UNCHANGED worldVars
  BY DEF Updater, StopSupervisor, StopClient, NoDirectory, DeleteTarget, Sync,
     Load, CannotLoad, Loaded, Fails, CannotRemove, ChmodFails, Report,
     Reboot, UpdaterOnly
<1>2. up' \in UpPlaces /\ entry' \in 1..Last
  BY FiveFiles DEF UpdateTypeOK, Updater, StopSupervisor, StopClient,
     NoDirectory, DeleteTarget, Sync, Load, CannotLoad, Loaded, Fails,
     CannotRemove, ChmodFails, Report, Reboot, Moves, Step, GiveUp, Rebooted,
     Restart, UpPlaces
<1>3. refused' \in 0..MaxRefused
  <2>1. \/ UNCHANGED refused
        \/ refused < MaxRefused /\ refused' = refused + 1
    BY DEF Updater, StopSupervisor, StopClient, NoDirectory, DeleteTarget,
       Sync, Load, CannotLoad, Loaded, Fails, CannotRemove, ChmodFails,
       Report, Reboot
  <2> QED BY <2>1, RefusedAssumption DEF UpdateTypeOK
<1>4. result' \in Results /\ kept' \in Results
  BY DEF UpdateTypeOK, Updater, StopSupervisor, StopClient, NoDirectory,
     DeleteTarget, Sync, Load, CannotLoad, Loaded, Fails, CannotRemove,
     ChmodFails, Report, Reboot, Rebooted, Synced, GiveUp, UpdaterOnly,
     Results
<1>5. supRuns' \in BOOLEAN /\ clientRuns' \in BOOLEAN /\ booting' \in BOOLEAN
  BY DEF UpdateTypeOK, Updater, StopSupervisor, StopClient, NoDirectory,
     DeleteTarget, Sync, Load, CannotLoad, Loaded, Fails, CannotRemove,
     ChmodFails, Report, Reboot, Rebooted, Restart, StopLoop, UpdaterOnly,
     boardVars
<1>6. FilesTyped'
  BY FilesTypedStep DEF UpdateNext
<1> QED
  BY <1>1, <1>2, <1>3, <1>4, <1>5, <1>6 DEF UpdateTypeOK, UpPlaces, Results,
     FilesTyped, worldVars

\* So does a power cut.
LEMMA TypeCut == UpdateTypeOK /\ PowerCut => UpdateTypeOK'
<1> SUFFICES ASSUME UpdateTypeOK, PowerCut PROVE UpdateTypeOK'
  OBVIOUS
<1>1. cuts' \in 0..MaxCuts
  BY CutsAssumption DEF PowerCut, UpdateTypeOK
<1>2. FilesTyped'
  BY FilesTypedStep DEF UpdateNext
<1>3. result' \in Results /\ kept' \in Results
  BY DEF PowerCut, UpdateTypeOK, Results
<1>4. torn' \in BOOLEAN
  <2>1. torn' = (torn \/ Late)
    BY DEF PowerCut
  <2>2. (torn \/ Late) \in BOOLEAN
    OBVIOUS
  <2> QED BY <2>1, <2>2, Zenon
<1>5. /\ up' = "off" /\ entry' = 1 /\ UNCHANGED <<inLib, reliable, refused>>
      /\ supRuns' = FALSE /\ clientRuns' = FALSE /\ booting' = TRUE
  BY DEF PowerCut, Restart
<1> QED
  BY <1>1, <1>2, <1>3, <1>4, <1>5, FirstEntry DEF UpdateTypeOK, Results,
     FilesTyped

\* Every step of the system does.
LEMMA UpdateTypeStep ==
  UpdateTypeOK /\ [UpdateNext]_updateVars => UpdateTypeOK'
<1> SUFFICES ASSUME UpdateTypeOK, [UpdateNext]_updateVars PROVE UpdateTypeOK'
  OBVIOUS
<1> USE DEF fileVars, worldVars
<1>1. CASE Boot
  <2>1. /\ supRuns' \in BOOLEAN /\ booting' = FALSE
        /\ UNCHANGED <<file, disk, kept, result, up, entry, clientRuns, inLib,
                       reliable, cuts, torn, refused>>
    BY <1>1 DEF Boot, Whole
  <2> QED BY <2>1 DEF UpdateTypeOK
<1>2. CASE LaunchClient \/ ClientEnds
  <2>1. /\ clientRuns' \in BOOLEAN
        /\ UNCHANGED <<file, disk, kept, result, up, entry, supRuns, booting,
                       inLib, reliable, cuts, torn, refused>>
    BY <1>2 DEF LaunchClient, ClientEnds
  <2> QED BY <2>1 DEF UpdateTypeOK
<1>3. CASE BeginUpdate
  BY <1>3, FirstEntry DEF BeginUpdate, Moves, UpdateTypeOK, boardVars
<1>4. CASE UpdaterKilled
  BY <1>4, FirstEntry DEF UpdaterKilled, UpdateTypeOK, UpdaterOnly, boardVars
<1>5. CASE UNCHANGED updateVars
  BY <1>5 DEF updateVars, UpdateTypeOK, boardVars
<1> QED
  BY <1>1, <1>2, <1>3, <1>4, <1>5, TypeUpdater, TypeCut DEF UpdateNext

\* When what runs.
LEMMA QuietStep ==
  UpdateTypeOK /\ QuietInv /\ [UpdateNext]_updateVars => QuietInv'
<1> SUFFICES ASSUME UpdateTypeOK, QuietInv, [UpdateNext]_updateVars
             PROVE  QuietInv'
  OBVIOUS
<1>1. CASE Boot
  BY <1>1 DEF Boot, QuietInv
<1>2. CASE LaunchClient
  <2>1. supRuns /\ UNCHANGED <<supRuns, booting, up>>
    BY <1>2 DEF LaunchClient
  <2> QED BY <2>1 DEF QuietInv
<1>3. CASE ClientEnds
  BY <1>3 DEF ClientEnds, QuietInv
<1>4. CASE BeginUpdate
  BY <1>4 DEF BeginUpdate, Moves, QuietInv, boardVars
<1>5. CASE StopSupervisor \/ StopClient
  BY <1>5 DEF StopSupervisor, StopClient, StopLoop, Moves, QuietInv
<1>6. CASE Reboot
  BY <1>6 DEF Reboot, Rebooted, Restart, QuietInv
<1>7. CASE Writes \/ NoDirectory \/ Sync \/ Report
  <2>1. UNCHANGED boardVars /\ up \notin {"off", "supervisor", "client"}
    BY <1>7 DEF Writes, NoDirectory, DeleteTarget, Sync, Load, CannotLoad,
       Loaded, Fails, CannotRemove, ChmodFails, Report, Moves, UpdaterOnly
  <2> QED BY <2>1 DEF QuietInv, boardVars
<1>8. CASE UpdaterKilled
  BY <1>8 DEF UpdaterKilled, QuietInv, UpdaterOnly, boardVars
<1>9. CASE PowerCut
  BY <1>9 DEF PowerCut, Restart, QuietInv
<1>10. CASE UNCHANGED updateVars
  BY <1>10 DEF updateVars, boardVars, QuietInv
<1> QED
  BY <1>1, <1>2, <1>3, <1>4, <1>5, <1>6, <1>7, <1>8, <1>9, <1>10,
     UpdaterSteps DEF UpdateNext, Leaves

\* What a file holds it may hold after a cut.
LEMMA KeptStep ==
  ASSUME UpdateTypeOK, KeptInv, [UpdateNext]_updateVars
  PROVE  KeptInv'
<1>1. CASE UNCHANGED fileVars
  BY <1>1 DEF KeptInv, fileVars
<1>2. CASE Writes
  <2>1. ASSUME NEW content \in {"none", "part", "new"},
               Put(Manifest[entry], content)
        PROVE  KeptInv'
    BY <2>1 DEF Put, KeptInv, UpdateTypeOK
  <2> QED BY <1>1, <1>2, <2>1, WritesOne
<1>3. CASE Sync \/ Reboot
  BY <1>3 DEF Sync, Reboot, Rebooted, Synced, KeptInv
<1>4. CASE PowerCut
  BY <1>4 DEF PowerCut, KeptInv
<1>5. CASE Boot \/ LaunchClient \/ ClientEnds \/ BeginUpdate \/ Leaves
           \/ UpdaterKilled \/ UNCHANGED updateVars
  <2>1. UNCHANGED fileVars
    BY <1>5 DEF Boot, LaunchClient, ClientEnds, BeginUpdate, Leaves,
       StopSupervisor, StopClient, NoDirectory, Report, UpdaterKilled,
       updateVars
  <2> QED BY <1>1, <2>1
<1> QED BY <1>2, <1>3, <1>4, <1>5, UpdaterSteps DEF UpdateNext

-----------------------------------------------------------------------------
(* Success is honest.                                                      *)

\* The server does not change, and a tear is not mended.
LEMMA WasReliable ==
  ASSUME [UpdateNext]_updateVars, reliable', ~torn'
  PROVE  reliable /\ ~torn
<1>1. CASE PowerCut
  <2>1. torn' = (torn \/ Late) /\ reliable' = reliable
    BY <1>1 DEF PowerCut
  <2> QED BY <2>1, Zenon
<1>2. CASE ~PowerCut
  <2>1. UNCHANGED worldVars
    BY <1>2 DEF UpdateNext, Updater, Boot, LaunchClient, ClientEnds,
       BeginUpdate, StopSupervisor, StopClient, NoDirectory, DeleteTarget,
       Sync, Load, CannotLoad, Loaded, Fails, CannotRemove, ChmodFails,
       Report, Reboot, UpdaterKilled, UpdaterOnly, updateVars
  <2>2. reliable' = reliable /\ torn' = torn
    BY <2>1 DEF worldVars
  <2> QED BY <2>2, Zenon
<1> QED BY <1>1, <1>2

\* While a file is deleted or loaded.
LEMMA HonestWrites ==
  ASSUME UpdateTypeOK, KeptInv, Honest, reliable, Writes
  PROVE  Honest'
<1>1. /\ entry \in 1..5 /\ Last = 5 /\ Manifest[5] = "init"
      /\ "init" \in Targets
      /\ file \in [Targets -> Contents] /\ disk \in [Targets -> SUBSET Contents]
  BY FiveFiles DEF UpdateTypeOK
<1>2. up \in {"delete", "load", "loading"}
  BY DEF Writes, DeleteTarget, Load, CannotLoad, Loaded, Fails, CannotRemove,
     ChmodFails, Moves
<1>3. file["init"] # "new" /\ "new" \notin disk["init"] /\ kept # "success"
        /\ result # "success"
  BY <1>2 DEF Honest
<1>4. kept' # "success" /\ result' # "success"
  BY <1>3, WritesOne DEF Writes, DeleteTarget, Load, CannotLoad, Loaded, Fails,
     CannotRemove, ChmodFails, GiveUp, UpdaterOnly
<1>5. ASSUME NEW content \in {"none", "part", "new"},
             Put(Manifest[entry], content)
      PROVE  /\ \A i \in 1..5 : file'[Manifest[i]] =
                                  IF i = entry THEN content
                                  ELSE file[Manifest[i]]
             /\ disk'["init"] = IF 5 = entry
                                THEN disk["init"] \cup {"none", content}
                                ELSE disk["init"]
  <2>1. content \in Contents
    BY DEF Contents
  <2>2. \A i \in 1..Last :
          /\ file'[Manifest[i]] =
               IF i = entry THEN content ELSE file[Manifest[i]]
          /\ disk'[Manifest[i]] =
               IF i = entry THEN disk[Manifest[i]] \cup {"none", content}
               ELSE disk[Manifest[i]]
    BY <1>5, <2>1, PutOne
  <2>3. \A i \in 1..5 : file'[Manifest[i]] = IF i = entry THEN content
                                             ELSE file[Manifest[i]]
    BY <1>1, <2>2
  <2>4. disk'[Manifest[5]] = IF 5 = entry
                             THEN disk[Manifest[5]] \cup {"none", content}
                             ELSE disk[Manifest[5]]
    <3>1. 5 \in 1..Last
      BY <1>1
    <3> QED BY <2>2, <3>1, Zenon
  <2>5. disk'["init"] = IF 5 = entry
                        THEN disk["init"] \cup {"none", content}
                        ELSE disk["init"]
    <3>1. Manifest[5] = "init"
      BY <1>1
    <3> QED BY <2>4, <3>1, Zenon
  <2> QED BY <2>3, <2>5, Zenon
\* Nothing is new: ...
<1>6. ASSUME \/ UNCHANGED fileVars
             \/ \E content \in {"none", "part"} : Put(Manifest[entry], content)
      PROVE  file'["init"] # "new" /\ "new" \notin disk'["init"]
  <2>1. CASE UNCHANGED fileVars
    BY <1>3, <2>1 DEF fileVars
  <2>2. ASSUME NEW content \in {"none", "part"},
               Put(Manifest[entry], content)
        PROVE  file'["init"] # "new" /\ "new" \notin disk'["init"]
    <3>1. file'["init"] = IF 5 = entry THEN content ELSE file["init"]
      BY <1>1, <1>5, <2>2
    <3>2. disk'["init"] = IF 5 = entry
                          THEN disk["init"] \cup {"none", content}
                          ELSE disk["init"]
      BY <1>5, <2>2
    <3> QED BY <1>3, <3>1, <3>2
  <2> QED BY <1>6, <2>1, <2>2
<1>7. CASE DeleteTarget
  <2>1. file'["init"] # "new" /\ "new" \notin disk'["init"]
    BY <1>6, <1>7 DEF DeleteTarget
  <2>2. up' \in {"delete", "sync"} /\ (up' = "sync" => entry' = 1)
    BY <1>7 DEF DeleteTarget, Step
  <2> QED BY <1>4, <2>1, <2>2 DEF Honest
<1>8. CASE CannotLoad \/ Fails \/ CannotRemove
  <2>1. file'["init"] # "new" /\ "new" \notin disk'["init"]
    BY <1>6, <1>8 DEF CannotLoad, Fails, CannotRemove
  <2>2. up' = "off"
    BY <1>8 DEF CannotLoad, Fails, CannotRemove, Moves, GiveUp
  <2> QED BY <1>4, <2>1, <2>2 DEF Honest
<1>9. CASE Load
  <2>1. file'["init"] # "new" /\ "new" \notin disk'["init"]
    BY <1>6, <1>9 DEF Load
  <2>2. up = "load" /\ up' = "loading" /\ entry' = entry
    BY <1>9 DEF Load, Moves
  <2>3. \A i \in 1..5 : file'[Manifest[i]] = IF i = entry THEN "part"
                                             ELSE file[Manifest[i]]
    BY <1>5, <1>9 DEF Load
  <2>4. \A i \in 1..5 : i < entry => file[Manifest[i]] = "new"
    BY <1>1, <2>2 DEF Honest
  <2>5. \A i \in 1..Last : i < entry' => file'[Manifest[i]] = "new"
    BY <1>1, <2>2, <2>3, <2>4
  <2>6. file'[Manifest[entry']] = "part"
    BY <1>1, <2>2, <2>3
  <2> QED BY <1>4, <2>1, <2>2, <2>5, <2>6 DEF Honest
\* ... or the file is, and those before it are.
<1>10. CASE Loaded \/ ChmodFails
  <2>1. up = "loading" /\ Put(Manifest[entry], "new")
    BY <1>10 DEF Loaded, ChmodFails
  <2>2. \A i \in 1..5 : i < entry => file[Manifest[i]] = "new"
    BY <1>1, <2>1 DEF Honest
  <2>3. \A i \in 1..5 : file'[Manifest[i]] = IF i = entry THEN "new"
                                             ELSE file[Manifest[i]]
    BY <1>5, <2>1
  <2>4. \A i \in 1..5 : i <= entry => file'[Manifest[i]] = "new"
    BY <1>1, <2>2, <2>3
  <2>5. disk'["init"] = IF 5 = entry THEN disk["init"] \cup {"none", "new"}
                        ELSE disk["init"]
    BY <1>5, <2>1
  <2>6. \/ up' = "off"
        \/ entry < 5 /\ entry' = entry + 1 /\ up' = "load"
        \/ entry = 5 /\ up' = "report"
    BY <1>1, <1>10 DEF Loaded, ChmodFails, GiveUp, Step
  <2>7. CASE entry = 5
    <3>1. \A i \in 1..Last : file'[Manifest[i]] \in {"new"}
      BY <1>1, <2>4, <2>7
    <3>2. AllOf(file', {"new"})
      BY <3>1, WholeManifest
    <3>3. AllOf(file, {"new"})' /\ file'["init"] = "new"
      BY <1>1, <3>2 DEF AllOf
    <3>4. disk'["init"] # {"new"}
      BY <2>5, <2>7
    <3>5. up' \in {"off", "report"}
      BY <2>6, <2>7
    <3> QED BY <1>4, <3>3, <3>4, <3>5 DEF Honest
  <2>8. CASE entry # 5
    <3>1. file'["init"] # "new" /\ "new" \notin disk'["init"]
      BY <1>1, <1>3, <2>3, <2>5, <2>8
    <3>2. up' = "off" \/ (entry' = entry + 1 /\ up' = "load")
      BY <2>6, <2>8
    <3>3. up' = "load" =>
            \A i \in 1..Last : i < entry' => file'[Manifest[i]] = "new"
      BY <1>1, <2>4, <3>2
    <3> QED BY <1>4, <3>1, <3>2, <3>3 DEF Honest
  <2> QED BY <2>7, <2>8
<1> QED BY <1>7, <1>8, <1>9, <1>10 DEF Writes

\* Whatever else happens.
LEMMA HonestStep ==
  ASSUME UpdateTypeOK, KeptInv, HonestInv, [UpdateNext]_updateVars
  PROVE  HonestInv'
<1> SUFFICES ASSUME reliable', ~torn' PROVE Honest'
  BY DEF HonestInv
<1>1. "init" \in Targets /\ "client" \in Targets
  BY FiveFiles
<1>2. reliable /\ ~torn
  BY WasReliable
<1>3. Honest
  BY <1>2 DEF HonestInv
<1>4. CASE Writes
  BY <1>2, <1>3, <1>4, HonestWrites
<1>5. CASE Boot \/ LaunchClient \/ ClientEnds \/ UNCHANGED updateVars
  <2>1. UNCHANGED <<file, disk, result, kept, up, entry>>
    BY <1>5 DEF Boot, LaunchClient, ClientEnds, updateVars, fileVars
  <2> QED BY <1>3, <2>1 DEF Honest, AllOf
<1>6. CASE BeginUpdate
  <2>1. /\ UNCHANGED <<file, disk, result, kept>> /\ file["client"] = "old"
        /\ up' = "supervisor"
    BY <1>6 DEF BeginUpdate, Moves, fileVars
  <2>2. file["init"] # "new"
    BY <1>1, <1>3, <2>1 DEF Honest, AllOf
  <2> QED BY <1>3, <2>1, <2>2 DEF Honest, AllOf
<1>7. CASE StopSupervisor \/ StopClient \/ NoDirectory \/ UpdaterKilled
  <2>1. /\ UNCHANGED <<file, disk, kept>>
        /\ up' \in {"client", "delete", "off"}
        /\ up' # "off" => up \in {"supervisor", "client"}
        /\ result' \in {result, "failed"}
    BY <1>7 DEF StopSupervisor, StopClient, NoDirectory, UpdaterKilled, GiveUp,
       Moves, UpdaterOnly, fileVars
  <2> QED BY <1>3, <2>1 DEF Honest, AllOf
<1>8. CASE Report
  <2>1. UNCHANGED <<file, disk, kept>> /\ up = "report" /\ up' = "reboot"
    BY <1>8 DEF Report, Moves, UpdaterOnly, fileVars
  <2> QED BY <1>3, <2>1 DEF Honest, AllOf
<1>9. CASE Sync
  <2>1. /\ UNCHANGED <<file, result, entry>> /\ up = "sync" /\ up' = "load"
        /\ disk' = [f \in Targets |-> {file[f]}] /\ kept' = result
    BY <1>9 DEF Sync, Synced, Moves
  <2>2. /\ file["init"] # "new" /\ entry = 1 /\ result # "success"
    BY <1>3, <2>1 DEF Honest
  <2>3. \A i \in 1..Last : ~(i < entry')
    BY <2>1, <2>2, FiveFiles
  <2>4. file'["init"] # "new" /\ "new" \notin disk'["init"]
    BY <1>1, <2>1, <2>2
  <2> QED BY <2>1, <2>2, <2>3, <2>4 DEF Honest
<1>10. CASE Reboot
  <2>1. /\ UNCHANGED <<file, result>> /\ up = "reboot" /\ up' = "off"
        /\ disk' = [f \in Targets |-> {file[f]}] /\ kept' = result
    BY <1>10 DEF Reboot, Rebooted, Synced, Restart
  <2>2. AllOf(file, {"new"}) /\ file["init"] = "new"
    BY <1>3, <2>1 DEF Honest
  <2>3. \A f \in Targets : disk'[f] = {"new"}
    BY <2>1, <2>2 DEF AllOf
  <2> QED BY <1>1, <2>1, <2>2, <2>3 DEF Honest, AllOf
<1>11. CASE PowerCut
  <2>1. /\ \A f \in Targets : file'[f] \in disk[f] /\ disk'[f] = {file'[f]}
        /\ result' = kept' /\ result' \in {kept, result}
        /\ up' = "off" /\ ~Late
    BY <1>11 DEF PowerCut, Restart
  <2>2. CASE "new" \in disk["init"]
    <3>1. disk["init"] = {"new"}
      BY <2>1, <2>2 DEF Late
    <3>2. \A f \in Targets : disk[f] = {"new"}
      BY <1>3, <3>1 DEF Honest
    <3>3. \A f \in Targets : file'[f] = "new" /\ disk'[f] = {"new"}
      BY <2>1, <3>2
    <3> QED BY <1>1, <2>1, <3>3 DEF Honest, AllOf
  <2>3. CASE "new" \notin disk["init"]
    <3>1. file["init"] # "new"
      BY <1>1, <2>3 DEF KeptInv
    <3>2. result # "success" /\ kept # "success"
      BY <1>3, <2>3, <3>1 DEF Honest
    <3>3. file'["init"] # "new" /\ "new" \notin disk'["init"]
      BY <1>1, <2>1, <2>3
    <3> QED BY <2>1, <3>2, <3>3 DEF Honest
  <2> QED BY <2>2, <2>3
<1> QED
  BY <1>4, <1>5, <1>6, <1>7, <1>8, <1>9, <1>10, <1>11, UpdaterSteps
     DEF UpdateNext, Leaves

-----------------------------------------------------------------------------
(* From one version to the other.                                          *)

\* What stays when neither files nor updater change.
LEMMA SameMode ==
  ASSUME UNCHANGED <<file, disk, up, entry>>
  PROVE  /\ Before => Before'
         /\ Done => Done'
         /\ Dead /\ ~supRuns' /\ ~clientRuns' => Dead'
         /\ Between /\ UNCHANGED boardVars => Between'
<1>1. Before => Before'
  BY DEF Before, AllOf
<1>2. Done => Done'
  BY DEF Done, AllOf
<1>3. Dead /\ ~supRuns' /\ ~clientRuns' => Dead'
  BY DEF Dead
<1>4. Between /\ UNCHANGED boardVars => Between'
  BY DEF Between, Progress, AllOf, boardVars
<1> QED BY <1>1, <1>2, <1>3, <1>4

\* Whom the updater does not run beside.
LEMMA BesideBefore ==
  ASSUME Modes, up \in {"supervisor", "client", "delete", "sync"}
  PROVE  Before
BY DEF Modes, Between, Progress, Dead, Done

LEMMA BesideBetween ==
  ASSUME Modes, up \in {"load", "loading", "report", "reboot"}
  PROVE  Between
BY DEF Modes, Before, Dead, Done

\* The deletion, step by step.
LEMMA ModeDelete ==
  ASSUME UpdateTypeOK, Before, DeleteTarget, refused' = refused
  PROVE  Before'
<1>0. refused \in Nat
  BY RefusedAssumption DEF UpdateTypeOK
<1>1. up = "delete" /\ Put(Manifest[entry], "none")
  BY <1>0 DEF DeleteTarget
<1>2. entry \in 1..5 /\ file \in [Targets -> Contents] /\ Last = 5
        /\ disk \in [Targets -> SUBSET Contents]
  BY FiveFiles DEF UpdateTypeOK
<1>3. \A i \in 1..5 : file'[Manifest[i]] = IF i = entry THEN "none"
                                           ELSE file[Manifest[i]]
  BY <1>1, <1>2, PutOne DEF Contents
<1>4. \A i \in 1..5 : i <= entry => file'[Manifest[i]] = "none"
  BY <1>1, <1>2, <1>3 DEF Before
<1>5. /\ \A f \in Targets : file'[f] \in {file[f], "none"}
      /\ \A f \in Targets : disk'[f] \subseteq disk[f] \cup {"none"}
  BY <1>1, <1>2 DEF Put
<1>6. AllOf(file, {"old", "none"})'
  BY <1>5 DEF Before, AllOf
<1>7. AllOf(disk, SUBSET {"old", "none"})'
  BY <1>5 DEF Before, AllOf
<1>8. \/ entry < 5 /\ entry' = entry + 1 /\ up' = "delete"
      \/ entry = 5 /\ entry' = 1 /\ up' = "sync"
  BY <1>2 DEF DeleteTarget, Step
<1>9. up' = "delete" =>
        \A i \in 1..Last : i < entry' => file'[Manifest[i]] = "none"
  BY <1>2, <1>4, <1>8
<1>10. up' = "sync" => AllOf(file, {"none"})'
  <2> SUFFICES ASSUME up' = "sync" PROVE AllOf(file', {"none"})
    BY DEF AllOf
  <2>1. \A i \in 1..Last : file'[Manifest[i]] \in {"none"}
    BY <1>2, <1>4, <1>8
  <2> QED BY <2>1, WholeManifest
<1>11. /\ up' \in {"off", "supervisor", "client", "delete", "sync"}
       /\ up' \in {"supervisor", "client", "sync"} => entry' = 1
  BY <1>8
<1> QED BY <1>6, <1>7, <1>9, <1>10, <1>11 DEF Before

\* The load, step by step: a place of its own is filled, or left.
LEMMA ModeLoad ==
  ASSUME UpdateTypeOK, Between, reliable,
         Load \/ CannotLoad \/ Loaded \/ Fails \/ CannotRemove \/ ChmodFails
  PROVE  Between'
<1>1. /\ entry \in 1..5 /\ Last = 5 /\ "init" \in Targets
      /\ file \in [Targets -> Contents] /\ disk \in [Targets -> SUBSET Contents]
  BY FiveFiles DEF UpdateTypeOK
<1>2. up \in {"load", "loading"} /\ UNCHANGED boardVars
  BY DEF Load, CannotLoad, Loaded, Fails, CannotRemove, ChmodFails, Moves,
     UpdaterOnly
<1>3. /\ \A f \in Targets : file'[f] \in {file[f], "none", "part", "new"}
      /\ \A f \in Targets :
           /\ disk'[f] \subseteq disk[f] \cup {"none", "part", "new"}
           /\ disk[f] \subseteq disk'[f]
  <2>1. CASE UNCHANGED fileVars
    BY <2>1 DEF fileVars
  <2>2. ASSUME NEW content \in {"none", "part", "new"},
               Put(Manifest[entry], content)
        PROVE  /\ \A f \in Targets :
                    file'[f] \in {file[f], "none", "part", "new"}
               /\ \A f \in Targets :
                    /\ disk'[f] \subseteq disk[f] \cup {"none", "part", "new"}
                    /\ disk[f] \subseteq disk'[f]
    BY <1>1, <2>2 DEF Put
  <2> QED BY <2>1, <2>2, WritesOne DEF Writes
<1>4. AllOf(file, {"none", "part", "new"})'
  BY <1>3 DEF Between, AllOf
<1>5. AllOf(disk, SUBSET {"none", "part", "new"})'
  BY <1>3 DEF Between, AllOf
<1>6. "none" \in disk'["init"]
  BY <1>1, <1>3 DEF Between
<1>7. /\ \A i \in 1..5 : i < entry => file[Manifest[i]] = "new"
      /\ \A i \in 1..5 : i > entry => file[Manifest[i]] = "none"
  BY <1>1, <1>2 DEF Between, Progress
<1>8. Progress'
  <2>1. CASE Load
    <3>1. \A i \in 1..5 : file'[Manifest[i]] = IF i = entry THEN "part"
                                               ELSE file[Manifest[i]]
      BY <1>1, <2>1, PutOne DEF Load, Contents
    <3>2. up' = "loading" /\ entry' = entry
      BY <2>1 DEF Load, Moves
    <3> QED BY <1>1, <1>7, <3>1, <3>2 DEF Progress
  <2>2. CASE Loaded
    <3>1. \A i \in 1..5 : file'[Manifest[i]] = IF i = entry THEN "new"
                                               ELSE file[Manifest[i]]
      BY <1>1, <2>2, PutOne DEF Loaded, Contents
    <3>2. CASE entry < 5
      <4>1. up' = "load" /\ entry' = entry + 1
        BY <1>1, <2>2, <3>2 DEF Loaded, Step
      <4>2. \A i \in 1..5 : /\ i < entry' => file'[Manifest[i]] = "new"
                            /\ i > entry' => file'[Manifest[i]] = "none"
                            /\ i = entry' => file'[Manifest[i]] = "none"
        BY <1>1, <1>7, <3>1, <4>1
      <4>3. entry' \in 1..5
        BY <1>1, <3>2, <4>1
      <4> QED BY <1>1, <4>1, <4>2, <4>3 DEF Progress
    <3>3. CASE entry = 5
      <4>1. up' = "report"
        BY <1>1, <2>2, <3>3 DEF Loaded, Step
      <4>2. \A i \in 1..Last : file'[Manifest[i]] \in {"new"}
        BY <1>1, <1>7, <3>1, <3>3
      <4>3. AllOf(file, {"new"})'
        BY <4>2, WholeManifest DEF AllOf
      <4> QED BY <4>1, <4>3 DEF Progress
    <3> QED BY <1>1, <3>2, <3>3
  <2>3. CASE CannotLoad \/ Fails \/ CannotRemove \/ ChmodFails
    BY <2>3 DEF CannotLoad, Fails, CannotRemove, ChmodFails, GiveUp, Moves,
       Progress
  <2> QED BY <2>1, <2>2, <2>3
<1> QED BY <1>2, <1>4, <1>5, <1>6, <1>8 DEF Between, boardVars

\* Every step of the updater.
LEMMA ModeUpdater ==
  ASSUME UpdateTypeOK, QuietInv, Modes, reliable, Updater, refused' = refused
  PROVE  Before' \/ Between' \/ Done'
<1>1. CASE StopSupervisor \/ StopClient
  <2>1. Before
    BY <1>1, BesideBefore DEF StopSupervisor, StopClient, Moves
  <2>2. UNCHANGED <<file, disk, entry>>
    BY <1>1 DEF StopSupervisor, StopClient, fileVars
  <2>3. up' \in {"client", "delete"} /\ entry = 1
    BY <1>1, <2>1 DEF StopSupervisor, StopClient, Moves, Before
  <2>4. \A i \in 1..Last : ~(i < entry')
    BY <2>2, <2>3, FiveFiles
  <2>5. AllOf(file, {"old", "none"})' /\ AllOf(disk, SUBSET {"old", "none"})'
    BY <2>1, <2>2 DEF Before, AllOf
  <2> QED BY <2>2, <2>3, <2>4, <2>5 DEF Before
<1>2. CASE NoDirectory
  <2>1. Before /\ up' = "off" /\ UNCHANGED <<file, disk>>
    BY <1>2, BesideBefore DEF NoDirectory, GiveUp, fileVars
  <2> QED BY <2>1 DEF Before, AllOf
<1>3. CASE DeleteTarget
  BY <1>3, BesideBefore, ModeDelete DEF DeleteTarget
<1>4. CASE Sync
  <2>1. Before /\ up = "sync" /\ up' = "load"
    BY <1>4, BesideBefore DEF Sync, Moves
  <2>2. ~supRuns /\ ~clientRuns /\ UNCHANGED boardVars /\ ~booting
    BY <1>4, <2>1 DEF QuietInv, Sync
  <2>3. /\ UNCHANGED <<file, entry>> /\ entry = 1 /\ AllOf(file, {"none"})
        /\ disk' = [f \in Targets |-> {file[f]}]
    BY <1>4, <2>1 DEF Sync, Synced, Before
  <2>4. \A f \in Targets : file'[f] = "none" /\ disk'[f] = {"none"}
    BY <2>3 DEF AllOf
  <2>5. /\ AllOf(file, {"none", "part", "new"})'
        /\ AllOf(disk, SUBSET {"none", "part", "new"})'
        /\ "none" \in disk'["init"]
    BY <2>4, FiveFiles DEF AllOf
  <2>6. Progress'
    BY <2>1, <2>3, <2>4, FiveFiles DEF Progress
  <2> QED BY <2>2, <2>5, <2>6 DEF Between, boardVars
<1>5. CASE Load \/ CannotLoad \/ Loaded \/ Fails \/ CannotRemove
           \/ ChmodFails
  <2>1. up \in {"load", "loading"}
    BY <1>5 DEF Load, CannotLoad, Loaded, Fails, CannotRemove, ChmodFails,
       Moves
  <2> QED BY <1>5, <2>1, BesideBetween, ModeLoad
<1>6. CASE Report
  <2>1. Between /\ up = "report" /\ up' = "reboot"
    BY <1>6, BesideBetween DEF Report, Moves
  <2>2. UNCHANGED <<file, disk, boardVars>>
    BY <1>6 DEF Report, UpdaterOnly, fileVars
  <2>3. AllOf(file, {"new"})
    BY <2>1 DEF Between, Progress
  <2> QED BY <2>1, <2>2, <2>3 DEF Between, Progress, AllOf, boardVars
<1>7. CASE Reboot
  <2>1. Between /\ up = "reboot"
    BY <1>7, BesideBetween DEF Reboot
  <2>2. AllOf(file, {"new"})
    BY <2>1 DEF Between, Progress
  <2> QED BY <1>7, <2>2 DEF Reboot, Rebooted, Synced, Restart, Done, AllOf
<1> QED BY <1>1, <1>2, <1>3, <1>4, <1>5, <1>6, <1>7 DEF Updater

\* What a power cut leaves of it.
LEMMA ModeCut ==
  ASSUME Modes, PowerCut, ~torn'
  PROVE  Before' \/ Dead' \/ Done'
<1>1. /\ \A f \in Targets : file'[f] \in disk[f] /\ disk'[f] = {file'[f]}
      /\ up' = "off" /\ ~supRuns' /\ ~clientRuns' /\ ~Late
      /\ "init" \in Targets
  <2>1. PICK left \in [Targets -> UNION {disk[f] : f \in Targets}] :
          /\ \A f \in Targets : left[f] \in disk[f]
          /\ file' = left
          /\ disk' = [f \in Targets |-> {left[f]}]
    BY DEF PowerCut
  <2>2. \A f \in Targets : file'[f] \in disk[f] /\ disk'[f] = {file'[f]}
    BY <2>1
  <2>3. torn' = (torn \/ Late)
    BY DEF PowerCut
  <2>4. ~Late
    BY <2>3, Zenon
  <2>5. up' = "off" /\ ~supRuns' /\ ~clientRuns'
    BY DEF PowerCut, Restart
  <2> QED BY <2>2, <2>4, <2>5, FiveFiles
<1>2. CASE Before
  <2>1. \A f \in Targets : file'[f] \in {"old", "none"}
    BY <1>1, <1>2 DEF Before, AllOf
  <2> QED BY <1>1, <2>1 DEF Before, AllOf
<1>3. CASE Between
  <2>1. disk["init"] \subseteq {"none", "part", "new"} /\ "none" \in disk["init"]
    BY <1>1, <1>3 DEF Between, AllOf
  <2>2. "new" \notin disk["init"]
    BY <1>1, <2>1 DEF Late
  <2>3. file'["init"] \in {"none", "part"}
    BY <1>1, <2>1, <2>2
  <2> QED BY <1>1, <2>3 DEF Dead
<1>4. CASE Dead
  <2>1. file'["init"] \in {"none", "part"}
    BY <1>1, <1>4 DEF Dead
  <2> QED BY <1>1, <2>1 DEF Dead
<1>5. CASE Done
  <2>1. \A f \in Targets : file'[f] = "new"
    BY <1>1, <1>5 DEF Done, AllOf
  <2> QED BY <1>1, <2>1 DEF Done, AllOf
<1> QED BY <1>2, <1>3, <1>4, <1>5 DEF Modes

\* The updater is killed.
LEMMA ModeKilled ==
  ASSUME Modes, UpdaterKilled
  PROVE  Before' \/ Between'
<1>1. /\ up \notin {"off", "reboot"} /\ up' = "off"
      /\ UNCHANGED <<file, disk, boardVars>>
  BY DEF UpdaterKilled, UpdaterOnly, fileVars
<1>2. CASE Before
  BY <1>1, <1>2 DEF Before, AllOf
<1>3. CASE Between
  BY <1>1, <1>3 DEF Between, Progress, AllOf, boardVars
<1> QED BY <1>1, <1>2, <1>3 DEF Modes, Dead, Done

\* Every step of the system.
LEMMA ModeStep ==
  ASSUME UpdateTypeOK, QuietInv, ModeInv, [UpdateNext]_updateVars
  PROVE  ModeInv'
<1> SUFFICES ASSUME reliable', ~torn', refused' = 0
             PROVE  Before' \/ Between' \/ Dead' \/ Done'
  BY DEF ModeInv, Modes
<1>0. reliable /\ ~torn /\ refused = 0 /\ refused' = refused
  <2>1. reliable /\ ~torn
    BY WasReliable
  <2>2. refused' = refused \/ refused' = refused + 1
    BY DEF UpdateNext, Updater, Boot, LaunchClient, ClientEnds, BeginUpdate,
       StopSupervisor, StopClient, NoDirectory, DeleteTarget, Sync, Load,
       CannotLoad, Loaded, Fails, CannotRemove, ChmodFails, Report, Reboot,
       UpdaterKilled, PowerCut, updateVars
  <2>3. refused \in Nat
    BY RefusedAssumption DEF UpdateTypeOK
  <2> QED BY <2>1, <2>2, <2>3
<1>m. Modes
  BY <1>0 DEF ModeInv
<1>1. CASE Boot
  <2>1. /\ UNCHANGED <<file, disk, up, entry, clientRuns>>
        /\ booting /\ supRuns' = (Whole("init") /\ Whole("script"))
    BY <1>1 DEF Boot, fileVars
  <2>2. ~Between /\ ~clientRuns
    BY <2>1 DEF Between, QuietInv
  <2>3. Dead => ~supRuns'
    BY <2>1 DEF Dead, Whole
  <2> QED BY <1>m, <2>1, <2>2, <2>3, SameMode DEF Modes
<1>2. CASE LaunchClient
  <2>1. UNCHANGED <<file, disk, up, entry>> /\ supRuns
    BY <1>2 DEF LaunchClient, fileVars
  <2>2. ~Between /\ ~Dead
    BY <2>1 DEF Between, Dead
  <2> QED BY <1>m, <2>1, <2>2, SameMode DEF Modes
<1>3. CASE ClientEnds
  <2>1. UNCHANGED <<file, disk, up, entry>> /\ clientRuns
    BY <1>3 DEF ClientEnds, fileVars
  <2>2. ~Between /\ ~Dead
    BY <2>1 DEF Between, Dead
  <2> QED BY <1>m, <2>1, <2>2, SameMode DEF Modes
<1>4. CASE BeginUpdate
  <2>1. /\ UNCHANGED <<file, disk>>
        /\ clientRuns /\ up = "off" /\ up' = "supervisor" /\ entry' = 1
        /\ file["client"] = "old" /\ "client" \in Targets
    BY <1>4, FiveFiles DEF BeginUpdate, Moves, fileVars
  <2>2. Before
    BY <1>m, <2>1 DEF Modes, Between, Dead, Done, AllOf
  <2>3. AllOf(file, {"old", "none"})' /\ AllOf(disk, SUBSET {"old", "none"})'
    BY <2>1, <2>2 DEF Before, AllOf
  <2> QED BY <2>1, <2>2, <2>3 DEF Before
<1>5. CASE Updater
  BY <1>0, <1>m, <1>5, ModeUpdater
<1>6. CASE UpdaterKilled
  BY <1>m, <1>6, ModeKilled
<1>7. CASE PowerCut
  BY <1>m, <1>7, ModeCut
<1>8. CASE UNCHANGED updateVars
  <2>1. UNCHANGED <<file, disk, up, entry, supRuns, clientRuns, boardVars>>
    BY <1>8 DEF updateVars, fileVars, boardVars
  <2>2. Dead => ~supRuns' /\ ~clientRuns'
    BY <2>1 DEF Dead
  <2> QED BY <1>m, <2>1, <2>2, SameMode DEF Modes
<1> QED
  BY <1>1, <1>2, <1>3, <1>4, <1>5, <1>6, <1>7, <1>8 DEF UpdateNext

-----------------------------------------------------------------------------
(* The theorems about Update.                                              *)

\* The strengthened invariant holds in every reachable state.
THEOREM UpdateInductive == UpdateSpec => []UpdateInv
<1>1. UpdateInit => UpdateInv
  <2> SUFFICES ASSUME UpdateInit PROVE UpdateInv
    OBVIOUS
  <2>1. QuietInv /\ KeptInv
    BY DEF UpdateInit, QuietInv, KeptInv
  <2>2. \A f \in Targets :
          file[f] \in {"old", "none"} /\ disk[f] = {file[f]}
    BY DEF UpdateInit
  <2>3. Before
    BY <2>2 DEF UpdateInit, Before, AllOf
  <2>4. file["init"] # "new" /\ "new" \notin disk["init"]
    BY <2>2, FiveFiles
  <2>5. Honest
    BY <2>4 DEF UpdateInit, Honest
  <2> QED
    BY <2>1, <2>3, <2>5, UpdateTypeInit
       DEF UpdateInv, ModeInv, Modes, HonestInv
<1>2. UpdateInv /\ [UpdateNext]_updateVars => UpdateInv'
  BY UpdateTypeStep, QuietStep, KeptStep, HonestStep, ModeStep DEF UpdateInv
<1> QED BY <1>1, <1>2, PTL DEF UpdateSpec

\* Every variable has its type.
THEOREM UpdateTypeCorrect == UpdateSpec => []UpdateTypeOK
<1>1. UpdateInv => UpdateTypeOK
  BY DEF UpdateInv
<1> QED BY <1>1, UpdateInductive, PTL

\* Success is reported for a complete update alone, and so it is by what is
\* found after a cut, however often the power is cut and a file outlives its
\* deletion: of a reliable server, that is, one whose two answers for a file
\* are the same and say how long it is (ota_update_template.sh:301-373).
THEOREM SuccessIsComplete == UpdateSpec => []SuccessMeansComplete
<1>1. UpdateInv => SuccessMeansComplete
  BY DEF UpdateInv, HonestInv, Honest, AllOf, SuccessMeansComplete, OfOne
<1> QED BY <1>1, UpdateInductive, PTL

\* No client is launched from a mixture of versions or from part of a file,
\* wherever the update was interrupted: of a reliable server, and if all old
\* files could be deleted (:206 ignores that one cannot).
THEOREM LaunchesOneVersion == UpdateSpec => OneVersion
<1>1. ASSUME UpdateInv, [UpdateNext]_updateVars, ~clientRuns, clientRuns',
             reliable, ~torn, refused = 0
      PROVE  OfOne({"new"}) \/ OfOne({"old", "none"})
  <2>1. LaunchClient
    BY <1>1 DEF UpdateNext, Boot, ClientEnds, BeginUpdate, Updater,
       StopSupervisor, StopClient, NoDirectory, DeleteTarget, Sync, Load,
       CannotLoad, Loaded, Fails, CannotRemove, ChmodFails, Report, Reboot,
       Rebooted, Restart, UpdaterKilled, PowerCut, UpdaterOnly, boardVars,
       updateVars
  <2>2. supRuns
    BY <2>1 DEF LaunchClient
  <2>3. Before \/ Done
    BY <1>1, <2>2 DEF UpdateInv, ModeInv, Modes, Between, Dead
  <2> QED BY <2>3 DEF Before, Done, AllOf, OfOne
<1>2. UpdateInv /\ [UpdateNext]_updateVars =>
        (~clientRuns /\ clientRuns' /\ reliable /\ ~torn /\ refused = 0 =>
           OfOne({"new"}) \/ OfOne({"old", "none"}))
  BY <1>1
<1> QED BY <1>2, UpdateInductive, PTL DEF UpdateSpec, OneVersion
=============================================================================
