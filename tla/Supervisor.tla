------------------------------ MODULE Supervisor ------------------------------
(***************************************************************************)
(* The scripts that keep the client running on the board                   *)
(* (src/scripts/self_start): start_zh_client.sh with its start, stop and   *)
(* restart, the daemon it leaves behind (the supervisor), and kill.sh.     *)
(*                                                                         *)
(* Scripts are run by init, by whoever installs and by hand, and nothing   *)
(* keeps two of them apart but the lock directory.  Every command of a     *)
(* script is a step.  A process may be killed between any two steps.  A    *)
(* supervisor is named by its pid; its client by the pid of the supervisor *)
(* that launched it, whom it may outlive.                                  *)
(***************************************************************************)
EXTENDS Naturals, FiniteSets

CONSTANTS
  Scripts,   \* numbers for the scripts that are run at the same time
  Pids,      \* the pids of supervisors, and how many there may be at a time
  MaxRuns,   \* bound on the scripts run
  MaxKills   \* bound on the processes killed from outside

ASSUME ScriptsAssumption == Scripts \subseteq Nat
ASSUME PidsAssumption == Pids \subseteq Nat \ {0}
ASSUME BoundsAssumption == MaxRuns \in Nat /\ MaxKills \in Nat

Commands == {"start", "stop", "restart", "kill"}
NoPid == 0

VARIABLES
  \* SUP_LOCK_DIR and SUP_PID_FILE
  lock, pidFile,
  \* a script: its place, its command, the supervisor it has forked, the
  \* processes it has listed and not yet killed
  at, command, forked, listed,
  \* a supervisor: its place
  sup,
  \* its client
  client,
  \* whether all that a launch needs is in its place
  whole,
  \* how many scripts were run and processes killed
  runs, kills,
  \* history: a script has begun alone and nothing has interfered since; no
  \* start was ever disturbed
  alone, tidy

scriptVars == <<at, command, forked, listed>>
supVars    == <<sup, client>>

vars == <<lock, pidFile, scriptVars, supVars, whole, runs, kills, alone, tidy>>

Init ==
  /\ lock = FALSE /\ pidFile = NoPid
  /\ at = [x \in Scripts |-> "idle"]
  /\ command = [x \in Scripts |-> "start"]
  /\ forked = [x \in Scripts |-> NoPid]
  /\ listed = [x \in Scripts |-> {}]
  /\ sup = [s \in Pids |-> "none"]
  /\ client = [s \in Pids |-> "none"]
  /\ whole \in BOOLEAN
  /\ runs = 0 /\ kills = 0
  /\ alone = FALSE /\ tidy = TRUE

-----------------------------------------------------------------------------
(* A supervisor: daemon_loop.                                              *)

\* The places of a supervisor that its command line tells: before it has
\* executed the script anew it looks like the start that forked it.
Running == {"prepare", "launch", "wait"}

Goes(s, from, to) == sup[s] = from /\ sup' = [sup EXCEPT ![s] = to]

\* The script is executed anew; it plays a prompt and sleeps first.
Loads(s) ==
  /\ Goes(s, "forked", "prepare")
  /\ UNCHANGED client

\* prepare_runtime_libs; while something is missing it sleeps and looks again.
\* ensure_rkaiq_running makes its RKAIQ_MAX_RETRIES attempts, and whatever
\* comes of them the client is launched.
Prepare(s) ==
  /\ whole
  /\ Goes(s, "prepare", "launch")
  /\ UNCHANGED client

\* cleanup_face_engine, ensure_face_save_dir and the fork of the client.
Launch(s) ==
  /\ whole
  /\ Goes(s, "launch", "wait")
  /\ client' = [client EXCEPT ![s] = "forked"]

NoFaceDir(s) ==
  /\ ~whole
  /\ Goes(s, "launch", "prepare")
  /\ UNCHANGED client

\* The client has exited: sleep and begin again.
Relaunch(s) ==
  /\ client[s] = "none"
  /\ Goes(s, "wait", "prepare")
  /\ UNCHANGED client

Supervise(s) ==
  /\ \/ Loads(s) \/ Prepare(s) \/ Launch(s) \/ NoFaceDir(s) \/ Relaunch(s)
  /\ UNCHANGED <<lock, pidFile, scriptVars, whole, runs, kills, alone, tidy>>

\* The forked process becomes the client, if there is one to become.
ClientLoads(s) ==
  /\ client[s] = "forked"
  /\ client' = [client EXCEPT ![s] = IF whole THEN "up" ELSE "none"]
  /\ UNCHANGED <<lock, pidFile, scriptVars, sup, whole, runs, kills,
                 alone, tidy>>

ClientExits(s) ==
  /\ client[s] = "up"
  /\ client' = [client EXCEPT ![s] = "none"]
  /\ UNCHANGED <<lock, pidFile, scriptVars, sup, whole, runs, kills,
                 alone, tidy>>

-----------------------------------------------------------------------------
(* start_supervisor.                                                       *)

\* is_supervisor_running
IsRunning == pidFile # NoPid /\ sup[pidFile] \in Running

StartPlaces == {"mkdir", "judge", "clear", "again", "check", "drop", "fork",
                "record", "leave"}

Others(x) == Scripts \ {x}

Alone(x) == \A y \in Others(x) : at[y] = "idle"

\* Nothing disturbs a start that begins now: no script is under way and the
\* supervisor of the last one has come as far as to be recognized.
Undisturbed(x) == Alone(x) /\ \A s \in Pids : sup[s] # "forked"

Move(x, from, to) == at[x] = from /\ at' = [at EXCEPT ![x] = to]

TakeLock(x) ==
  /\ Move(x, "mkdir", IF lock THEN "judge" ELSE "check")
  /\ lock' = TRUE
  /\ UNCHANGED <<pidFile, command, forked, listed, supVars>>

\* The lock was there: of a start under way, or left by one that was killed.
JudgeLock(x) ==
  /\ Move(x, "judge", IF IsRunning THEN "idle" ELSE "clear")
  /\ UNCHANGED <<lock, pidFile, command, forked, listed, supVars>>

\* Mutant: the lock that was found is left alone.
LeaveLock(x) == Move(x, "clear", "again") /\ UNCHANGED lock

RemoveLock(x) == Move(x, "clear", "again") /\ lock' = FALSE

ClearLock(x) ==
  /\ RemoveLock(x)
  /\ UNCHANGED <<pidFile, command, forked, listed, supVars>>

RetakeLock(x) ==
  /\ Move(x, "again", IF lock THEN "idle" ELSE "check")
  /\ lock' = TRUE
  /\ UNCHANGED <<pidFile, command, forked, listed, supVars>>

\* Mutant: once the lock is taken nobody looks for a supervisor.
NeverRunning == FALSE

FoundRunning == IsRunning

CheckRunning(x) ==
  /\ Move(x, "check", IF FoundRunning THEN "leave" ELSE "drop")
  /\ UNCHANGED <<lock, pidFile, command, forked, listed, supVars>>

DropPidFile(x) ==
  /\ Move(x, "drop", "fork")
  /\ pidFile' = NoPid
  /\ UNCHANGED <<lock, command, forked, listed, supVars>>

Free(s) == sup[s] = "none" /\ client[s] = "none"

\* Which pid it gets does not matter: the least.
Fork(x) ==
  /\ Move(x, "fork", "record")
  /\ \E s \in Pids :
       /\ Free(s) /\ \A t \in Pids : t < s => ~Free(t)
       /\ sup' = [sup EXCEPT ![s] = "forked"]
       /\ forked' = [forked EXCEPT ![x] = s]
  /\ UNCHANGED <<lock, pidFile, command, listed, client>>

Record(x) ==
  /\ Move(x, "record", "leave")
  /\ pidFile' = forked[x]
  /\ forked' = [forked EXCEPT ![x] = NoPid]
  /\ UNCHANGED <<lock, command, listed, supVars>>

\* The trap on EXIT.
Leave(x) ==
  /\ Move(x, "leave", "idle")
  /\ lock' = FALSE
  /\ UNCHANGED <<pidFile, command, forked, listed, supVars>>

Start(x) ==
  /\ \/ TakeLock(x) \/ JudgeLock(x) \/ ClearLock(x) \/ RetakeLock(x)
     \/ CheckRunning(x) \/ DropPidFile(x) \/ Fork(x) \/ Record(x) \/ Leave(x)
  /\ UNCHANGED tidy

-----------------------------------------------------------------------------
(* stop_supervisor, and the rest of kill.sh.                               *)

Sup(s) == [is |-> "sup", of |-> s]
Client(s) == [is |-> "client", of |-> s]
Script(x) == [is |-> "script", of |-> x]

\* What ps shows as "start_zh_client.sh daemon".
Daemons ==
  {Sup(s) : s \in {s \in Pids : sup[s] \in Running}}
    \cup {Client(s) : s \in {s \in Pids : client[s] = "forked"}}

\* Mutant: only supervisors are looked for.
RelatedSups(x) == {Sup(s) : s \in {s \in Pids : sup[s] # "none"}}

\* What kill.sh looks for: all of the scripts too, but not itself.
Related(x) ==
  {Sup(s) : s \in {s \in Pids : sup[s] # "none"}}
    \cup {Client(s) : s \in {s \in Pids : client[s] # "none"}}
    \cup {Script(y) : y \in {y \in Others(x) :
                               at[y] # "idle" /\ command[y] # "kill"}}

List(x, from, procs, to) ==
  /\ Move(x, from, to)
  /\ listed' = [listed EXCEPT ![x] = procs]
  /\ UNCHANGED <<lock, pidFile, command, forked, supVars>>

Trapped == {"check", "drop", "fork", "record", "leave"}

KillSup(s) == sup' = [sup EXCEPT ![s] = "none"]
KillClient(s) == client' = [client EXCEPT ![s] = "none"]

\* A process that was listed is killed; a script that traps TERM removes the
\* lock and goes on.
Signal(x, here, signal) ==
  /\ at[x] = here
  /\ \E p \in listed[x] :
       \/ /\ p.is = "sup" /\ KillSup(p.of)
          /\ listed' = [listed EXCEPT ![x] = @ \ {p}]
          /\ UNCHANGED <<lock, at, forked, client>>
       \/ /\ p.is = "client" /\ KillClient(p.of)
          /\ listed' = [listed EXCEPT ![x] = @ \ {p}]
          /\ UNCHANGED <<lock, at, forked, sup>>
       \/ /\ p.is = "script"
          /\ IF signal = "TERM" /\ at[p.of] \in Trapped
             THEN lock' = FALSE /\ UNCHANGED <<at, forked>>
                  /\ listed' = [listed EXCEPT ![x] = @ \ {p}]
             ELSE /\ at' = [at EXCEPT ![p.of] = "idle"]
                  /\ forked' = [forked EXCEPT ![p.of] = NoPid]
                  /\ listed' = [listed EXCEPT ![x] = @ \ {p}, ![p.of] = {}]
                  /\ UNCHANGED lock
          /\ UNCHANGED <<sup, client>>
  /\ UNCHANGED <<pidFile, command>>

Swept(x, from, to) ==
  /\ listed[x] = {}
  /\ Move(x, from, to)
  /\ UNCHANGED <<lock, pidFile, command, forked, listed, supVars>>

\* Mutant: only what ps shows is killed.
KillNone == UNCHANGED sup

\* The recorded process, whatever it is.
KillOld == IF pidFile = NoPid THEN UNCHANGED sup ELSE KillSup(pidFile)

KillRecorded(x, from, none, some) ==
  /\ Move(x, from, IF pidFile = NoPid THEN none ELSE some)
  /\ KillOld
  /\ UNCHANGED <<lock, pidFile, command, forked, listed, client>>

RemovePidFile(x, from, to) ==
  /\ Move(x, from, to)
  /\ pidFile' = NoPid
  /\ UNCHANGED <<lock, command, forked, listed, supVars>>

\* killall zh_client
KillClients(x, from, to) ==
  /\ Move(x, from, to)
  /\ client' = [s \in Pids |-> IF client[s] = "up" THEN "none" ELSE client[s]]
  /\ UNCHANGED <<lock, pidFile, command, forked, listed, sup>>

AfterStop(x) == CASE command[x] = "stop" -> "idle"
                  [] command[x] = "restart" -> "mkdir"
                  [] command[x] = "kill" -> "pid2"
                  [] command[x] = "start" -> "idle"

\* The end of stop_supervisor; a restart goes on with a start.
RemoveStopLock(x) ==
  /\ Move(x, "rmlock", AfterStop(x))
  /\ lock' = FALSE
  /\ tidy' = (tidy /\ (command[x] = "restart" => Undisturbed(x)))
  /\ UNCHANGED <<pidFile, command, forked, listed, supVars>>

Stop(x) ==
  \/ /\ \/ List(x, "scan", Daemons, "sweep")
        \/ Signal(x, "sweep", "TERM") \/ Swept(x, "sweep", "pid")
        \/ KillRecorded(x, "pid", "clients", "rmpid")
        \/ RemovePidFile(x, "rmpid", "clients")
        \/ KillClients(x, "clients", "rmlock")
     /\ UNCHANGED tidy
  \/ RemoveStopLock(x)

RemoveDir(x) ==
  /\ Move(x, "rmdir", "idle")
  /\ lock' = FALSE
  /\ UNCHANGED <<pidFile, command, forked, listed, supVars>>

\* kill.sh after it has called stop.
KillAll(x) ==
  /\ \/ KillRecorded(x, "pid2", "clients2", "rmpid2")
     \/ RemovePidFile(x, "rmpid2", "clients2")
     \/ KillClients(x, "clients2", "list")
     \/ List(x, "list", Related(x), "term")
     \/ Signal(x, "term", "TERM") \/ Swept(x, "term", "list2")
     \/ List(x, "list2", Related(x), "kill")
     \/ Signal(x, "kill", "KILL") \/ Swept(x, "kill", "rmpid3")
     \/ RemovePidFile(x, "rmpid3", "rmdir")
     \/ RemoveDir(x)
  /\ UNCHANGED tidy

RunScript(x) ==
  /\ Start(x) \/ Stop(x) \/ KillAll(x)
  /\ UNCHANGED <<whole, runs, kills, alone>>

-----------------------------------------------------------------------------
(* The world.                                                              *)

\* Which of those not under way is run again does not matter: the least.
Begin(x) ==
  /\ at[x] = "idle" /\ runs < MaxRuns
  /\ \A y \in Scripts : y < x => at[y] # "idle"
  /\ runs' = runs + 1
  /\ \E c \in Commands :
       /\ command' = [command EXCEPT ![x] = c]
       /\ at' = [at EXCEPT ![x] = IF c = "start" THEN "mkdir" ELSE "scan"]
       /\ tidy' = /\ tidy
                  /\ \A y \in Others(x) : at[y] \notin StartPlaces
                  /\ c = "start" => Undisturbed(x)
  /\ alone' = Alone(x)
  /\ UNCHANGED <<lock, pidFile, forked, listed, supVars, whole, kills>>

KillSupervisor(s) ==
  /\ sup[s] # "none"
  /\ KillSup(s)
  /\ UNCHANGED <<at, forked, listed, tidy>>

KillScript(x) ==
  /\ at[x] # "idle"
  /\ at' = [at EXCEPT ![x] = "idle"]
  /\ forked' = [forked EXCEPT ![x] = NoPid]
  /\ listed' = [listed EXCEPT ![x] = {}]
  /\ tidy' = (tidy /\ at[x] # "record")
  /\ UNCHANGED sup

Kill ==
  /\ kills < MaxKills
  /\ kills' = kills + 1
  /\ alone' = FALSE
  /\ \/ \E s \in Pids : KillSupervisor(s)
     \/ \E x \in Scripts : KillScript(x)
  /\ UNCHANGED <<lock, pidFile, command, client, whole, runs>>

\* Files are put in place, replaced, removed.
Files ==
  /\ whole' = ~whole
  /\ UNCHANGED <<lock, pidFile, scriptVars, supVars, runs, kills, alone, tidy>>

Next ==
  \/ \E s \in Pids : Supervise(s) \/ ClientLoads(s) \/ ClientExits(s)
  \/ \E x \in Scripts : RunScript(x) \/ Begin(x)
  \/ Kill \/ Files

Spec == Init /\ [][Next]_vars

-----------------------------------------------------------------------------
(* Properties.                                                             *)

Places ==
  {"idle"} \cup StartPlaces
    \cup {"scan", "sweep", "pid", "rmpid", "clients", "rmlock"}
    \cup {"pid2", "rmpid2", "clients2", "list", "term", "list2", "kill",
          "rmpid3", "rmdir"}

Processes ==
  [is : {"sup", "client"}, of : Pids] \cup [is : {"script"}, of : Scripts]

\* Every variable has its type.
TypeOK ==
  /\ lock \in BOOLEAN /\ whole \in BOOLEAN
  /\ alone \in BOOLEAN /\ tidy \in BOOLEAN
  /\ pidFile \in Pids \cup {NoPid}
  /\ at \in [Scripts -> Places]
  /\ command \in [Scripts -> Commands]
  /\ forked \in [Scripts -> Pids \cup {NoPid}]
  /\ listed \in [Scripts -> SUBSET Processes]
  /\ sup \in [Pids -> {"none", "forked"} \cup Running]
  /\ client \in [Pids -> {"none", "forked", "up"}]
  /\ runs \in 0..MaxRuns /\ kills \in 0..MaxKills

\* There is one supervisor, as long as no start was disturbed: locks and pid
\* files that dead ones left behind do not let in another.
OneSupervisor ==
  tidy => \A s, t \in Pids : sup[s] # "none" /\ sup[t] # "none" => s = t

\* A start that nothing interferes with leaves a supervisor running, whatever
\* came before it: no lock and no pid file keeps it from that.
StartTakesEffect ==
  [][\A x \in Scripts :
       at[x] \in StartPlaces /\ at'[x] = "idle" /\ alone' =>
         \E s \in Pids : sup'[s] # "none"]_vars

\* A stop leaves no supervisor, as long as no start was disturbed.  (It may
\* leave a client, see README.md.)
StopIsComplete ==
  [][\A x \in Scripts :
       at[x] = "rmlock" /\ at'[x] # "rmlock" /\ alone' /\ tidy =>
         \A s \in Pids : sup'[s] = "none"]_vars

\* kill.sh, run alone, leaves nothing, whatever came before it: no supervisor
\* however many there were, no client, no lock, no pid file (README.md:299).
KillStopsAll ==
  [][\A x \in Scripts :
       at[x] = "rmdir" /\ at'[x] = "idle" /\ alone' =>
         /\ \A s \in Pids : sup'[s] = "none" /\ client'[s] = "none"
         /\ ~lock' /\ pidFile' = NoPid]_vars

-----------------------------------------------------------------------------
(* The parts of the inductive invariant.                                   *)

NoSup == \A s \in Pids : sup[s] = "none"

\* The places of a stop behind its look at the pid file.
PastPidFile == {"rmpid", "clients", "rmlock", "pid2", "rmpid2", "clients2",
                "list", "term", "list2", "kill", "rmpid3", "rmdir"}

\* As long as no start was disturbed: a start is alone, and finds what there
\* is; a stop finds it too; and the pid file names it.
TidyInv ==
  tidy =>
    /\ \A x \in Scripts :
         /\ at[x] \in StartPlaces => Alone(x)
         /\ at[x] \in StartPlaces \ {"record", "leave"} =>
              \A s \in Pids : sup[s] # "forked"
         /\ at[x] \in {"drop", "fork"} \cup PastPidFile => NoSup
         /\ at[x] = "record" =>
              \A s \in Pids : sup[s] # "none" => s = forked[x]
    /\ (\A x \in Scripts : at[x] # "record") =>
         \A s \in Pids : sup[s] # "none" => s = pidFile

\* What a script that is alone has achieved on reaching its place.
Achieved(x) ==
  /\ at[x] = "again" => ~lock
  /\ at[x] = "record" => forked[x] \in Pids /\ sup[forked[x]] # "none"
  /\ at[x] = "leave" => ~NoSup
  /\ at[x] = "term" =>
       \A s \in Pids : sup[s] # "none" => Sup(s) \in listed[x]
  /\ at[x] \in {"list2", "kill", "rmpid3", "rmdir"} => NoSup
  /\ at[x] = "kill" =>
       \A s \in Pids : client[s] # "none" => Client(s) \in listed[x]
  /\ at[x] \in {"rmpid3", "rmdir"} => \A s \in Pids : client[s] = "none"
  /\ at[x] = "rmdir" => pidFile = NoPid

AloneInv ==
  alone => \A x \in Scripts : at[x] # "idle" => Alone(x) /\ Achieved(x)
=============================================================================
