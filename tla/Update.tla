-------------------------------- MODULE Update --------------------------------
(***************************************************************************)
(* The update of the program over the air                                  *)
(* (src/scripts/installer/ota_update_template.sh), with what it replaces:  *)
(* the client, the supervisor that keeps it running and the script that    *)
(* starts the supervisor when the board boots.                             *)
(*                                                                         *)
(* There is no room for two versions: the old files are all deleted, then  *)
(* the new ones are loaded one by one to their places.  The updater may    *)
(* fail or be killed, and the power may be cut, between any two steps; then *)
(* each file holds something it held since the last sync.                  *)
(*                                                                         *)
(* The names are not those of Supervisor, so that the two modules of the   *)
(* board's scripts can be extended together.                               *)
(***************************************************************************)
EXTENDS Naturals, Sequences

CONSTANTS
  MaxCuts,     \* bound on the power cuts
  MaxRefused   \* bound on the files that cannot be deleted

ASSUME CutsAssumption    == MaxCuts \in Nat
ASSUME RefusedAssumption == MaxRefused \in Nat

\* The files in the order of build_default_manifest, alike ones together:
\* the client, what it is linked with (a copy next to the client), the
\* supervisor, what init calls.
Manifest == <<"engine", "library", "client", "script", "init">>

Targets == {Manifest[i] : i \in 1..Len(Manifest)}
Last == Len(Manifest)

Contents == {"old", "none", "part", "new"}

VARIABLES
  \* what the files hold, and what each may hold after a power cut: all it
  \* has held since the last sync
  file, disk,
  \* OTA_RESULT_FILE, and what of it was there at the last sync
  result, kept,
  \* the updater: its place and the entry of the manifest it is at
  up, entry,
  \* whether supervisor and client run
  supRuns, clientRuns,
  \* whether init has yet to call its scripts
  booting,
  \* whether the board has the core library in lib/, where the package puts
  \* it: the client finds that one first, and the manifest does not name it
  inLib,
  \* whether the server says how long its files are, and gives the same answer
  \* to the two requests that are made for each
  reliable,
  \* how often power was cut
  cuts,
  \* history: power was cut after the last file was loaded, before the reboot;
  \* how many files could not be deleted before an update
  torn, refused

boardVars == <<supRuns, clientRuns, booting>>
fileVars  == <<file, disk>>
worldVars == <<inLib, reliable, cuts, torn>>

updateVars == <<fileVars, result, kept, up, entry, boardVars, worldVars,
                refused>>

UpdateInit ==
  /\ inLib \in BOOLEAN
  /\ file = [f \in Targets |->
              IF f = "library" /\ inLib THEN "none" ELSE "old"]
  /\ disk = [f \in Targets |-> {file[f]}]
  /\ result = "none" /\ kept = "none"
  /\ up = "off" /\ entry = 1
  /\ supRuns = FALSE /\ clientRuns = FALSE /\ booting = TRUE
  /\ reliable \in BOOLEAN
  /\ cuts = 0 /\ torn = FALSE /\ refused = 0

Whole(f) == file[f] \in {"old", "new"}

-----------------------------------------------------------------------------
(* Boot and supervisor, as far as they depend on the files.                *)

\* S22zh_client calls start_zh_client.sh, which leaves a supervisor; of a part
\* of a script nothing is run.
Boot ==
  /\ booting
  /\ booting' = FALSE
  /\ supRuns' = (Whole("init") /\ Whole("script"))
  /\ UNCHANGED <<fileVars, result, kept, up, entry, clientRuns, worldVars,
                 refused>>

\* The supervisor makes what there is of the client executable and runs it.
LaunchClient ==
  /\ supRuns /\ ~clientRuns
  /\ file["client"] # "none"
  /\ inLib \/ file["library"] # "none"
  /\ clientRuns' = TRUE
  /\ UNCHANGED <<fileVars, result, kept, up, entry, supRuns, booting,
                 worldVars, refused>>

ClientEnds ==
  /\ clientRuns
  /\ clientRuns' = FALSE
  /\ UNCHANGED <<fileVars, result, kept, up, entry, supRuns, booting,
                 worldVars, refused>>

-----------------------------------------------------------------------------
(* The updater.                                                            *)

Moves(from, to) == up = from /\ up' = to

\* The old client is told of a new version and runs the script.
BeginUpdate ==
  /\ clientRuns /\ file["client"] = "old"
  /\ Moves("off", "supervisor")
  /\ entry' = 1
  /\ UNCHANGED <<fileVars, result, kept, boardVars, worldVars, refused>>

StopLoop == supRuns' = FALSE

\* stop_supervisor_only
StopSupervisor ==
  /\ Moves("supervisor", "client")
  /\ StopLoop
  /\ UNCHANGED <<fileVars, result, kept, entry, clientRuns, booting,
                 worldVars, refused>>

\* stop_client_only
StopClient ==
  /\ Moves("client", "delete")
  /\ clientRuns' = FALSE
  /\ UNCHANGED <<fileVars, result, kept, entry, supRuns, booting,
                 worldVars, refused>>

UpdaterOnly == UNCHANGED <<kept, boardVars, worldVars>>

\* A file is deleted, or deleted and written.
Put(f, content) ==
  /\ file' = [file EXCEPT ![f] = content]
  /\ disk' = [disk EXCEPT ![f] = @ \cup {"none", content}]

\* The next entry of the manifest, or what comes after the last one.
Step(here, after) ==
  IF entry < Last THEN entry' = entry + 1 /\ up' = here
                  ELSE entry' = 1 /\ up' = after

\* delete_targets_before_update: that rm fails is ignored.
DeleteTarget ==
  /\ up = "delete"
  /\ \/ Put(Manifest[entry], "none") /\ UNCHANGED refused
     \/ /\ file[Manifest[entry]] # "none" /\ UNCHANGED fileVars
        /\ refused < MaxRefused /\ refused' = refused + 1
  /\ Step("delete", "sync")
  /\ UpdaterOnly /\ UNCHANGED result

\* Mutant: what was deleted is not synced.
NoSync == UNCHANGED <<disk, kept>>

Synced == disk' = [f \in Targets |-> {file[f]}] /\ kept' = result

Sync ==
  /\ Moves("sync", "load")
  /\ Synced
  /\ UNCHANGED <<file, result, entry, boardVars, worldVars, refused>>

\* apply_one: the file is there from its first byte on.
Load ==
  /\ Moves("load", "loading")
  /\ Put(Manifest[entry], "part")
  /\ UpdaterOnly /\ UNCHANGED <<result, entry, refused>>

\* That rm or mkdir fails is not ignored here: the script ends (set -e), and
\* reports nothing.
CannotLoad ==
  /\ Moves("load", "off")
  /\ UNCHANGED fileVars \/ Put(Manifest[entry], "none")
  /\ UpdaterOnly /\ UNCHANGED <<result, entry, refused>>

\* Offset and length are taken from the answer to a first request, the bytes
\* from that to a second, whose header nobody looks at; they are then counted,
\* if there is a length.  A damaged file passes unless the server is reliable.
Loaded ==
  /\ up = "loading"
  /\ Put(Manifest[entry], "new") \/ (~reliable /\ UNCHANGED fileVars)
  /\ Step("load", "report")
  /\ UpdaterOnly /\ UNCHANGED <<result, refused>>

\* Mutant: the loop over the manifest goes on, and so does the script.
GoOn == Step("load", "report") /\ UNCHANGED result

\* fail: the result is written; the loop is left, and with it the script.
GiveUp == up' = "off" /\ result' = "failed" /\ UNCHANGED entry

\* The working directory cannot be made.
NoDirectory ==
  /\ up = "delete" /\ entry = 1
  /\ GiveUp
  /\ UpdaterOnly /\ UNCHANGED <<fileVars, refused>>

Fails ==
  /\ up = "loading"
  /\ Put(Manifest[entry], "none")
  /\ GiveUp
  /\ UpdaterOnly /\ UNCHANGED refused

\* ... or what was loaded cannot be removed, and the script ends there.
CannotRemove ==
  /\ Moves("loading", "off")
  /\ UpdaterOnly /\ UNCHANGED <<fileVars, result, entry, refused>>

\* chmod fails, the file stays.
ChmodFails ==
  /\ up = "loading"
  /\ Put(Manifest[entry], "new") \/ (~reliable /\ UNCHANGED fileVars)
  /\ GiveUp
  /\ UpdaterOnly /\ UNCHANGED refused

Report ==
  /\ Moves("report", "reboot")
  /\ result' = "success"
  /\ UpdaterOnly /\ UNCHANGED <<fileVars, entry, refused>>

Restart ==
  /\ up' = "off" /\ entry' = 1
  /\ supRuns' = FALSE /\ clientRuns' = FALSE /\ booting' = TRUE

\* Mutant: the script ends without a reboot.
NoReboot == up' = "off" /\ UNCHANGED <<disk, kept, entry, boardVars>>

\* reboot syncs.
Rebooted == Synced /\ Restart

Reboot ==
  /\ up = "reboot"
  /\ Rebooted
  /\ UNCHANGED <<file, result, worldVars, refused>>

Updater ==
  \/ StopSupervisor \/ StopClient \/ NoDirectory \/ DeleteTarget \/ Sync
  \/ Load \/ CannotLoad \/ Loaded \/ Fails \/ CannotRemove \/ ChmodFails
  \/ Report \/ Reboot

-----------------------------------------------------------------------------
(* The world.                                                              *)

\* The reboot follows its report at once.
UpdaterKilled ==
  /\ up \notin {"off", "reboot"}
  /\ up' = "off" /\ entry' = 1
  /\ UpdaterOnly /\ UNCHANGED <<fileVars, result, refused>>

\* All files are loaded, and not all are sure to be on the disk.
Late == "new" \in disk["init"] /\ disk["init"] # {"new"}

PowerCut ==
  /\ cuts < MaxCuts /\ cuts' = cuts + 1
  /\ \E left \in [Targets -> UNION {disk[f] : f \in Targets}] :
       /\ \A f \in Targets : left[f] \in disk[f]
       /\ file' = left
       /\ disk' = [f \in Targets |-> {left[f]}]
  /\ \E r \in {kept, result} : result' = r /\ kept' = r
  /\ torn' = (torn \/ Late)
  /\ Restart
  /\ UNCHANGED <<inLib, reliable, refused>>

UpdateNext == Boot \/ LaunchClient \/ ClientEnds \/ BeginUpdate \/ Updater
        \/ UpdaterKilled \/ PowerCut

\* Init and supervisor do their work, and so does the updater: but a download
\* may hang for ever.
UpdateFairness ==
  /\ WF_updateVars(Boot) /\ WF_updateVars(LaunchClient)
  /\ WF_updateVars(Updater /\ up # "loading")

UpdateSpec == UpdateInit /\ [][UpdateNext]_updateVars /\ UpdateFairness

-----------------------------------------------------------------------------
(* Properties.                                                             *)

\* Every variable has its type.
UpdateTypeOK ==
  /\ file \in [Targets -> Contents] /\ disk \in [Targets -> SUBSET Contents]
  /\ result \in {"none", "failed", "success"}
  /\ kept \in {"none", "failed", "success"}
  /\ up \in {"off", "supervisor", "client", "delete", "sync", "load",
             "loading", "report", "reboot"}
  /\ entry \in 1..Last
  /\ supRuns \in BOOLEAN /\ clientRuns \in BOOLEAN /\ booting \in BOOLEAN
  /\ inLib \in BOOLEAN /\ reliable \in BOOLEAN
  /\ torn \in BOOLEAN /\ refused \in 0..MaxRefused
  /\ cuts \in 0..MaxCuts

OfOne(versions) == \A f \in Targets : file[f] \in versions

\* No client is launched from a mixture of versions or from part of a file,
\* as far as the manifest goes: what init calls is deleted with all the rest,
\* that is synced, and it comes back last.  Not so after a cut between the last
\* file and the reboot, when the server is not reliable, or when a file could
\* not be deleted: such a one stays, and if it is what init calls the board
\* comes up with the new files that were loaded before it.
OneVersion ==
  [][~clientRuns /\ clientRuns' /\ reliable /\ ~torn /\ refused = 0 =>
       OfOne({"new"}) \/ OfOne({"old", "none"})]_updateVars

\* Success is reported for a complete update alone, also by what is found
\* after a cut, and although a file may have outlived the deletion.
SuccessMeansComplete ==
  result = "success" /\ reliable /\ ~torn => OfOne({"new"})

\* After a success the new client comes up.
SuccessIsServed ==
  (result = "success" /\ reliable /\ ~torn) ~> (clientRuns \/ torn)
=============================================================================
