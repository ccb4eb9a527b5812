------------------------------ MODULE Updater ------------------------------
(***************************************************************************)
(* The self-update (internal/updater, internal/home/controlupdate.go):     *)
(* what it does to the executable, the supporting files and the            *)
(* configuration, one file operation at a time, each of which may fail.    *)
(*                                                                         *)
(* A file is "none", "old", "new", or "part" when writing it has failed    *)
(* half way; a configuration file is the value it holds.                   *)
(***************************************************************************)
EXTENDS Naturals, Sequences, FiniteSets, TLC

CONSTANTS
  Versions,     \* versions the announcement may name
  NoVersion,
  Package,      \* "zip" or "targz", what the address of the package ends in
  Rejecting,    \* the versions that do not accept the configuration
  UpdFaults     \* how many file operations may fail

ASSUME UpdaterAssumption == NoVersion \notin Versions /\ Package \in {"zip", "targz"}

VARIABLES
  running,      \* the version of the running program
  exe,          \* the executable in its place: [v, whole] or NoFile
  backupExe,    \* the one in agh-backup
  updateExe,    \* the one in the directory of the update
  helpFile,     \* a supporting file in the working directory
  updateHelp,   \* the same in the directory of the update
  backupHelp,   \* the same in agh-backup
  newVersion,   \* what the last good announcement named
  packageURL,
  upd,          \* where Update is: it holds u.mu all the time
  unpackedFiles,\* files unpacked by the last update
  backupConf,   \* AdGuardHome.yaml in agh-backup
  finishing,    \* a goroutine finishUpdate is running
  unchecked,    \* history: an update of the first run has skipped check
  updFaults     \* operations that have failed

updVars == <<running, exe, backupExe, updateExe, helpFile, updateHelp, backupHelp,
             newVersion, packageURL, upd, unpackedFiles, backupConf, finishing, unchecked,
             updFaults>>

NoFile == [v |-> NoVersion, whole |-> FALSE]
File(v) == [v |-> v, whole |-> TRUE]
Part(v) == [v |-> v, whole |-> FALSE]

Idle == [pc |-> "idle", first |-> FALSE, from |-> "none"]

UpdInit(v) ==
  /\ running = v /\ exe = File(v) /\ backupExe = NoFile /\ updateExe = NoFile
  /\ helpFile = File(v) /\ updateHelp = NoFile /\ backupHelp = NoFile
  /\ newVersion = NoVersion /\ packageURL = NoVersion
  /\ upd = Idle /\ unpackedFiles = {} /\ backupConf = NoVersion
  /\ finishing = FALSE /\ unchecked = FALSE /\ updFaults = 0

\* A file operation that goes wrong.
Faulty == updFaults < UpdFaults /\ updFaults' = updFaults + 1

Process == <<running, newVersion, packageURL, finishing>>

Files == <<exe, backupExe, updateExe, helpFile, updateHelp, backupHelp, backupConf>>

----------------------------------------------------------------------------

\* VersionInfo asks again, and parseVersionResponse keeps what a complete
\* announcement names; an incomplete one leaves the earlier result.
VersionInfo(v) ==
  /\ upd.pc = "idle"
  /\ newVersion' = v /\ packageURL' = v
  /\ UNCHANGED <<running, finishing, Files, upd, unpackedFiles, unchecked, updFaults>>

\* handleUpdate ("http") is refused while no version is known; cmdlineUpdate
\* ("cli") is not made for the running version, and alone may be the first
\* run.
UpdateBegin(from, first) ==
  /\ upd.pc = "idle"
  /\ newVersion # NoVersion
  /\ from = "cli" => newVersion # running
  /\ first => from = "cli"
  /\ upd' = [pc |-> "prepare", first |-> first, from |-> from]
  /\ UNCHANGED <<Process, Files, unpackedFiles, unchecked, updFaults>>

UpdGo(pc) == upd' = [upd EXCEPT !.pc = pc]

\* Update returns an error; clean is deferred only once prepare has succeeded.
UpdFail == Faulty /\ UpdGo("clean")

\* prepare looks at the executable in its place.
prepare ==
  /\ upd.pc = "prepare"
  /\ IF exe = NoFile THEN upd' = Idle ELSE UpdGo("download")
  /\ UNCHANGED <<Process, Files, unpackedFiles, unchecked, updFaults>>

\* What an earlier update has left in the directory stays there.
downloadPackageFile ==
  /\ upd.pc = "download"
  /\ (UpdGo("unpack") /\ UNCHANGED updFaults) \/ UpdFail
  /\ UNCHANGED <<Process, Files, unpackedFiles, unchecked>>

AfterUnpack == UpdGo(IF upd.first THEN "backup" ELSE "check")

\* unpackTarGz goes on with the next file when one has failed, and the end of
\* the archive clears the error; unpackZip stops.  A file that has failed is
\* not in the list.
unpack ==
  /\ upd.pc = "unpack"
  /\ \/ /\ updateExe' = File(packageURL) /\ updateHelp' = File(packageURL)
        /\ unpackedFiles' = {"exe", "help"}
        /\ AfterUnpack /\ UNCHANGED updFaults
     \/ \E bad \in {"exe", "help"} :
          /\ Faulty
          /\ updateExe'  = IF bad = "exe" THEN Part(packageURL) ELSE File(packageURL)
          /\ updateHelp' = IF bad = "help" THEN Part(packageURL)
                           ELSE IF Package = "targz" THEN File(packageURL) ELSE updateHelp
          /\ unpackedFiles' = {"exe", "help"} \ {bad}
          /\ IF Package = "targz" THEN AfterUnpack ELSE UpdGo("clean")
  /\ UNCHANGED <<Process, exe, backupExe, helpFile, backupHelp, backupConf, unchecked>>

\* Mutant: the outcome of the new program is ignored.
CheckIgnored ==
  /\ upd.pc = "check"
  /\ UpdGo("backup")
  /\ UNCHANGED <<Process, Files, unpackedFiles, unchecked, updFaults>>

\* check runs the new program over a copy of the configuration: a damaged one
\* does not start, and one that rejects the configuration exits with an error.
check ==
  /\ upd.pc = "check"
  /\ \/ /\ UpdGo(IF updateExe.whole /\ packageURL \notin Rejecting THEN "backup" ELSE "clean")
        /\ UNCHANGED updFaults
     \/ UpdFail
  /\ UNCHANGED <<Process, Files, unpackedFiles, unchecked>>

\* backup copies the configuration, except on the first run, and the
\* supporting files that have been unpacked.
backup(conf) ==
  /\ upd.pc = "backup"
  /\ backupConf' = IF upd.first THEN backupConf ELSE conf
  /\ \/ /\ backupHelp' = IF "help" \in unpackedFiles THEN helpFile ELSE backupHelp
        /\ UpdGo("replaceHelp") /\ UNCHANGED updFaults
     \/ /\ backupHelp' = IF "help" \in unpackedFiles THEN Part(helpFile.v) ELSE backupHelp
        /\ UpdFail
  /\ UNCHANGED <<Process, exe, backupExe, updateExe, helpFile, updateHelp, unpackedFiles, unchecked>>

\* replace: first the supporting files are overwritten,
ReplaceHelp ==
  /\ upd.pc = "replaceHelp"
  /\ \/ /\ helpFile' = IF "help" \in unpackedFiles THEN updateHelp ELSE helpFile
        /\ UpdGo("rename1") /\ UNCHANGED updFaults
     \/ /\ "help" \in unpackedFiles
        /\ helpFile' = Part(updateHelp.v)
        /\ UpdFail
  /\ UNCHANGED <<Process, exe, backupExe, updateExe, updateHelp, backupHelp, backupConf,
                 unpackedFiles, unchecked>>

\* then the executable is moved to the backup directory,
RenameToBackup ==
  /\ upd.pc = "rename1"
  /\ \/ /\ backupExe' = exe /\ exe' = NoFile
        /\ UpdGo("rename2") /\ UNCHANGED updFaults
     \/ UpdFail /\ UNCHANGED <<exe, backupExe>>
  /\ UNCHANGED <<Process, updateExe, helpFile, updateHelp, backupHelp, backupConf, unpackedFiles,
                 unchecked>>

\* and the new one to its place.  After a failure nothing is moved back.
RenameNew ==
  /\ upd.pc = "rename2"
  /\ \/ /\ exe' = updateExe /\ updateExe' = NoFile
        /\ unchecked' = (unchecked \/ upd.first)
        /\ UpdGo("done") /\ UNCHANGED updFaults
     \/ UpdFail /\ UNCHANGED <<exe, updateExe, unchecked>>
  /\ UNCHANGED <<Process, backupExe, helpFile, updateHelp, backupHelp, backupConf, unpackedFiles>>

\* clean removes the directory of the update, after a failure and a success,
\* and u.mu is free again.  After a success handleUpdate answers and starts
\* finishUpdate in a goroutine.
clean ==
  /\ upd.pc \in {"clean", "done"}
  /\ updateExe' = NoFile /\ updateHelp' = NoFile
  /\ upd' = Idle
  /\ finishing' = (finishing \/ (upd.pc = "done" /\ upd.from = "http"))
  /\ UNCHANGED <<running, newVersion, packageURL, exe, backupExe, helpFile, backupHelp, backupConf,
                 unpackedFiles, unchecked, updFaults>>

\* A new process runs what is in the place of the executable.
UpdStart ==
  /\ running' = exe.v
  /\ newVersion' = NoVersion /\ packageURL' = NoVersion /\ finishing' = FALSE
  /\ upd' = Idle /\ unpackedFiles' = {}
  /\ UNCHANGED <<Files, unchecked, updFaults>>

\* The process ends, wherever an update was.
UpdDown == upd' = Idle /\ finishing' = FALSE
           /\ UNCHANGED <<running, newVersion, packageURL, Files, unpackedFiles, unchecked, updFaults>>

UpdStep(conf) ==
  \/ prepare \/ downloadPackageFile \/ unpack \/ check \/ backup(conf)
  \/ ReplaceHelp \/ RenameToBackup \/ RenameNew \/ clean

----------------------------------------------------------------------------
(* Property. *)

\* Whatever file operation fails, whenever the program is killed, and though
\* a second update may begin before the first has restarted the program,
\* there is always a whole executable in its place or in agh-backup, and the
\* one in its place is whole and accepts the configuration unless the update
\* of a first run has put it there unchecked (updater.go:328, updater.go:503).
UpdateRecoverable ==
  /\ exe.whole \/ backupExe.whole
  /\ exe # NoFile /\ ~unchecked => exe.whole /\ exe.v \notin Rejecting
=============================================================================
