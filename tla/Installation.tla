---------------------------- MODULE Installation ----------------------------
(***************************************************************************)
(* The install directory and the three kinds of processes that write to    *)
(* it or decide from it: the background version check, `climon update` and *)
(* the installer.  Any of them may die between two system calls, and       *)
(* nothing keeps two of them from running at once.                         *)
(*                                                                         *)
(* A version is a number; the content of a file is the version of the      *)
(* binary, Absent, or Torn for a copy that was cut short.  The settings    *)
(* update.availableVersion, update.lastCheck and update.auto are cells     *)
(* that are written at once.                                               *)
(***************************************************************************)
EXTENDS Integers

CONSTANTS
  Procs,           \* processes that can run at the same time
  MaxRelease,      \* bound: releases published, the first one included
  MaxInstalls,     \* bound: runs of the installer
  MaxFaults        \* bound: failed steps and processes that die

ASSUME InstallAssumption ==
  MaxRelease \in Nat \ {0} /\ MaxInstalls \in Nat /\ MaxFaults \in Nat

VARIABLES
  windows,    \* whether the build is the one for Windows
  released,   \* the version of the latest release
  file,       \* the content of each installed file
  old,        \* the content of its .old sibling
  marker,     \* the .version file of the installer
  available,  \* update.availableVersion, Absent when it is empty
  due,        \* whether update.lastCheck is a day old
  auto,       \* update.auto
  proc,       \* the processes
  hurt,       \* history: files a process was interrupted on
  installs, faults

installVars == <<windows, released, file, old, marker, available, due, auto,
                 proc, hurt, installs, faults>>

Absent == 0
Torn == -1
Files == {"climon", "server"}
Versions == 1..MaxRelease

(* install_files_for_platform: the launcher is replaced before the server. *)
FileAt == [i \in 1..2 |-> IF i = 1 THEN "climon" ELSE "server"]

IdleProc == [kind |-> "none", pc |-> "rest", own |-> Absent, new |-> Absent,
             at |-> 1, deferred |-> FALSE, displaced |-> FALSE,
             retried |-> FALSE, applied |-> {}]

(* A process of the given kind; own is the VERSION compiled into it.       *)
Started(kind, pc, own, new) ==
  [IdleProc EXCEPT !.kind = kind, !.pc = pc, !.own = own, !.new = new]

InstallInit ==
  /\ windows \in BOOLEAN
  /\ released = 1
  /\ file = [f \in Files |-> 1]
  /\ old = [f \in Files |-> Absent]
  /\ marker = 1
  /\ available = Absent
  /\ due = TRUE
  /\ auto \in BOOLEAN
  /\ proc = [p \in Procs |-> IdleProc]
  /\ hurt = {}
  /\ installs = 0
  /\ faults = 0

-----------------------------------------------------------------------------
(* The world outside.                                                      *)

Publish ==
  /\ released < MaxRelease
  /\ released' = released + 1
  /\ UNCHANGED <<windows, file, old, marker, available, due, auto, proc, hurt,
                 installs>>

DayPasses ==
  /\ ~due
  /\ due' = TRUE
  /\ UNCHANGED <<windows, released, file, old, marker, available, auto, proc,
                 hurt, installs>>

-----------------------------------------------------------------------------
(* Launch hooks.                                                           *)

(* banner_decision: the cached version is compared again with the version  *)
(* of the launcher that runs.                                              *)
SpawnsUpdate == available > file["climon"] /\ auto

(* An interactive launch: a detached update in automatic mode, then a      *)
(* detached check when the last one is a day old.                          *)
LaunchHooks(p, q) ==
  /\ file["climon"] \in Versions
  /\ p # q /\ proc[p] = IdleProc /\ proc[q] = IdleProc
  /\ proc' = [proc EXCEPT
       ![p] = IF SpawnsUpdate
              THEN Started("update", "fetch", file["climon"], Absent) ELSE @,
       ![q] = IF due
              THEN Started("check", "fetch", file["climon"], Absent) ELSE @]
  /\ UNCHANGED <<windows, released, file, old, marker, available, due, auto,
                 hurt, installs>>

UserUpdates(p) ==
  /\ file["climon"] \in Versions
  /\ proc[p] = IdleProc
  /\ proc' = [proc EXCEPT
       ![p] = Started("update", "fetch", file["climon"], Absent)]
  /\ UNCHANGED <<windows, released, file, old, marker, available, due, auto,
                 hurt, installs>>

(* The user runs the installer of some release.                            *)
UserInstalls(p, v) ==
  /\ installs < MaxInstalls
  /\ v <= released
  /\ proc[p] = IdleProc
  /\ proc' = [proc EXCEPT ![p] = Started("install", "onboard", v, v)]
  /\ installs' = installs + 1
  /\ UNCHANGED <<windows, released, file, old, marker, available, due, auto,
                 hurt>>

-----------------------------------------------------------------------------
(* Steps of a process.                                                     *)

At(p, kind, pc) == proc[p].kind = kind /\ proc[p].pc = pc
Here(p) == FileAt[proc[p].at]
Goto(p, pc) == proc' = [proc EXCEPT ![p].pc = pc]
Ends(p) == proc' = [proc EXCEPT ![p] = IdleProc]

UnchangedExceptProc ==
  UNCHANGED <<windows, released, file, old, marker, available, due, auto, hurt,
              installs>>
UnchangedFiles ==
  UNCHANGED <<windows, released, file, old, marker, auto, hurt, installs>>
UnchangedSettings ==
  UNCHANGED <<windows, released, marker, available, due, auto, installs>>

(* The background check reads the manifest ...                             *)
CheckFetches(p) ==
  /\ At(p, "check", "fetch")
  /\ proc' = [proc EXCEPT ![p].pc = "note", ![p].new = released]
  /\ UnchangedExceptProc

CheckFetchFails(p) ==
  /\ At(p, "check", "fetch")
  /\ Goto(p, "record")
  /\ UnchangedExceptProc

\* Mutant of CheckNotes: the versions are compared the wrong way round.
CheckNotesSwapped(p, artifact) ==
  /\ At(p, "check", "note")
  /\ available' = IF artifact /\ proc[p].own > proc[p].new
                  THEN proc[p].new ELSE Absent
  /\ Goto(p, "record")
  /\ due' = due
  /\ UnchangedFiles

(* ... caches a newer version that has an artifact for this platform, or   *)
(* clears the cache ...                                                    *)
CheckNotes(p, artifact) ==
  /\ At(p, "check", "note")
  /\ available' = IF artifact /\ proc[p].new > proc[p].own
                  THEN proc[p].new ELSE Absent
  /\ Goto(p, "record")
  /\ due' = due
  /\ UnchangedFiles

(* ... and records the time, also when it was offline.                     *)
CheckRecords(p) ==
  /\ At(p, "check", "record")
  /\ due' = FALSE
  /\ available' = available
  /\ Ends(p)
  /\ UnchangedFiles

(* run_update_command up to the swaps: the manifest must be newer than     *)
(* this process and have an artifact, the download must carry a valid      *)
(* signature and be a readable archive.                                    *)
UpdateFetches(p) ==
  /\ At(p, "update", "fetch")
  /\ IF released > proc[p].own
     THEN proc' = [proc EXCEPT ![p].pc = "download", ![p].new = released]
     ELSE Ends(p)
  /\ UnchangedExceptProc

UpdateDownloads(p) ==
  /\ At(p, "update", "download")
  /\ Goto(p, "stage")
  /\ UnchangedExceptProc

(* Offline, no artifact, oversize, bad signature, bad archive, no space    *)
(* for the temporary file: the update ends and nothing was changed by the  *)
(* step that failed.                                                       *)
UpdateGivesUp(p) ==
  /\ proc[p].kind = "update"
  /\ proc[p].pc \in {"fetch", "download", "stage"}
  /\ Ends(p)
  /\ UnchangedExceptProc

NextFile(r) == IF r.at = 1 THEN [r EXCEPT !.at = 2, !.pc = "stage",
                                          !.displaced = FALSE]
                           ELSE [r EXCEPT !.pc = "finish", !.displaced = FALSE]

(* replace_file_atomic writes the temporary file; an archive may lack the  *)
(* file, which then stays as it is.                                        *)
UpdateStages(p) ==
  /\ At(p, "update", "stage")
  /\ Goto(p, "swap")
  /\ UnchangedExceptProc

UpdateSkips(p) ==
  /\ At(p, "update", "stage")
  /\ proc' = [proc EXCEPT ![p] = [NextFile(proc[p]) EXCEPT
                                    !.applied = @ \cup {Here(p)}]]
  /\ UnchangedExceptProc

(* Unix: one rename over the target.                                       *)
RenameOver(p) ==
  /\ At(p, "update", "swap") /\ ~windows
  /\ file' = [file EXCEPT ![Here(p)] = proc[p].new]
  /\ proc' = [proc EXCEPT ![p] = [NextFile(proc[p]) EXCEPT
                                    !.applied = @ \cup {Here(p)}]]
  /\ UNCHANGED <<old, hurt>> /\ UnchangedSettings

(* The rename fails, on Windows for another reason than a locked file.     *)
RenameFails(p) ==
  /\ At(p, "update", "swap")
  /\ Ends(p)
  /\ UnchangedExceptProc

(* Windows: the target makes room, as .old, ...                            *)
Displaces(p) ==
  /\ At(p, "update", "swap") /\ windows
  /\ old' = [old EXCEPT ![Here(p)] = file[Here(p)]]
  /\ file' = [file EXCEPT ![Here(p)] = Absent]
  /\ proc' = [proc EXCEPT ![p].pc = "place",
                          ![p].displaced = file[Here(p)] # Absent]
  /\ UNCHANGED hurt /\ UnchangedSettings

(* ... unless it is locked: then the file is deferred and an older .old    *)
(* has been removed.                                                       *)
Defers(p) ==
  /\ At(p, "update", "swap") /\ windows
  /\ file[Here(p)] # Absent
  /\ old' = [old EXCEPT ![Here(p)] = Absent]
  /\ proc' = [proc EXCEPT ![p] = [NextFile(proc[p]) EXCEPT !.deferred = TRUE]]
  /\ UNCHANGED <<file, hurt>> /\ UnchangedSettings

Places(p) ==
  /\ At(p, "update", "place")
  /\ file' = [file EXCEPT ![Here(p)] = proc[p].new]
  /\ proc' = [proc EXCEPT ![p] = [NextFile(proc[p]) EXCEPT
                                    !.applied = @ \cup {Here(p)}]]
  /\ UNCHANGED <<old, hurt>> /\ UnchangedSettings

\* Mutant of PlaceFails: the displaced file is not put back.
PlaceFailsKeeping(p) ==
  /\ At(p, "update", "place")
  /\ hurt' = IF proc[p].displaced /\ old[Here(p)] = Absent
             THEN hurt \cup {Here(p)} ELSE hurt
  /\ Ends(p)
  /\ UNCHANGED <<file, old>> /\ UnchangedSettings

(* The second rename fails: the displaced file is put back, if it is still *)
(* there.                                                                  *)
PlaceFails(p) ==
  /\ At(p, "update", "place")
  /\ LET f == Here(p)
         back == proc[p].displaced /\ old[f] # Absent
     IN /\ file' = IF back THEN [file EXCEPT ![f] = old[f]] ELSE file
        /\ old' = IF back THEN [old EXCEPT ![f] = Absent] ELSE old
        /\ hurt' = IF proc[p].displaced /\ ~back THEN hurt \cup {f} ELSE hurt
  /\ Ends(p)
  /\ UnchangedSettings

\* Mutant of UpdateCleans: a deferred file is not noticed.
UpdateCleansBlindly(p) ==
  /\ At(p, "update", "finish")
  /\ \E locked \in SUBSET Files :
       old' = [f \in Files |-> IF f \in locked THEN old[f] ELSE Absent]
  /\ Goto(p, "clear")
  /\ UNCHANGED <<file, hurt>> /\ UnchangedSettings

(* cleanup_old_files, some of which may still be locked; an update that    *)
(* deferred a file ends here.                                              *)
UpdateCleans(p) ==
  /\ At(p, "update", "finish")
  /\ \E locked \in SUBSET Files :
       old' = [f \in Files |-> IF f \in locked THEN old[f] ELSE Absent]
  /\ IF proc[p].deferred THEN Ends(p) ELSE Goto(p, "clear")
  /\ UNCHANGED <<file, hurt>> /\ UnchangedSettings

(* run_update_cli after a complete update.                                 *)
UpdateClears(p) ==
  /\ At(p, "update", "clear")
  /\ available' = Absent
  /\ due' = due
  /\ Ends(p)
  /\ UnchangedFiles

-----------------------------------------------------------------------------
(* The installer: run_installer_main.                                      *)

(* Onboarding persists the answers; it may also leave them as they are.    *)
Onboards(p, choice) ==
  /\ At(p, "install", "onboard")
  /\ auto' = choice
  /\ Goto(p, "copy")
  /\ UNCHANGED <<windows, released, file, old, marker, available, due, hurt,
                 installs>>

(* A copy starts: Windows moves the target away and deletes it, Unix       *)
(* truncates it in place.                                                  *)
CopyStarts(p) ==
  /\ At(p, "install", "copy")
  /\ file' = [file EXCEPT ![Here(p)] = IF windows THEN Absent ELSE Torn]
  /\ Goto(p, "fill")
  /\ UNCHANGED <<old, hurt>> /\ UnchangedSettings

CopyEnds(p) ==
  /\ At(p, "install", "fill")
  /\ file' = [file EXCEPT ![Here(p)] = proc[p].new]
  /\ proc' = [proc EXCEPT ![p].pc = IF @ = "fill" /\ proc[p].at = 1
                                    THEN "copy" ELSE "mark",
                          ![p].at = 2]
  /\ UNCHANGED <<old, hurt>> /\ UnchangedSettings

(* The target is locked.  Once, the user may agree to kill the running     *)
(* processes (by name on Windows; the pattern used on Unix does not match  *)
(* `climon update`), and all files are copied from the first one on.       *)
CopyLocked(p, agrees) ==
  /\ At(p, "install", "copy")
  /\ LET retries == agrees /\ ~proc[p].retried
         killed == {q \in Procs \ {p} : /\ windows /\ retries
                                        /\ proc[q].kind \in {"update", "check"}}
     IN /\ proc' = [q \in Procs |->
             IF q \in killed \/ (q = p /\ ~retries) THEN IdleProc
             ELSE IF q = p THEN [proc[p] EXCEPT !.at = 1, !.retried = TRUE]
             ELSE proc[q]]
        /\ hurt' = hurt \cup {Here(q) : q \in {r \in killed :
                                                 proc[r].pc = "place"}}
  /\ UNCHANGED <<windows, released, file, old, marker, available, due, auto,
                 installs>>

(* A step of the installer fails: a sibling is missing, no space, a        *)
(* profile that cannot be written.                                         *)
InstallFails(p) ==
  /\ proc[p].kind = "install"
  /\ hurt' = IF proc[p].pc = "fill" THEN hurt \cup {Here(p)} ELSE hurt
  /\ Ends(p)
  /\ UNCHANGED <<file, old>> /\ UnchangedSettings

(* The .version file is written after all binaries are in place; the PATH  *)
(* entry that follows is left out.                                         *)
InstallMarks(p) ==
  /\ At(p, "install", "mark")
  /\ marker' = proc[p].new
  /\ Ends(p)
  /\ UNCHANGED <<windows, released, file, old, available, due, auto, hurt,
                 installs>>

(* A process dies between two system calls.                                *)
ProcDies(p) ==
  /\ proc[p] # IdleProc
  /\ hurt' = IF proc[p].pc \in {"place", "fill"}
             THEN hurt \cup {Here(p)} ELSE hurt
  /\ Ends(p)
  /\ UNCHANGED <<windows, released, file, old, marker, available, due, auto,
                 installs>>

-----------------------------------------------------------------------------
(* Steps that succeed, steps that meet an obstacle, and the user.          *)
Succeeds(p) ==
  /\ \/ CheckFetches(p) \/ CheckNotes(p, TRUE) \/ CheckRecords(p)
     \/ UpdateFetches(p) \/ UpdateDownloads(p) \/ UpdateStages(p)
     \/ RenameOver(p) \/ Displaces(p) \/ Places(p)
     \/ UpdateCleans(p) \/ UpdateClears(p)
     \/ \E choice \in BOOLEAN : Onboards(p, choice)
     \/ CopyStarts(p) \/ CopyEnds(p) \/ InstallMarks(p)
  /\ faults' = faults

Falters(p) ==
  /\ faults < MaxFaults
  /\ faults' = faults + 1
  /\ \/ CheckFetchFails(p) \/ CheckNotes(p, FALSE)
     \/ UpdateGivesUp(p) \/ UpdateSkips(p) \/ RenameFails(p) \/ Defers(p)
     \/ PlaceFails(p) \/ InstallFails(p) \/ ProcDies(p)
     \/ \E agrees \in BOOLEAN : CopyLocked(p, agrees)

LaunchesNow == (\E p, q \in Procs : LaunchHooks(p, q)) /\ faults' = faults
DayGoesBy == DayPasses /\ faults' = faults

InstallNext ==
  \/ DayGoesBy \/ LaunchesNow
  \/ Publish /\ faults' = faults
  \/ \E p \in Procs :
       \/ Succeeds(p) \/ Falters(p)
       \/ UserUpdates(p) /\ faults' = faults
       \/ \E v \in Versions : UserInstalls(p, v) /\ faults' = faults

(* Days pass, the user launches sessions again and again, and a process    *)
(* that runs goes on; obstacles are bounded by MaxFaults.                  *)
InstallFairness ==
  /\ WF_installVars(DayGoesBy)
  /\ SF_installVars(LaunchesNow)
  /\ \A p \in Procs : WF_installVars(Succeeds(p))

InstallSpec == InstallInit /\ [][InstallNext]_installVars /\ InstallFairness

-----------------------------------------------------------------------------
(* Every variable has its type.                                            *)
InstallTypeOK ==
  /\ windows \in BOOLEAN /\ due \in BOOLEAN /\ auto \in BOOLEAN
  /\ released \in Versions
  /\ file \in [Files -> Versions \cup {Absent, Torn}]
  /\ old \in [Files -> Versions \cup {Absent, Torn}]
  /\ marker \in Versions
  /\ available \in Versions \cup {Absent}
  /\ hurt \subseteq Files
  /\ installs \in 0..MaxInstalls /\ faults \in 0..MaxFaults
  /\ \A p \in Procs :
       /\ proc[p].kind \in {"none", "check", "update", "install"}
       /\ proc[p].own \in Versions \cup {Absent}
       /\ proc[p].new \in Versions \cup {Absent}
       /\ proc[p].at \in 1..2
       /\ proc[p].applied \subseteq Files

(* The process p is replacing f and has made the old content unavailable.  *)
Replacing(p, f) == proc[p].pc \in {"place", "fill"} /\ Here(p) = f

(* "so the install is never left with no executable at the expected path": *)
(* a file is missing or torn only while a process replaces it, or after    *)
(* one was interrupted, or robbed of the displaced file, while it did.     *)
NeverWithoutExecutable ==
  \A f \in Files :
    file[f] \in {Absent, Torn} =>
      f \in hurt \/ \E p \in Procs : Replacing(p, f)

(* An update is about to clear the cached version only if it put its own   *)
(* version of every file of the archive in place, none deferred.           *)
ClearedWhenApplied ==
  \A p \in Procs : At(p, "update", "clear") => proc[p].applied = Files

\* Updates, checks and installers that overlap, fail and die leave executables in
\* place and clear the cached version for cause (the parts above; swap.rs,
\* update_cmd.rs).
InstallInv ==
    /\ InstallTypeOK
    /\ NeverWithoutExecutable
    /\ ClearedWhenApplied

(* In automatic mode the launcher is brought to the latest release again   *)
(* and again, whatever overlapping updates, stale checks, an old installer *)
(* and deferred swaps did to it, unless it was lost altogether.            *)
LauncherCatchesUp ==
  []<>(file["climon"] = released \/ file["climon"] \in {Absent, Torn} \/ ~auto)

(* "Update could not be applied right now (files in use). Will retry       *)
(* later.": an automatic update that was deferred leads to an install      *)
(* whose files are all at least of that version.                           *)
DeferredIsRetried ==
  \A p \in Procs, v \in Versions :
    (auto /\ proc[p].deferred /\ proc[p].new = v)
      ~> (~auto \/ \A f \in Files : file[f] >= v \/ f \in hurt)
=============================================================================
