--------------------------- MODULE Configuration ---------------------------
(***************************************************************************)
(* The settings files: a cascade of .climon directories from the working   *)
(* directory up to the home directory, then $CLIMON_HOME.  Any process may *)
(* read and rewrite them at any time; nothing locks them, and a file is    *)
(* truncated and then written in place.                                    *)
(*                                                                         *)
(* A file is NoConfig, Unparsable, or the settings it holds.  Three settings *)
(* stand for the registry: color, which may be set anywhere, peerHome,     *)
(* which is read from the global file only, and lastCheck, which only the  *)
(* program itself writes.                                                  *)
(***************************************************************************)
EXTENDS Naturals, Sequences, SequencesExt

CONSTANTS
  Cwds,        \* working directories to start from
  Runners,     \* processes that can run at the same time
  MaxCommands, \* bound: commands run
  MaxKills     \* bound: commands interrupted

ASSUME ConfigAssumption ==
  /\ Cwds \subseteq {"sub", "repo", "home", "outside"}
  /\ MaxCommands \in Nat /\ MaxKills \in Nat

VARIABLES
  cwd,       \* the working directory of all commands
  moved,     \* whether CLIMON_HOME is set
  canonical, \* config.jsonc of each directory
  legacy,    \* config.json of each directory
  backup,    \* config.json.bak of each directory
  cmd,       \* the commands under way
  purged,    \* history: files whose deletion was confirmed
  commands, kills

configVars == <<cwd, moved, canonical, legacy, backup, cmd, purged, commands,
                kills>>

Dirs == {"sub", "repo", "home", "outside", "moved"}
Settings == {"color", "peerHome", "lastCheck"}
GlobalOnly == {"peerHome", "lastCheck"}
AcceptsInput == {"color", "peerHome"}

Unset == "unset"
Values == {Unset, "red", "new", "junk", "auto"}
NoConfig == [k \in Settings |-> "missing"]
Unparsable == [k \in Settings |-> "torn"]
NoSettings == [k \in Settings |-> Unset]
Contents == [Settings -> Values]

(* build_default_config_from_settings: only color has a default here.      *)
Defaults == [NoSettings EXCEPT !["color"] = "auto"]

(* The settings of an older release, found in config.json or config.jsonc. *)
OldSettings == [NoSettings EXCEPT !["color"] = "red", !["peerHome"] = "red"]
Edited == [NoSettings EXCEPT !["color"] = "junk"]

NoCommand == [pc |-> "idle", op |-> "none", key |-> "color", scope |-> "auto",
         dir |-> "home", record |-> NoSettings, migrates |-> FALSE,
         holds |-> FALSE, alone |-> FALSE, before |-> NoSettings,
         files |-> <<>>]

-----------------------------------------------------------------------------
(* The cascade.                                                            *)

ClimonHome == IF moved THEN "moved" ELSE "home"

(* candidate_config_dirs: the working directory and its ancestors below    *)
(* the home directory, only itself when it is elsewhere, then the global   *)
(* directory.                                                              *)
Ancestry == CASE cwd = "sub" -> <<"sub", "repo">>
              [] cwd = "home" -> <<>>
              [] OTHER -> <<cwd>>
Candidates == IF Contains(Ancestry, ClimonHome) THEN Ancestry
              ELSE Append(Ancestry, ClimonHome)

(* existing_config_path_for_dir: config.jsonc hides config.json.           *)
HasConfig(d) == canonical[d] # NoConfig \/ legacy[d] # NoConfig
FileOf(d) == IF canonical[d] # NoConfig THEN canonical[d] ELSE legacy[d]

(* read_sparse_config: a file that cannot be read or parsed is no setting. *)
Sparse(d) == IF FileOf(d) \in Contents THEN FileOf(d) ELSE NoSettings

FirstWhere(dirs, Test(_)) ==
  LET hits == {i \in 1..Len(dirs) : Test(dirs[i])}
  IN IF hits = {} THEN "none"
     ELSE dirs[CHOOSE i \in hits : \A j \in hits : i <= j]

(* resolve_config_setting.                                                 *)
ResolveIn(dirs, k) ==
  LET Defines(d) == Sparse(d)[k] # Unset
      d == FirstWhere(dirs, Defines)
  IN IF d = "none" THEN Unset ELSE Sparse(d)[k]
Resolve(k) == IF k \in GlobalOnly THEN ResolveIn(<<ClimonHome>>, k)
              ELSE ResolveIn(Candidates, k)

(* resolve_write_dir.                                                      *)
WriteDir(scope) ==
  CASE scope = "local" -> cwd
    [] scope = "global" -> ClimonHome
    [] OTHER -> LET d == FirstWhere(Candidates, HasConfig)
                IN IF d = "none" THEN ClimonHome ELSE d

\* Mutant of WriteDirForKey: global settings go to the nearest file.
WriteDirNearest(k, scope) == WriteDir(scope)

(* resolve_write_dir_for_key.                                              *)
WriteDirForKey(k, scope) ==
  IF scope = "auto" /\ k \in GlobalOnly THEN ClimonHome ELSE WriteDir(scope)

(* load_config merges the global file over the defaults and repairs values *)
(* of the wrong kind.                                                      *)
Repaired(c) == [c EXCEPT !["color"] = IF @ \in {Unset, "junk"} THEN "auto" ELSE @]

Mapping(d, file) == [x \in Dirs |-> IF x = d THEN file ELSE NoConfig]

ConfigInit ==
  /\ cwd \in Cwds
  /\ moved \in BOOLEAN
  /\ \E d \in ToSet(Candidates), file \in {NoConfig, OldSettings} :
       canonical \in {Mapping(d, file), Mapping(ClimonHome, Edited),
                     Mapping(ClimonHome, Unparsable)}
  /\ \E d \in ToSet(Candidates), file \in {NoConfig, OldSettings} :
       legacy = Mapping(d, file)
  /\ backup = [d \in Dirs |-> NoConfig]
  /\ cmd = [p \in Runners |-> NoCommand]
  /\ purged = {}
  /\ commands = 0
  /\ kills = 0

-----------------------------------------------------------------------------
(* Commands begin.                                                         *)

Others(p) == {q \in Runners \ {p} : cmd[q] # NoCommand}

Begins(p, c) ==
  /\ cmd[p] = NoCommand /\ commands < MaxCommands
  /\ commands' = commands + 1
  /\ cmd' = [q \in Runners |->
       IF q = p THEN [c EXCEPT !.alone = Others(p) = {},
                               !.before = [k \in Settings |-> Resolve(k)]]
       ELSE [cmd[q] EXCEPT !.alone = FALSE]]
  /\ UNCHANGED <<cwd, moved, canonical, legacy, backup, purged, kills>>

(* `climon config <key> <value>`: parse_config_args refuses keys that do   *)
(* not accept input.  The directory is chosen from what exists now.        *)
SetSetting(p, k, scope) ==
  Begins(p, [NoCommand EXCEPT !.pc = "read", !.op = "set", !.key = k,
                         !.scope = scope, !.dir = WriteDirForKey(k, scope)])

(* The program's own writes: record_check and the like, always global.     *)
ProgramSets(p) ==
  Begins(p, [NoCommand EXCEPT !.pc = "read", !.op = "set", !.key = "lastCheck",
                         !.scope = "global", !.dir = ClimonHome])

(* `climon config --unset <key>`: nothing to do without a file.            *)
UnsetSetting(p, k, scope) ==
  LET d == WriteDirForKey(k, scope)
  IN /\ HasConfig(d)
     /\ Begins(p, [NoCommand EXCEPT !.pc = "read", !.op = "unset", !.key = k,
                               !.scope = scope, !.dir = d])

(* list_existing_config_files: canonical before legacy, along the cascade. *)
FilesIn(d) ==
  (IF canonical[d] # NoConfig THEN <<<<d, "canonical">>>> ELSE <<>>)
    \o (IF legacy[d] # NoConfig THEN <<<<d, "legacy">>>> ELSE <<>>)
FilesOfCandidate(i) ==
  IF i <= Len(Candidates) THEN FilesIn(Candidates[i]) ELSE <<>>
ExistingFiles ==  \* a cascade here has three directories at most
  FilesOfCandidate(1) \o FilesOfCandidate(2) \o FilesOfCandidate(3)

(* A session daemon starts: load_config chooses the global file to read.   *)
LoadConfig(p) ==
  LET d == ClimonHome
  IN Begins(p, [NoCommand EXCEPT !.op = "load", !.dir = d,
                  !.pc = IF HasConfig(d) THEN "load" ELSE "decide",
                  !.files = IF HasConfig(d) THEN <<Head(FilesIn(d))>> ELSE <<>>,
                  !.record = IF HasConfig(d) THEN NoSettings ELSE Defaults])

(* `climon config --purge`: the files are listed once.                     *)
Purge(p) ==
  /\ ExistingFiles # <<>>
  /\ Begins(p, [NoCommand EXCEPT !.pc = "purge", !.op = "purge",
                            !.files = ExistingFiles])

-----------------------------------------------------------------------------
(* Commands continue.                                                      *)

CmdAt(p, pc) == cmd[p].pc = pc
UnchangedConfigFiles == UNCHANGED <<canonical, legacy, backup>>
UnchangedWorld == UNCHANGED <<cwd, moved, commands, kills>>

\* Mutant of ReadSparse: config.json is not read.
ReadSparseCanonical(p) ==
  /\ CmdAt(p, "read")
  /\ LET c == cmd[p]
         found == IF canonical[c.dir] \in Contents THEN canonical[c.dir]
                  ELSE NoSettings
     IN cmd' = [cmd EXCEPT ![p].pc = "decide",
          ![p].record = [found EXCEPT
                           ![c.key] = IF c.op = "set" THEN "new" ELSE Unset]]
  /\ UNCHANGED purged /\ UnchangedConfigFiles /\ UnchangedWorld

(* write_config_setting, unset_config_setting: the sparse file is read and *)
(* the one key changed in it.                                              *)
ReadSparse(p) ==
  /\ CmdAt(p, "read")
  /\ LET c == cmd[p]
     IN cmd' = [cmd EXCEPT ![p].pc = "decide",
          ![p].record = [Sparse(c.dir) EXCEPT
                           ![c.key] = IF c.op = "set" THEN "new" ELSE Unset]]
  /\ UNCHANGED purged /\ UnchangedConfigFiles /\ UnchangedWorld

(* load_config reads the file it chose: when that one is gone, to a purge  *)
(* or to a migration, the defaults are written; a file that does not parse *)
(* is an error.                                                            *)
LoadReads(p) ==
  /\ CmdAt(p, "load")
  /\ LET f == Head(cmd[p].files)
         file == (IF f[2] = "canonical" THEN canonical ELSE legacy)[f[1]]
     IN cmd' = CASE file = NoConfig ->
                      [cmd EXCEPT ![p].pc = "decide", ![p].record = Defaults]
                 [] file = Unparsable -> [cmd EXCEPT ![p].pc = "failed"]
                 [] OTHER -> [cmd EXCEPT ![p].pc = "done",
                                         ![p].record = Repaired(file)]
  /\ UNCHANGED purged /\ UnchangedConfigFiles /\ UnchangedWorld

(* write_sparse_config, save_config: whether there is a legacy file to     *)
(* migrate is decided first,                                               *)
DecideMigration(p) ==
  /\ CmdAt(p, "decide")
  /\ LET d == cmd[p].dir
     IN cmd' = [cmd EXCEPT ![p].pc = "open",
                  ![p].migrates = legacy[d] # NoConfig /\ canonical[d] = NoConfig]
  /\ UNCHANGED purged /\ UnchangedConfigFiles /\ UnchangedWorld

(* then the file is created or truncated.                                  *)
OpenTruncates(p) ==
  /\ CmdAt(p, "open")
  /\ cmd' = [cmd EXCEPT ![p].pc = "fill", ![p].holds = TRUE]
  /\ canonical' = [canonical EXCEPT ![cmd[p].dir] = Unparsable]
  /\ UNCHANGED <<legacy, backup, purged>> /\ UnchangedWorld

(* The text is written from the start of the file that was opened.  Over a *)
(* longer text of another process its tail stays and the file is torn; a   *)
(* file that was deleted meanwhile takes the text with it.                 *)
FillFile(p) ==
  /\ CmdAt(p, "fill")
  /\ LET c == cmd[p]
     IN /\ cmd' = [cmd EXCEPT ![p].pc = IF c.migrates THEN "migrate" ELSE "done"]
        /\ \/ /\ c.holds
              /\ canonical' = [canonical EXCEPT ![c.dir] = c.record]
           \/ /\ c.holds /\ canonical[c.dir] \in Contents
              /\ canonical' = [canonical EXCEPT ![c.dir] = Unparsable]
           \/ ~c.holds /\ UNCHANGED canonical
  /\ UNCHANGED <<legacy, backup, purged>> /\ UnchangedWorld

\* Mutant of MigrateLegacy: a rename that fails is taken for done.
MigrateLegacyUnchecked(p) ==
  /\ CmdAt(p, "migrate")
  /\ LET d == cmd[p].dir
     IN /\ legacy' = [legacy EXCEPT ![d] = NoConfig]
        /\ backup' = [backup EXCEPT ![d] = legacy[d]]
        /\ cmd' = [cmd EXCEPT ![p].pc = "done"]
  /\ UNCHANGED <<canonical, purged>> /\ UnchangedWorld

(* The legacy file is renamed, which fails when it is gone.                *)
MigrateLegacy(p) ==
  /\ CmdAt(p, "migrate")
  /\ LET d == cmd[p].dir
     IN IF legacy[d] = NoConfig
        THEN /\ cmd' = [cmd EXCEPT ![p].pc = "failed"]
             /\ UNCHANGED <<legacy, backup>>
        ELSE /\ legacy' = [legacy EXCEPT ![d] = NoConfig]
             /\ backup' = [backup EXCEPT ![d] = legacy[d]]
             /\ cmd' = [cmd EXCEPT ![p].pc = "done"]
  /\ UNCHANGED <<canonical, purged>> /\ UnchangedWorld

(* One confirmed deletion; a file that is gone by then is an error.  A     *)
(* process that had opened the file goes on writing to nothing.            *)
PurgeFile(p) ==
  /\ CmdAt(p, "purge") /\ cmd[p].files # <<>>
  /\ LET d == Head(cmd[p].files)[1]
         file == Head(cmd[p].files)[2]
         present == (IF file = "canonical" THEN canonical ELSE legacy)[d] # NoConfig
         next == IF present THEN [cmd EXCEPT ![p].files = Tail(@)]
                 ELSE [cmd EXCEPT ![p].pc = "failed"]
     IN IF file = "canonical"
        THEN /\ canonical' = [canonical EXCEPT ![d] = NoConfig]
             /\ cmd' = [q \in Runners |-> IF cmd[q].dir = d
                                          THEN [next[q] EXCEPT !.holds = FALSE]
                                          ELSE next[q]]
             /\ UNCHANGED <<legacy, purged>>
        ELSE /\ legacy' = [legacy EXCEPT ![d] = NoConfig]
             /\ purged' = purged \cup {d}
             /\ cmd' = next
             /\ UNCHANGED canonical
  /\ UNCHANGED backup /\ UnchangedWorld

(* The list is at its end, or the user declined.                           *)
PurgeEnds(p) ==
  /\ CmdAt(p, "purge")
  /\ cmd' = [cmd EXCEPT ![p].pc = "done"]
  /\ UNCHANGED purged /\ UnchangedConfigFiles /\ UnchangedWorld

(* The command prints its result and returns.                              *)
CommandReturns(p) ==
  /\ cmd[p].pc \in {"done", "failed"}
  /\ cmd' = [cmd EXCEPT ![p] = NoCommand]
  /\ UNCHANGED purged /\ UnchangedConfigFiles /\ UnchangedWorld

(* A command is interrupted between two system calls.                      *)
CommandKilled(p) ==
  /\ cmd[p].pc \in {"fill", "migrate"} /\ kills < MaxKills
  /\ kills' = kills + 1
  /\ cmd' = [cmd EXCEPT ![p] = NoCommand]
  /\ UNCHANGED <<cwd, moved, commands, purged>> /\ UnchangedConfigFiles

CommandStep(p) ==
  \/ ReadSparse(p) \/ LoadReads(p) \/ DecideMigration(p) \/ OpenTruncates(p)
  \/ FillFile(p) \/ MigrateLegacy(p) \/ PurgeFile(p) \/ PurgeEnds(p)
  \/ CommandReturns(p)

ConfigNext ==
  \E p \in Runners :
    \/ \E k \in AcceptsInput, scope \in {"auto", "local", "global"} :
         SetSetting(p, k, scope) \/ UnsetSetting(p, k, scope)
    \/ ProgramSets(p) \/ LoadConfig(p) \/ Purge(p)
    \/ CommandStep(p)
    \/ CommandKilled(p)

ConfigSpec == ConfigInit /\ [][ConfigNext]_configVars

-----------------------------------------------------------------------------
(* Files and commands have their form, and what load_config hands to the   *)
(* daemon has been repaired: its color is one that parse_color_mode knows. *)
ConfigTypeOK ==
  /\ \A f \in {canonical, legacy, backup} :
       f \in [Dirs -> Contents \cup {NoConfig, Unparsable}]
  /\ \A p \in Runners :
       /\ cmd[p].record \in Contents
       /\ cmd[p].op = "load" /\ cmd[p].pc = "done"
            => cmd[p].record["color"] \notin {Unset, "junk"}
  /\ purged \subseteq Dirs

(* Quiet(p): p was alone from its start to its end.                        *)
Quiet(p) == cmd[p].pc = "done" /\ cmd[p].alone

(* A set that is reported as done, with no other command around, can be    *)
(* read back by the next `climon config <key>` in the same directory       *)
(* (write_config_setting against resolve_config_setting): always for the   *)
(* directory climon chooses itself; for --local unless the key is global   *)
(* only, which is warned of, or the working directory is the home          *)
(* directory of a moved CLIMON_HOME; for --global unless a nearer file     *)
(* defines the key.                                                        *)
SetIsEffective ==
  \A p \in Runners : Quiet(p) /\ cmd[p].op = "set" =>
    LET c == cmd[p]
        wanted == CASE c.scope = "auto" -> TRUE
                    [] c.scope = "local" -> /\ c.key \notin GlobalOnly
                                            /\ Contains(Candidates, cwd)
                    [] OTHER -> \/ c.key \in GlobalOnly
                                \/ \A d \in Dirs \ {ClimonHome} :
                                     Contains(Candidates, d)
                                       => Sparse(d)[c.key] = Unset
    IN wanted => Resolve(c.key) = "new"

(* A set or an unset, with no other command around, leaves what every      *)
(* other setting resolves to as it was, also when the file did not parse   *)
(* and is replaced, or was a legacy file and is migrated                   *)
(* (read_sparse_config, write_sparse_config).                              *)
OtherSettingsKept ==
  \A p \in Runners : Quiet(p) /\ cmd[p].op \in {"set", "unset"} =>
    \A k \in Settings \ {cmd[p].key} : Resolve(k) = cmd[p].before[k]

\* A command does to the cascade of files what it reports, and nothing else (the
\* parts above; config.rs, config_settings.rs).
ConfigInv ==
    /\ ConfigTypeOK
    /\ SetIsEffective
    /\ OtherSettingsKept

(* The file of an older release is never lost: as long as the user has not *)
(* confirmed its deletion, config.json or config.json.bak holds it,        *)
(* whatever overlaps and wherever a migration is interrupted               *)
(* (write_sparse_config renames it, and only after its settings are in     *)
(* config.jsonc).                                                          *)
LegacyKept ==
  [][\A d \in Dirs : (legacy[d] = OldSettings \/ backup[d] = OldSettings) =>
       \/ legacy'[d] = OldSettings \/ backup'[d] = OldSettings
       \/ d \in purged']_configVars
=============================================================================
