---------------------------- MODULE CommandProofs ----------------------------
(***************************************************************************)
(* Proofs about the files that commands of the program change: settings,   *)
(* for any set of commands that overlap, any working directory and any     *)
(* bounds, and the installation, for any number of processes:              *)
(*   - ConfigCorrect: a command that nothing overlaps does to what the     *)
(*     cascade of files resolves to what it reports, and nothing else;     *)
(*   - LegacyNeverLost: whatever overlaps, the file of an older release    *)
(*     stays, in its place or in the backup;                               *)
(*   - InstallCorrect: overlapping updates, checks and installers leave    *)
(*     executables in place and clear the cached version for cause.        *)
(* The inductive invariant of the settings relates a command under way to  *)
(* the files at every stage: its record stands for the file of its         *)
(* directory from the moment it was made, and with that the cascade still  *)
(* says what it said when the command began.  That of the installation     *)
(* says which process owes a missing file: one that has displaced it and   *)
(* not yet placed the new one.  A second one that found it already missing *)
(* owes nothing.                                                           *)
(***************************************************************************)
EXTENDS Configuration, Installation, SequenceTheorems, TLAPS

----------------------------------------------------------------------------
(* Settings files *)

Pcs == {"idle", "read", "load", "decide", "open", "fill", "migrate", "purge", "done", "failed"}
Ops == {"none", "set", "unset", "load", "purge"}
Scopes == {"auto", "local", "global"}
FileKinds == {"canonical", "legacy"}
FileRefs == Dirs \X FileKinds
FileStates == Contents \cup {NoConfig, Unparsable}

Cmds ==
  [pc : Pcs, op : Ops, key : Settings, scope : Scopes, dir : Dirs, record : Contents,
   migrates : BOOLEAN, holds : BOOLEAN, alone : BOOLEAN, before : Contents, files : Seq(FileRefs)]

\* The command reads the next file of its list only if there is one, and what a
\* start of the program hands on has been repaired.
CmdSound(c) ==
  /\ c \in Cmds
  /\ c.op = "load" => c.pc \in {"load", "decide", "open", "fill", "migrate", "done", "failed"}
  /\ c.pc = "load" => c.op = "load" /\ c.files # <<>>
  /\ c.op = "load" /\ c.pc # "load" => c.record["color"] \notin {Unset, "junk"} \/ c.pc = "failed"
  /\ c.pc = "read" => c.op \in {"set", "unset"}
  /\ c.op = "none" => c.pc = "idle"
  /\ c.pc = "purge" => c.op = "purge"

WorldSound ==
  /\ cwd \in {"sub", "repo", "home", "outside"}
  /\ moved \in BOOLEAN
  /\ canonical \in [Dirs -> FileStates]
  /\ legacy \in [Dirs -> FileStates]
  /\ backup \in [Dirs -> FileStates]
  /\ purged \subseteq Dirs

\* A legacy file is never written, only taken away.
LegacyAsFound == \A d \in Dirs : legacy[d] \in {NoConfig, OldSettings}

\* The directories a setting is looked for in.
DirsFor(k) == IF k \in GlobalOnly THEN <<ClimonHome>> ELSE Candidates

\* The settings of directory d as they will be once command c is through.
View(c, d) == IF d = c.dir /\ c.pc # "read" THEN c.record ELSE Sparse(d)

\* In that view the cascade resolves k to v.
Says(c, k, v) ==
  \/ \E i \in 1 .. Len(DirsFor(k)) :
       /\ View(c, DirsFor(k)[i])[k] = v /\ v # Unset
       /\ \A j \in 1 .. i - 1 : View(c, DirsFor(k)[j])[k] = Unset
  \/ v = Unset /\ \A i \in 1 .. Len(DirsFor(k)) : View(c, DirsFor(k)[i])[k] = Unset

\* The directory a command has chosen.
DirChosen(c) ==
  /\ c.scope = "local" => c.dir = cwd
  /\ c.scope = "global" \/ (c.scope = "auto" /\ c.key \in GlobalOnly) => c.dir = ClimonHome
  /\ c.scope = "auto" /\ c.key \notin GlobalOnly =>
       \E i \in 1 .. Len(Candidates) :
         /\ Candidates[i] = c.dir
         /\ \A j \in 1 .. i - 1 : Candidates[j] # c.dir /\ ~HasConfig(Candidates[j])

\* A set or unset that nothing overlaps, at every stage.
LoneWriterSound(c) ==
  /\ DirChosen(c)
  /\ c.pc # "read" => c.record[c.key] = IF c.op = "set" THEN "new" ELSE Unset
  /\ c.pc = "fill" => c.holds /\ canonical[c.dir] = Unparsable
  /\ c.pc \in {"migrate", "done"} => canonical[c.dir] = c.record
  /\ \A k \in Settings \ {c.key} : Says(c, k, c.before[k])

LoneCommand(p) ==
  cmd[p].alone =>
    /\ \A q \in Runners \ {p} : cmd[q].pc = "idle"
    /\ cmd[p].op \in {"set", "unset"} /\ cmd[p].pc # "failed" => LoneWriterSound(cmd[p])

CmdsSound == cmd \in [Runners -> Cmds] /\ \A p \in Runners : CmdSound(cmd[p])

ConfigIInv ==
  /\ WorldSound
  /\ CmdsSound
  /\ LegacyAsFound
  /\ \A p \in Runners : LoneCommand(p)

----------------------------------------------------------------------------
(* Values, the cascade, and what it resolves to *)

LEMMA ValueFacts ==
    /\ NoConfig \notin Contents /\ Unparsable \notin Contents /\ NoConfig # Unparsable
    /\ NoSettings \in Contents /\ Defaults \in Contents /\ OldSettings \in Contents
    /\ Edited \in Contents
    /\ Defaults["color"] = "auto" /\ \A k \in Settings : NoSettings[k] = Unset
<1>1. NoSettings \in Contents
  BY DEF NoSettings, Contents, Values, Unset
<1>2. NoConfig["color"] = "missing" /\ Unparsable["color"] = "torn"
  BY DEF NoConfig, Unparsable, Settings
<1>3. \A c \in Contents : c["color"] \notin {"missing", "torn"}
  BY DEF Contents, Values, Unset, Settings
<1>4. Defaults \in Contents /\ Edited \in Contents /\ OldSettings \in Contents
  BY <1>1 DEF Defaults, Edited, OldSettings, Contents, Values, Settings
<1>5. Defaults["color"] = "auto"
  BY <1>1 DEF Defaults, Contents, Settings
<1> QED  BY <1>1, <1>2, <1>3, <1>4, <1>5 DEF NoSettings

LEMMA Appended ==
    ASSUME NEW S, NEW s \in Seq(S), NEW e \in S
    PROVE  /\ Append(s, e) \in Seq(S) /\ Len(Append(s, e)) = Len(s) + 1
           /\ Append(s, e)[Len(s) + 1] = e
           /\ \A i \in 1 .. Len(s) : Append(s, e)[i] = s[i]
BY AppendProperties

LEMMA CascadeFacts ==
    ASSUME cwd \in {"sub", "repo", "home", "outside"}, moved \in BOOLEAN
    PROVE  /\ ClimonHome \in Dirs /\ cwd \in Dirs
           /\ Candidates \in Seq(Dirs) /\ Len(Candidates) \in 1 .. 3
           /\ Contains(Candidates, ClimonHome)
           /\ Contains(Candidates, cwd) => Candidates[1] = cwd
<1>1. ClimonHome \in {"home", "moved"} /\ cwd \in Dirs /\ ClimonHome \in Dirs
  BY DEF ClimonHome, Dirs
<1>2. CASE cwd = "sub"
  <2>1. Ancestry = <<"sub", "repo">>
    BY <1>2 DEF Ancestry
  <2>2. ~Contains(Ancestry, ClimonHome)
    <3>1. Len(Ancestry) = 2 /\ Ancestry[1] = "sub" /\ Ancestry[2] = "repo"
      BY <2>1
    <3>2. \A i \in 1 .. 2 : i = 1 \/ i = 2
      OBVIOUS
    <3> QED  BY <1>1, <3>1, <3>2 DEF Contains
  <2>3. Candidates = Append(Ancestry, ClimonHome)
    BY <2>2 DEF Candidates
  <2>4. /\ Candidates \in Seq(Dirs) /\ Len(Candidates) = 3
        /\ Candidates[1] = "sub" /\ Candidates[3] = ClimonHome
    <3>1. Ancestry \in Seq(Dirs) /\ Len(Ancestry) = 2 /\ Ancestry[1] = "sub"
      BY <2>1 DEF Dirs
    <3>2. /\ Candidates \in Seq(Dirs) /\ Len(Candidates) = Len(Ancestry) + 1
          /\ Candidates[Len(Ancestry) + 1] = ClimonHome
          /\ \A i \in 1 .. Len(Ancestry) : Candidates[i] = Ancestry[i]
      <4>1. Ancestry \in Seq(Dirs) /\ ClimonHome \in Dirs
        BY <1>1, <3>1
      <4>2. /\ Append(Ancestry, ClimonHome) \in Seq(Dirs)
            /\ Len(Append(Ancestry, ClimonHome)) = Len(Ancestry) + 1
            /\ Append(Ancestry, ClimonHome)[Len(Ancestry) + 1] = ClimonHome
            /\ \A i \in 1 .. Len(Ancestry) : Append(Ancestry, ClimonHome)[i] = Ancestry[i]
        BY ONLY <4>1, Appended
      <4> QED  BY ONLY <2>3, <4>2
    <3>3. Len(Ancestry) + 1 = 3 /\ 1 \in 1 .. Len(Ancestry)
      BY <3>1
    <3> QED  BY ONLY <3>1, <3>2, <3>3
  <2> QED  BY <1>1, <1>2, <2>4 DEF Contains
<1>3. CASE cwd = "home"
  <2>1. Ancestry = <<>>
    BY <1>3 DEF Ancestry
  <2>2. Candidates = <<ClimonHome>>
    BY <1>1, <2>1 DEF Candidates, Contains
  <2> QED  BY <1>1, <1>3, <2>2 DEF Contains, Dirs
<1>4. CASE cwd \in {"repo", "outside"}
  <2>1. Ancestry = <<cwd>>
    BY <1>4 DEF Ancestry
  <2>2. ~Contains(Ancestry, ClimonHome)
    BY <1>1, <1>4, <2>1 DEF Contains
  <2>3. Candidates = Append(Ancestry, ClimonHome)
    BY <2>2 DEF Candidates
  <2>4. /\ Candidates \in Seq(Dirs) /\ Len(Candidates) = 2
        /\ Candidates[1] = cwd /\ Candidates[2] = ClimonHome
    <3>1. Ancestry \in Seq(Dirs) /\ Len(Ancestry) = 1 /\ Ancestry[1] = cwd
      BY <1>1, <2>1
    <3>2. /\ Candidates \in Seq(Dirs) /\ Len(Candidates) = Len(Ancestry) + 1
          /\ Candidates[Len(Ancestry) + 1] = ClimonHome
          /\ \A i \in 1 .. Len(Ancestry) : Candidates[i] = Ancestry[i]
      <4>1. Ancestry \in Seq(Dirs) /\ ClimonHome \in Dirs
        BY <1>1, <3>1
      <4>2. /\ Append(Ancestry, ClimonHome) \in Seq(Dirs)
            /\ Len(Append(Ancestry, ClimonHome)) = Len(Ancestry) + 1
            /\ Append(Ancestry, ClimonHome)[Len(Ancestry) + 1] = ClimonHome
            /\ \A i \in 1 .. Len(Ancestry) : Append(Ancestry, ClimonHome)[i] = Ancestry[i]
        BY ONLY <4>1, Appended
      <4> QED  BY ONLY <2>3, <4>2
    <3>3. Len(Ancestry) + 1 = 2 /\ 1 \in 1 .. Len(Ancestry)
      BY <3>1
    <3> QED  BY ONLY <3>1, <3>2, <3>3
  <2> QED  BY <1>1, <1>4, <2>4 DEF Contains
<1> QED  BY <1>2, <1>3, <1>4

LEMMA DirsForFacts ==
    ASSUME cwd \in {"sub", "repo", "home", "outside"}, moved \in BOOLEAN, NEW k
    PROVE  /\ DirsFor(k) \in Seq(Dirs) /\ Len(DirsFor(k)) \in 1 .. 3
           /\ \A i \in 1 .. Len(DirsFor(k)) : DirsFor(k)[i] \in Dirs
BY CascadeFacts DEF DirsFor

\* While the files stay, so does the cascade.
LEMMA CascadeKept ==
    ASSUME cwd' = cwd, moved' = moved, canonical' = canonical, legacy' = legacy
    PROVE  /\ ClimonHome' = ClimonHome /\ Candidates' = Candidates
           /\ \A d : Sparse(d)' = Sparse(d)
           /\ \A d : HasConfig(d)' <=> HasConfig(d)
           /\ \A k : DirsFor(k)' = DirsFor(k)
<1>1. ClimonHome' = ClimonHome
  BY DEF ClimonHome
<1>2. Ancestry' = Ancestry
  BY DEF Ancestry
<1>3. Candidates' = Candidates
  BY <1>1, <1>2 DEF Candidates
<1>4. /\ \A d : Sparse(d)' = Sparse(d)
      /\ \A d : HasConfig(d)' <=> HasConfig(d)
  BY DEF Sparse, FileOf, HasConfig
<1>5. \A k : DirsFor(k)' = DirsFor(k)
  BY <1>1, <1>3 DEF DirsFor
<1> QED  BY <1>1, <1>3, <1>4, <1>5

LEMMA SparseFacts ==
    ASSUME WorldSound, NEW d \in Dirs
    PROVE  /\ Sparse(d) \in Contents
           /\ ~HasConfig(d) => Sparse(d) = NoSettings
           /\ canonical[d] \in Contents => Sparse(d) = canonical[d]
BY ValueFacts DEF WorldSound, Sparse, FileOf, HasConfig

LEMMA LeastOfThree ==
    ASSUME NEW H \in SUBSET (1 .. 3), H # {}
    PROVE  \E i \in H : \A j \in H : i <= j
<1>1. CASE 1 \in H
  BY <1>1
<1>2. CASE 1 \notin H /\ 2 \in H
  BY <1>2
<1>3. CASE 1 \notin H /\ 2 \notin H
  <2>1. \A j \in H : j = 3
    BY <1>3
  <2>2. PICK i \in H : TRUE
    OBVIOUS
  <2>3. i = 3 /\ \A j \in H : i <= j
    BY <2>1, <2>2
  <2> QED  BY <2>2, <2>3
<1> QED  BY <1>1, <1>2, <1>3

\* The first directory of a cascade that defines a setting says what it is.
LEMMA ResolveFirst ==
    ASSUME WorldSound, NEW k \in Settings, NEW dirs \in Seq(Dirs), Len(dirs) <= 3
    PROVE  \/ \E i \in 1 .. Len(dirs) :
                /\ ResolveIn(dirs, k) = Sparse(dirs[i])[k] /\ Sparse(dirs[i])[k] # Unset
                /\ \A j \in 1 .. i - 1 : Sparse(dirs[j])[k] = Unset
           \/ /\ ResolveIn(dirs, k) = Unset
              /\ \A i \in 1 .. Len(dirs) : Sparse(dirs[i])[k] = Unset
<1> DEFINE hits == {i \in 1 .. Len(dirs) : Sparse(dirs[i])[k] # Unset}
           d == IF hits = {} THEN "none"
                ELSE dirs[CHOOSE i \in hits : \A j \in hits : i <= j]
<1>1. ResolveIn(dirs, k) = IF d = "none" THEN Unset ELSE Sparse(d)[k]
  BY DEF ResolveIn, FirstWhere
<1>2. CASE hits = {}
  BY <1>1, <1>2
<1>3. CASE hits # {}
  <2>1. hits \in SUBSET (1 .. 3) /\ Len(dirs) \in Nat
    OBVIOUS
  <2>2. PICK i \in hits : \A j \in hits : i <= j
    BY <1>3, <2>1, LeastOfThree
  <2> DEFINE m == CHOOSE n \in hits : \A j \in hits : n <= j
  <2>3. m \in hits /\ \A j \in hits : m <= j
    BY <2>2
  <2>4. d = dirs[m]
    BY <1>3
  <2> HIDE DEF m, d
  <2>5. d \in Dirs /\ d # "none"
    BY <2>3, <2>4 DEF Dirs
  <2>6. \A j \in 1 .. m - 1 : Sparse(dirs[j])[k] = Unset
    BY <2>1, <2>3
  <2> QED  BY <1>1, <2>3, <2>4, <2>5, <2>6
<1> QED  BY <1>2, <1>3

LEMMA ResolveSays ==
    ASSUME WorldSound, NEW k \in Settings, NEW c, c.pc = "read" \/ Sparse(c.dir) = c.record
    PROVE  \A v : Says(c, k, v) <=> Resolve(k) = v
<1>1. DirsFor(k) \in Seq(Dirs) /\ Len(DirsFor(k)) \in 1 .. 3
  BY DirsForFacts DEF WorldSound
<1>2. Resolve(k) = ResolveIn(DirsFor(k), k)
  BY DEF Resolve, DirsFor
<1>3. \A d : View(c, d) = Sparse(d)
  BY DEF View
<1> DEFINE dirs == DirsFor(k)
<1>4. \/ \E i \in 1 .. Len(dirs) :
           /\ Resolve(k) = Sparse(dirs[i])[k] /\ Sparse(dirs[i])[k] # Unset
           /\ \A j \in 1 .. i - 1 : Sparse(dirs[j])[k] = Unset
      \/ /\ Resolve(k) = Unset
         /\ \A i \in 1 .. Len(dirs) : Sparse(dirs[i])[k] = Unset
  BY <1>1, <1>2, ResolveFirst
<1> HIDE DEF dirs
<1> SUFFICES ASSUME NEW v PROVE Says(c, k, v) <=> Resolve(k) = v
  OBVIOUS
<1>5. Says(c, k, v) <=>
        \/ \E i \in 1 .. Len(dirs) :
             /\ Sparse(dirs[i])[k] = v /\ v # Unset
             /\ \A j \in 1 .. i - 1 : Sparse(dirs[j])[k] = Unset
        \/ v = Unset /\ \A i \in 1 .. Len(dirs) : Sparse(dirs[i])[k] = Unset
  BY <1>3 DEF Says, dirs
<1>6. Len(dirs) \in Nat
  BY <1>1 DEF dirs
<1>7. ASSUME Says(c, k, v) PROVE Resolve(k) = v
  <2>1. CASE v = Unset /\ \A i \in 1 .. Len(dirs) : Sparse(dirs[i])[k] = Unset
    BY <1>4, <2>1
  <2>2. ASSUME NEW i \in 1 .. Len(dirs), Sparse(dirs[i])[k] = v, v # Unset,
               \A j \in 1 .. i - 1 : Sparse(dirs[j])[k] = Unset
        PROVE  Resolve(k) = v
    <3>1. PICK n \in 1 .. Len(dirs) : /\ Resolve(k) = Sparse(dirs[n])[k] /\ Sparse(dirs[n])[k] # Unset
                                     /\ \A j \in 1 .. n - 1 : Sparse(dirs[j])[k] = Unset
      BY <1>4, <2>2
    <3>2. ~(n < i) /\ ~(i < n)
      BY <1>6, <2>2, <3>1
    <3> QED  BY <1>6, <2>2, <3>1, <3>2
  <2> QED  BY <1>5, <1>7, <2>1, <2>2
<1>8. Resolve(k) = v => Says(c, k, v)
  BY <1>4, <1>5
<1> QED  BY <1>7, <1>8

----------------------------------------------------------------------------
(* Beginning *)

LEMMA NoCommandSound == CmdSound(NoCommand) /\ NoCommand.pc = "idle" /\ ~NoCommand.alone
<1>1. NoCommand \in Cmds
  BY ValueFacts DEF NoCommand, Cmds, Pcs, Ops, Settings, Scopes, Dirs
<1> QED  BY <1>1 DEF NoCommand, CmdSound

LEMMA ConfigInitial == ConfigInit => ConfigIInv
<1> SUFFICES ASSUME ConfigInit PROVE ConfigIInv
  OBVIOUS
<1>1. cwd \in {"sub", "repo", "home", "outside"} /\ moved \in BOOLEAN
  BY ConfigAssumption DEF ConfigInit
<1>2. \A d, f : f \in FileStates => Mapping(d, f) \in [Dirs -> FileStates]
  BY DEF Mapping, FileStates
<1>3. {NoConfig, OldSettings, Edited, Unparsable} \subseteq FileStates
  BY ValueFacts DEF FileStates
<1>4. canonical \in [Dirs -> FileStates]
  <2>1. PICK d \in ToSet(Candidates), f \in {NoConfig, OldSettings} :
          canonical \in {Mapping(d, f), Mapping(ClimonHome, Edited), Mapping(ClimonHome, Unparsable)}
    BY DEF ConfigInit
  <2> QED  BY <1>2, <1>3, <2>1
<1>5. legacy \in [Dirs -> FileStates] /\ LegacyAsFound
  <2>1. PICK d \in ToSet(Candidates), f \in {NoConfig, OldSettings} : legacy = Mapping(d, f)
    BY DEF ConfigInit
  <2> QED  BY <1>2, <1>3, <2>1 DEF LegacyAsFound, Mapping
<1>6. WorldSound
  BY <1>1, <1>3, <1>4, <1>5 DEF WorldSound, ConfigInit
<1>7. CmdsSound /\ \A p \in Runners : LoneCommand(p)
  BY NoCommandSound DEF CmdsSound, CmdSound, LoneCommand, ConfigInit
<1> QED  BY <1>5, <1>6, <1>7 DEF ConfigIInv

\* A command begins: the others are no longer alone, and it is alone itself if they
\* are at rest.
LEMMA CommandBegins ==
    ASSUME ConfigIInv, NEW p \in Runners, NEW c, Begins(p, c), CmdSound(c),
           c.op \in {"set", "unset"} => c.pc = "read" /\ DirChosen(c)
    PROVE  ConfigIInv'
<1> DEFINE lone == Others(p) = {}
           says == [k \in Settings |-> Resolve(k)]
           r == [c EXCEPT !.alone = lone, !.before = says]
<1> USE DEF ConfigIInv
<1>1. cmd \in [Runners -> Cmds] /\ c \in Cmds
  BY DEF CmdsSound, CmdSound
<1>2. cmd' = [q \in Runners |-> IF q = p THEN r ELSE [cmd[q] EXCEPT !.alone = FALSE]]
      /\ UNCHANGED <<cwd, moved, canonical, legacy, backup, purged>>
  BY DEF Begins
<1>3. WorldSound' /\ LegacyAsFound'
  BY <1>2 DEF WorldSound, LegacyAsFound
<1>4. \A k \in Settings : Resolve(k) \in Values
  <2> SUFFICES ASSUME NEW k \in Settings PROVE Resolve(k) \in Values
    OBVIOUS
  <2>1. DirsFor(k) \in Seq(Dirs) /\ Len(DirsFor(k)) \in 1 .. 3
        /\ \A i \in 1 .. Len(DirsFor(k)) : DirsFor(k)[i] \in Dirs
    BY DirsForFacts DEF WorldSound
  <2>2. Resolve(k) = ResolveIn(DirsFor(k), k)
    BY DEF Resolve, DirsFor
  <2>3. \A d \in Dirs : Sparse(d)[k] \in Values
    BY SparseFacts DEF Contents
  <2>4. Unset \in Values
    BY DEF Values
  <2> QED  BY <2>1, <2>2, <2>3, <2>4, ResolveFirst
<1>5. lone \in BOOLEAN /\ says \in Contents
  BY <1>4 DEF Contents
<1> HIDE DEF lone, says
<1>6. /\ r \in Cmds /\ r.pc = c.pc /\ r.op = c.op /\ r.key = c.key /\ r.scope = c.scope
      /\ r.dir = c.dir /\ r.record = c.record /\ r.files = c.files /\ (r.alone <=> lone) /\ r.before = says
  BY <1>1, <1>5 DEF Cmds
<1> HIDE DEF r
<1>7. CmdSound(r)
  BY <1>6 DEF CmdSound
<1>8. \A q \in Runners \ {p} :
        /\ CmdSound([cmd[q] EXCEPT !.alone = FALSE]) /\ [cmd[q] EXCEPT !.alone = FALSE].pc = cmd[q].pc
        /\ ~[cmd[q] EXCEPT !.alone = FALSE].alone
  <2> SUFFICES ASSUME NEW q \in Runners \ {p}
               PROVE  LET s == [cmd[q] EXCEPT !.alone = FALSE]
                      IN  CmdSound(s) /\ s.pc = cmd[q].pc /\ ~s.alone
    OBVIOUS
  <2> DEFINE s == [cmd[q] EXCEPT !.alone = FALSE]
  <2>1. CmdSound(cmd[q]) /\ cmd[q] \in Cmds
    BY DEF CmdsSound, CmdSound
  <2>2. /\ s \in Cmds /\ s.pc = cmd[q].pc /\ s.op = cmd[q].op /\ s.record = cmd[q].record
        /\ s.files = cmd[q].files /\ ~s.alone
    BY <2>1 DEF Cmds
  <2> HIDE DEF s
  <2>3. CmdSound(s)
    BY <2>1, <2>2 DEF CmdSound
  <2> QED  BY <2>2, <2>3 DEF s
<1>9. cmd'[p] = r /\ \A q \in Runners \ {p} : cmd'[q] = [cmd[q] EXCEPT !.alone = FALSE]
  BY <1>2
<1>10. CmdsSound'
  <2>1. cmd' \in [Runners -> Cmds]
    BY <1>2, <1>6, <1>8 DEF CmdSound
  <2>2. \A q \in Runners : CmdSound(cmd'[q])
    BY <1>7, <1>8, <1>9
  <2> QED  BY <2>1, <2>2 DEF CmdsSound, CmdSound
<1>11. lone => \A q \in Runners \ {p} : cmd[q].pc = "idle"
  BY NoCommandSound DEF lone, Others
<1>12. r.op \in {"set", "unset"} => LoneWriterSound(cmd[p])'
  <2> SUFFICES ASSUME c.op \in {"set", "unset"} PROVE LoneWriterSound(cmd[p])'
    BY <1>6
  <2>1. c.pc = "read" /\ DirChosen(c)
    OBVIOUS
  <2>2. /\ ClimonHome' = ClimonHome /\ Candidates' = Candidates /\ cwd' = cwd
        /\ \A d : Sparse(d)' = Sparse(d)
        /\ \A d : HasConfig(d)' <=> HasConfig(d)
        /\ \A k : DirsFor(k)' = DirsFor(k)
    BY <1>2, CascadeKept
  <2>3. DirChosen(cmd[p])'
    BY <1>6, <1>9, <2>1, <2>2 DEF DirChosen
  <2>4. \A k \in Settings : Says(r, k, says[k])
    BY <1>6, <2>1, ResolveSays DEF says
  <2>5. ASSUME NEW k \in Settings PROVE Says(cmd[p], k, cmd[p].before[k])'
    <3>1. \A d : View(cmd[p], d)' = View(r, d)
      BY <1>9, <2>2 DEF View
    <3>2. Says(r, k, says[k])
      BY <2>4
    <3> QED  BY <1>6, <1>9, <2>2, <3>1, <3>2 DEF Says
  <2> QED  BY <1>6, <1>9, <2>1, <2>3, <2>5 DEF LoneWriterSound
<1>13. ASSUME NEW q \in Runners PROVE LoneCommand(q)'
  <2>1. CASE q = p
    BY <1>6, <1>8, <1>9, <1>11, <1>12, <2>1 DEF LoneCommand
  <2>2. CASE q # p
    BY <1>8, <1>9, <2>2 DEF LoneCommand
  <2> QED  BY <2>1, <2>2
<1> QED  BY <1>3, <1>10, <1>13

\* resolve_write_dir_for_key chooses as DirChosen says.
LEMMA WriteDirChosen ==
    ASSUME WorldSound, NEW k \in Settings, NEW scope \in Scopes, NEW c,
           c.scope = scope, c.key = k, c.dir = WriteDirForKey(k, scope)
    PROVE  c.dir \in Dirs /\ DirChosen(c)
<1>1. /\ ClimonHome \in Dirs /\ cwd \in Dirs /\ Candidates \in Seq(Dirs)
      /\ Len(Candidates) \in 1 .. 3 /\ Contains(Candidates, ClimonHome)
  BY CascadeFacts DEF WorldSound
<1>2. CASE scope # "auto" \/ k \in GlobalOnly
  BY <1>1, <1>2 DEF DirChosen, WriteDirForKey, WriteDir, Scopes
<1>3. CASE scope = "auto" /\ k \notin GlobalOnly
  <2> DEFINE hits == {i \in 1 .. Len(Candidates) : HasConfig(Candidates[i])}
             d == IF hits = {} THEN "none"
                  ELSE Candidates[CHOOSE i \in hits : \A j \in hits : i <= j]
  <2>1. c.dir = IF d = "none" THEN ClimonHome ELSE d
    BY <1>3 DEF WriteDirForKey, WriteDir, FirstWhere
  <2>2. \E i \in 1 .. Len(Candidates) :
          Candidates[i] = c.dir /\ \A j \in 1 .. i - 1 : Candidates[j] # c.dir /\ ~HasConfig(Candidates[j])
    <3>1. CASE hits = {}
      <4> DEFINE homes == {i \in 1 .. Len(Candidates) : Candidates[i] = ClimonHome}
      <4>1. homes \in SUBSET (1 .. 3) /\ homes # {}
        BY <1>1 DEF Contains
      <4>2. PICK i \in homes : \A j \in homes : i <= j
        BY <4>1, LeastOfThree
      <4>3. c.dir = ClimonHome
        BY <2>1, <3>1
      <4>4. \A j \in 1 .. i - 1 : j \in 1 .. Len(Candidates) /\ j \notin homes /\ j \notin hits
        BY <1>1, <3>1, <4>1, <4>2
      <4> QED  BY <4>2, <4>3, <4>4
    <3>2. CASE hits # {}
      <4>1. hits \in SUBSET (1 .. 3)
        BY <1>1
      <4> DEFINE m == CHOOSE i \in hits : \A j \in hits : i <= j
      <4>2. m \in hits /\ \A j \in hits : m <= j
        BY <3>2, <4>1, LeastOfThree
      <4>3. d = Candidates[m]
        BY <3>2
      <4> HIDE DEF m, d
      <4>4. d \in Dirs /\ d # "none"
        BY <1>1, <4>2, <4>3 DEF Dirs
      <4>5. HasConfig(Candidates[m])
        BY <4>2
      <4>6. \A j \in 1 .. m - 1 : j \in 1 .. Len(Candidates) /\ j \notin hits
        BY <1>1, <4>1, <4>2
      <4>7. \A j \in 1 .. m - 1 : ~HasConfig(Candidates[j])
        BY <4>6
      <4>8. c.dir = Candidates[m] /\ m \in 1 .. Len(Candidates)
        BY <2>1, <4>2, <4>3, <4>4
      <4> QED  BY <4>5, <4>7, <4>8
    <3> QED  BY <3>1, <3>2
  <2> HIDE DEF d
  <2>3. c.dir \in Dirs
    BY <1>1, <2>2
  <2> QED  BY <1>3, <2>2, <2>3 DEF DirChosen
<1> QED  BY <1>2, <1>3

LEMMA FilesInFacts ==
    ASSUME NEW d \in Dirs
    PROVE  FilesIn(d) \in Seq(FileRefs) /\ (HasConfig(d) => FilesIn(d) # <<>> /\ Head(FilesIn(d)) \in FileRefs)
<1>1. <<d, "canonical">> \in FileRefs /\ <<d, "legacy">> \in FileRefs
  BY DEF FileRefs, FileKinds
<1> DEFINE one == <<d, "canonical">>
           two == <<d, "legacy">>
<1> HIDE DEF one, two
<1>2. FilesIn(d) = (IF canonical[d] # NoConfig THEN <<one>> ELSE <<>>) \o (IF legacy[d] # NoConfig THEN <<two>> ELSE <<>>)
  BY DEF FilesIn, one, two
<1>3. one \in FileRefs /\ two \in FileRefs
  BY <1>1 DEF one, two
<1> QED  BY <1>2, <1>3 DEF HasConfig

LEMMA ExistingFilesType ==
    ASSUME WorldSound
    PROVE  ExistingFiles \in Seq(FileRefs)
<1>1. Candidates \in Seq(Dirs) /\ Len(Candidates) \in 1 .. 3
  BY CascadeFacts DEF WorldSound
<1>2. \A i \in 1 .. 3 : FilesOfCandidate(i) \in Seq(FileRefs)
  BY <1>1, FilesInFacts DEF FilesOfCandidate
<1> QED  BY <1>2 DEF ExistingFiles

LEMMA EveryBeginning ==
    ASSUME ConfigIInv, NEW p \in Runners,
           \/ \E k \in AcceptsInput, scope \in {"auto", "local", "global"} :
                SetSetting(p, k, scope) \/ UnsetSetting(p, k, scope)
           \/ ProgramSets(p) \/ LoadConfig(p) \/ Purge(p)
    PROVE  ConfigIInv'
<1> USE DEF ConfigIInv
<1>0. /\ NoCommand \in Cmds /\ "read" \in Pcs /\ "load" \in Pcs /\ "decide" \in Pcs /\ "purge" \in Pcs
      /\ "set" \in Ops /\ "unset" \in Ops /\ "load" \in Ops /\ "purge" \in Ops
      /\ "global" \in Scopes /\ "lastCheck" \in Settings /\ AcceptsInput \subseteq Settings
      /\ ClimonHome \in Dirs
  BY NoCommandSound, CascadeFacts DEF CmdSound, Pcs, Ops, Scopes, Settings, AcceptsInput, WorldSound
<1>1. ASSUME NEW k \in Settings, NEW scope \in Scopes, NEW op \in {"set", "unset"}, NEW d \in Dirs,
             d = WriteDirForKey(k, scope),
             Begins(p, [NoCommand EXCEPT !.pc = "read", !.op = op, !.key = k, !.scope = scope, !.dir = d])
      PROVE  ConfigIInv'
  <2> DEFINE c == [NoCommand EXCEPT !.pc = "read", !.op = op, !.key = k, !.scope = scope, !.dir = d]
  <2>1. op \in Ops
    BY <1>0
  <2>2. /\ c \in Cmds /\ c.pc = "read" /\ c.op = op /\ c.key = k /\ c.scope = scope /\ c.dir = d
    BY <1>0, <2>1 DEF Cmds
  <2> HIDE DEF c
  <2>3. CmdSound(c)
    BY <2>2 DEF CmdSound
  <2>4. DirChosen(c)
    BY <1>1, <2>2, WriteDirChosen
  <2>5. Begins(p, c)
    BY <1>1 DEF c
  <2> QED  BY <2>2, <2>3, <2>4, <2>5, CommandBegins
<1>2. ASSUME NEW k \in Settings, NEW scope \in Scopes PROVE WriteDirForKey(k, scope) \in Dirs
  <2> DEFINE c == [scope |-> scope, key |-> k, dir |-> WriteDirForKey(k, scope)]
  <2>1. c.scope = scope /\ c.key = k /\ c.dir = WriteDirForKey(k, scope)
    OBVIOUS
  <2> HIDE DEF c
  <2> QED  BY <2>1, WriteDirChosen
<1>3. ASSUME NEW k \in AcceptsInput, NEW scope \in Scopes, SetSetting(p, k, scope) \/ UnsetSetting(p, k, scope)
      PROVE  ConfigIInv'
  <2>1. k \in Settings
    BY <1>0
  <2> QED  BY <1>1, <1>2, <1>3, <2>1 DEF SetSetting, UnsetSetting
<1>4. CASE ProgramSets(p)
  <2>1. WriteDirForKey("lastCheck", "global") = ClimonHome
    BY DEF WriteDirForKey, WriteDir
  <2> QED  BY <1>0, <1>1, <1>4, <2>1 DEF ProgramSets
<1>5. CASE LoadConfig(p)
  <2> DEFINE d == ClimonHome
             pc == IF HasConfig(d) THEN "load" ELSE "decide"
             files == IF HasConfig(d) THEN <<Head(FilesIn(d))>> ELSE <<>>
             record == IF HasConfig(d) THEN NoSettings ELSE Defaults
             c == [NoCommand EXCEPT !.op = "load", !.dir = d, !.pc = pc, !.files = files, !.record = record]
  <2>1. /\ pc \in Pcs /\ pc \in {"load", "decide"} /\ files \in Seq(FileRefs) /\ record \in Contents
        /\ pc = "load" => files # <<>>
        /\ pc # "load" => record["color"] = "auto"
    BY <1>0, FilesInFacts, ValueFacts
  <2>2. Begins(p, c)
    BY <1>5 DEF LoadConfig
  <2> HIDE DEF pc, files, record
  <2>3. /\ c \in Cmds /\ c.op = "load" /\ c.pc = pc /\ c.files = files /\ c.record = record
    BY <1>0, <2>1 DEF Cmds
  <2> HIDE DEF c
  <2>4. CmdSound(c)
    BY <2>1, <2>3 DEF CmdSound, Unset
  <2> QED  BY <2>2, <2>3, <2>4, CommandBegins
<1>6. CASE Purge(p)
  <2> DEFINE files == ExistingFiles
             c == [NoCommand EXCEPT !.pc = "purge", !.op = "purge", !.files = files]
  <2>1. files \in Seq(FileRefs)
    BY ExistingFilesType
  <2>2. Begins(p, c)
    BY <1>6 DEF Purge
  <2> HIDE DEF files
  <2>3. c \in Cmds /\ c.op = "purge" /\ c.pc = "purge"
    BY <1>0, <2>1 DEF Cmds
  <2> HIDE DEF c
  <2>4. CmdSound(c)
    BY <2>3 DEF CmdSound
  <2> QED  BY <2>2, <2>3, <2>4, CommandBegins
<1> QED  BY <1>3, <1>4, <1>5, <1>6 DEF Scopes

----------------------------------------------------------------------------
(* A step of one command *)

\* Only a command that is under way moves, so no other one is alone; a purge lets
\* others hold a file that is gone.
LEMMA OneCommand ==
    ASSUME ConfigIInv, NEW p \in Runners, cmd[p].pc # "idle",
           cmd' \in [Runners -> Cmds], CmdSound(cmd'[p]),
           \A q \in Runners \ {p} : cmd'[q] = cmd[q] \/ cmd'[q] = [cmd[q] EXCEPT !.holds = FALSE],
           WorldSound', LegacyAsFound', cmd'[p].alone => cmd[p].alone,
           cmd'[p].alone /\ cmd'[p].op \in {"set", "unset"} /\ cmd'[p].pc # "failed" =>
             LoneWriterSound(cmd[p])'
    PROVE  ConfigIInv'
<1> USE DEF ConfigIInv
<1>1. \A q \in Runners \ {p} :
        CmdSound(cmd'[q]) /\ cmd'[q].pc = cmd[q].pc /\ (cmd'[q].alone <=> cmd[q].alone)
  <2> SUFFICES ASSUME NEW q \in Runners \ {p}
               PROVE  CmdSound(cmd'[q]) /\ cmd'[q].pc = cmd[q].pc /\ (cmd'[q].alone <=> cmd[q].alone)
    OBVIOUS
  <2> DEFINE s == [cmd[q] EXCEPT !.holds = FALSE]
  <2>1. CmdSound(cmd[q]) /\ cmd[q] \in Cmds
    BY DEF CmdsSound, CmdSound
  <2>2. /\ s \in Cmds /\ s.pc = cmd[q].pc /\ s.op = cmd[q].op /\ s.record = cmd[q].record
        /\ s.files = cmd[q].files /\ (s.alone <=> cmd[q].alone)
    BY <2>1 DEF Cmds
  <2> HIDE DEF s
  <2>3. CmdSound(s)
    BY <2>1, <2>2 DEF CmdSound
  <2> QED  BY <2>1, <2>2, <2>3 DEF s
<1>2. CmdsSound'
  <2>1. \A q \in Runners : CmdSound(cmd'[q])
    BY <1>1
  <2> QED  BY <2>1 DEF CmdsSound, CmdSound
<1>3. \A q \in Runners \ {p} : ~cmd[q].alone
  BY DEF LoneCommand
<1>4. ASSUME NEW q \in Runners PROVE LoneCommand(q)'
  <2>1. CASE q = p
    <3>1. cmd'[p].alone => \A z \in Runners \ {p} : cmd'[z].pc = "idle"
      BY <1>1 DEF LoneCommand
    <3> QED  BY <2>1, <3>1 DEF LoneCommand
  <2>2. CASE q # p
    BY <1>1, <1>3, <2>2 DEF LoneCommand
  <2> QED  BY <2>1, <2>2
<1> QED  BY <1>2, <1>4

\* What a lone writer has chosen and what the cascade says with its record do not
\* change while its own directory is all that changes.
LEMMA ChoiceKept ==
    ASSUME WorldSound, NEW p \in Runners, UNCHANGED <<cwd, moved>>,
           \A d \in Dirs \ {cmd[p].dir} : UNCHANGED <<canonical[d], legacy[d]>>,
           cmd'[p].dir = cmd[p].dir, cmd'[p].scope = cmd[p].scope, cmd'[p].key = cmd[p].key,
           cmd'[p].before = cmd[p].before, cmd'[p].pc # "read",
           LoneWriterSound(cmd[p]),
           \A k \in Settings \ {cmd[p].key} : cmd'[p].record[k] = View(cmd[p], cmd[p].dir)[k]
    PROVE  DirChosen(cmd[p])' /\ \A k \in Settings \ {cmd[p].key} : Says(cmd[p], k, cmd[p].before[k])'
<1> DEFINE d == cmd[p].dir
<1>1. /\ Candidates' = Candidates /\ ClimonHome' = ClimonHome
      /\ \A k : DirsFor(k)' = DirsFor(k)
  BY DEF Candidates, ClimonHome, Ancestry, DirsFor
<1>2. \A i \in 1 .. Len(Candidates) : Candidates[i] \in Dirs
  BY CascadeFacts DEF WorldSound
<1>3. DirChosen(cmd[p])'
  <2>1. \A e \in Dirs \ {d} : HasConfig(e)' <=> HasConfig(e)
    BY DEF HasConfig
  <2>2. DirChosen(cmd[p])
    BY DEF LoneWriterSound
  <2> HIDE DEF d
  <2>3. ASSUME cmd[p].scope = "auto", cmd[p].key \notin GlobalOnly
        PROVE  \E i \in 1 .. Len(Candidates) :
                 Candidates[i] = cmd[p].dir /\ \A j \in 1 .. i - 1 : Candidates[j] # cmd[p].dir /\ ~HasConfig(Candidates[j])'
    <3>1. PICK i \in 1 .. Len(Candidates) :
            Candidates[i] = cmd[p].dir /\ \A j \in 1 .. i - 1 : Candidates[j] # cmd[p].dir /\ ~HasConfig(Candidates[j])
      BY <2>2, <2>3 DEF DirChosen
    <3>2. Len(Candidates) \in Nat
      BY CascadeFacts DEF WorldSound
    <3>3. \A j \in 1 .. i - 1 : ~HasConfig(Candidates[j])'
      <4> SUFFICES ASSUME NEW j \in 1 .. i - 1 PROVE ~HasConfig(Candidates[j])'
        OBVIOUS
      <4>1. Candidates[j] \in Dirs \ {d}
        BY <1>2, <3>1, <3>2 DEF d
      <4> QED  BY <1>1, <2>1, <3>1, <4>1 DEF HasConfig
    <3> QED  BY <3>1, <3>3
  <2> QED  BY <1>1, <2>2, <2>3 DEF DirChosen, HasConfig
<1>4. ASSUME NEW k \in Settings \ {cmd[p].key} PROVE Says(cmd[p], k, cmd[p].before[k])'
  <2>1. \A e \in Dirs : View(cmd[p], e)'[k] = View(cmd[p], e)[k]
    <3> SUFFICES ASSUME NEW e \in Dirs PROVE View(cmd[p], e)'[k] = View(cmd[p], e)[k]
      OBVIOUS
    <3>1. CASE e = d
      BY <3>1 DEF View
    <3>2. CASE e # d
      BY <3>2 DEF View, Sparse, FileOf
    <3> QED  BY <3>1, <3>2
  <2>2. \A i \in 1 .. Len(DirsFor(k)) : DirsFor(k)[i] \in Dirs
    BY DirsForFacts DEF WorldSound
  <2>3. Len(DirsFor(k)) \in Nat
    BY DirsForFacts DEF WorldSound
  <2>4. \A i \in 1 .. Len(DirsFor(k)) : View(cmd[p], DirsFor(k)[i])'[k] = View(cmd[p], DirsFor(k)[i])[k]
    BY <1>1, <2>1, <2>2 DEF View, Sparse, FileOf
  <2>5. Says(cmd[p], k, cmd[p].before[k])
    BY DEF LoneWriterSound
  <2> QED  BY <1>1, <2>3, <2>4, <2>5 DEF Says
<1> QED  BY <1>3, <1>4

LEMMA CommandFacts ==
    /\ \A x \in {"idle", "decide", "open", "fill", "migrate", "done", "failed"} : x \in Pcs
    /\ \A k \in Settings : Unset \in Values /\ "new" \in Values
BY DEF Pcs, Values

LEMMA CmdFacts ==
    ASSUME ConfigIInv, NEW p \in Runners
    PROVE  /\ cmd \in [Runners -> Cmds] /\ cmd[p] \in Cmds /\ CmdSound(cmd[p]) /\ WorldSound
           /\ cmd[p].dir \in Dirs /\ cmd[p].key \in Settings /\ cmd[p].record \in Contents
           /\ cmd[p].alone /\ cmd[p].op \in {"set", "unset"} /\ cmd[p].pc # "failed" => LoneWriterSound(cmd[p])
BY DEF ConfigIInv, CmdsSound, CmdSound, LoneCommand, Cmds

LEMMA StepReads ==
    ASSUME ConfigIInv, NEW p \in Runners, ReadSparse(p)
    PROVE  ConfigIInv'
<1> DEFINE c == cmd[p]
           x == IF c.op = "set" THEN "new" ELSE Unset
           record == [Sparse(c.dir) EXCEPT ![c.key] = x]
           r == [c EXCEPT !.pc = "decide", !.record = record]
<1>1. /\ c \in Cmds /\ CmdSound(c) /\ WorldSound /\ c.dir \in Dirs /\ c.key \in Settings /\ c.pc = "read"
      /\ cmd \in [Runners -> Cmds] /\ c.op \in {"set", "unset"}
  BY CmdFacts DEF ReadSparse, CmdAt, CmdSound
<1>2. cmd' = [cmd EXCEPT ![p] = r] /\ UNCHANGED <<cwd, moved, canonical, legacy, backup, purged>>
  BY DEF ReadSparse, UnchangedConfigFiles, UnchangedWorld
<1>3. Sparse(c.dir) \in Contents /\ x \in Values
  BY <1>1, SparseFacts, CommandFacts
<1> HIDE DEF x
<1>4. /\ record \in Contents /\ record[c.key] = x
      /\ \A k \in Settings \ {c.key} : record[k] = Sparse(c.dir)[k]
  BY <1>1, <1>3 DEF Contents
<1> HIDE DEF record
<1>5. /\ r \in Cmds /\ r.pc = "decide" /\ r.op = c.op /\ r.key = c.key /\ r.scope = c.scope /\ r.dir = c.dir
      /\ r.record = record /\ r.files = c.files /\ (r.alone <=> c.alone) /\ r.before = c.before
  BY <1>1, <1>4, CommandFacts DEF Cmds
<1> HIDE DEF r
<1>6. CmdSound(r)
  BY <1>1, <1>5 DEF CmdSound
<1>7. cmd'[p] = r /\ cmd' \in [Runners -> Cmds] /\ \A q \in Runners \ {p} : cmd'[q] = cmd[q]
  BY <1>1, <1>2, <1>5
<1>8. WorldSound' /\ LegacyAsFound'
  BY <1>2 DEF ConfigIInv, WorldSound, LegacyAsFound
<1>9. c.alone => LoneWriterSound(cmd[p])'
  <2> SUFFICES ASSUME c.alone PROVE LoneWriterSound(cmd[p])'
    OBVIOUS
  <2>1. LoneWriterSound(c)
    BY <1>1, CmdFacts
  <2>2. \A k \in Settings \ {c.key} : cmd'[p].record[k] = View(c, c.dir)[k]
    BY <1>1, <1>4, <1>5, <1>7 DEF View
  <2>3. DirChosen(cmd[p])' /\ \A k \in Settings \ {c.key} : Says(cmd[p], k, cmd[p].before[k])'
    BY <1>1, <1>2, <1>5, <1>7, <2>1, <2>2, ChoiceKept
  <2>4. cmd'[p].record[cmd'[p].key] = IF cmd'[p].op = "set" THEN "new" ELSE Unset
    BY <1>4, <1>5, <1>7 DEF x
  <2> QED  BY <1>5, <1>7, <2>3, <2>4 DEF LoneWriterSound
<1> QED  BY <1>1, <1>5, <1>6, <1>7, <1>8, <1>9, OneCommand

\* The stages of a write: each leaves the record alone.
LEMMA StepWrites ==
    ASSUME ConfigIInv, NEW p \in Runners,
           DecideMigration(p) \/ OpenTruncates(p) \/ FillFile(p) \/ MigrateLegacy(p)
    PROVE  ConfigIInv'
<1> DEFINE c == cmd[p]
<1>1. /\ c \in Cmds /\ CmdSound(c) /\ WorldSound /\ c.dir \in Dirs /\ c.key \in Settings
      /\ c.record \in Contents /\ c.pc \in {"decide", "open", "fill", "migrate"} /\ cmd \in [Runners -> Cmds]
  BY CmdFacts DEF DecideMigration, OpenTruncates, FillFile, MigrateLegacy, CmdAt
<1>2. PICK r \in Cmds :
        /\ cmd' = [cmd EXCEPT ![p] = r]
        /\ r.op = c.op /\ r.key = c.key /\ r.scope = c.scope /\ r.dir = c.dir /\ r.record = c.record
        /\ r.files = c.files /\ (r.alone <=> c.alone) /\ r.before = c.before
        /\ r.pc \in {"open", "fill", "migrate", "done", "failed"}
        /\ r.pc = "open" => DecideMigration(p)
        /\ r.pc = "fill" => OpenTruncates(p) /\ r.holds
        /\ r.pc = "migrate" => FillFile(p)
        /\ r.pc = "done" => FillFile(p) \/ MigrateLegacy(p)
        /\ r.pc = "failed" => MigrateLegacy(p)
  <2>1. ASSUME NEW x \in {"open", "fill", "migrate", "done", "failed"}
        PROVE  LET r == [c EXCEPT !.pc = x]
               IN  /\ r \in Cmds /\ r.pc = x
                   /\ r.op = c.op /\ r.key = c.key /\ r.scope = c.scope /\ r.dir = c.dir /\ r.record = c.record
                   /\ r.files = c.files /\ (r.alone <=> c.alone) /\ r.before = c.before
    BY <1>1, CommandFacts DEF Cmds
  <2>2. CASE DecideMigration(p)
    <3> DEFINE m == legacy[c.dir] # NoConfig /\ canonical[c.dir] = NoConfig
               r == [c EXCEPT !.pc = "open", !.migrates = m]
    <3>1. cmd' = [cmd EXCEPT ![p] = r] /\ m \in BOOLEAN
      BY <2>2 DEF DecideMigration
    <3> HIDE DEF m
    <3>2. /\ r \in Cmds /\ r.pc = "open"
          /\ r.op = c.op /\ r.key = c.key /\ r.scope = c.scope /\ r.dir = c.dir /\ r.record = c.record
          /\ r.files = c.files /\ (r.alone <=> c.alone) /\ r.before = c.before
      BY <1>1, <3>1, CommandFacts DEF Cmds
    <3> HIDE DEF r
    <3> QED  BY <2>2, <3>1, <3>2
  <2>3. CASE OpenTruncates(p)
    <3> DEFINE r == [c EXCEPT !.pc = "fill", !.holds = TRUE]
    <3>1. cmd' = [cmd EXCEPT ![p] = r]
      BY <2>3 DEF OpenTruncates
    <3>2. /\ r \in Cmds /\ r.pc = "fill" /\ r.holds
          /\ r.op = c.op /\ r.key = c.key /\ r.scope = c.scope /\ r.dir = c.dir /\ r.record = c.record
          /\ r.files = c.files /\ (r.alone <=> c.alone) /\ r.before = c.before
      BY <1>1, CommandFacts DEF Cmds
    <3> HIDE DEF r
    <3> QED  BY <2>3, <3>1, <3>2
  <2>4. CASE FillFile(p)
    <3> DEFINE x == IF c.migrates THEN "migrate" ELSE "done"
               r == [c EXCEPT !.pc = x]
    <3>1. cmd' = [cmd EXCEPT ![p] = r] /\ x \in {"migrate", "done"}
      BY <2>4 DEF FillFile
    <3> HIDE DEF x
    <3>2. /\ r \in Cmds /\ r.pc = x
          /\ r.op = c.op /\ r.key = c.key /\ r.scope = c.scope /\ r.dir = c.dir /\ r.record = c.record
          /\ r.files = c.files /\ (r.alone <=> c.alone) /\ r.before = c.before
      BY <2>1, <3>1
    <3> HIDE DEF r
    <3> QED  BY <2>4, <3>1, <3>2
  <2>5. CASE MigrateLegacy(p)
    <3> DEFINE x == IF legacy[c.dir] = NoConfig THEN "failed" ELSE "done"
               r == [c EXCEPT !.pc = x]
    <3>1. cmd' = [cmd EXCEPT ![p] = r] /\ x \in {"failed", "done"}
      BY <2>5 DEF MigrateLegacy
    <3> HIDE DEF x
    <3>2. /\ r \in Cmds /\ r.pc = x
          /\ r.op = c.op /\ r.key = c.key /\ r.scope = c.scope /\ r.dir = c.dir /\ r.record = c.record
          /\ r.files = c.files /\ (r.alone <=> c.alone) /\ r.before = c.before
      BY <2>1, <3>1
    <3> HIDE DEF r
    <3> QED  BY <2>5, <3>1, <3>2
  <2> QED  BY <2>2, <2>3, <2>4, <2>5
<1>3. cmd'[p] = r /\ cmd' \in [Runners -> Cmds] /\ \A q \in Runners \ {p} : cmd'[q] = cmd[q]
  BY <1>1, <1>2
<1>4. CmdSound(r)
  BY <1>1, <1>2 DEF CmdSound
<1>5. /\ UNCHANGED <<cwd, moved, purged>>
      /\ \A d \in Dirs \ {c.dir} : UNCHANGED <<canonical[d], legacy[d]>>
      /\ canonical' \in [Dirs -> FileStates] /\ legacy' \in [Dirs -> FileStates] /\ backup' \in [Dirs -> FileStates]
      /\ LegacyAsFound'
  <2>1. c.record \in FileStates /\ Unparsable \in FileStates /\ NoConfig \in FileStates
    BY <1>1 DEF FileStates
  <2>2. canonical \in [Dirs -> FileStates] /\ legacy \in [Dirs -> FileStates] /\ backup \in [Dirs -> FileStates] /\ LegacyAsFound
    BY <1>1 DEF WorldSound, ConfigIInv
  <2> QED  BY <1>1, <2>1, <2>2 DEF DecideMigration, OpenTruncates, FillFile, MigrateLegacy, UnchangedConfigFiles, UnchangedWorld,
                                   LegacyAsFound
<1>6. WorldSound'
  BY <1>1, <1>5 DEF WorldSound
<1>7. ASSUME r.alone, r.op \in {"set", "unset"}, r.pc # "failed"
      PROVE  LoneWriterSound(cmd[p])'
  <2>1. LoneWriterSound(c)
    BY <1>1, <1>2, <1>7, CmdFacts
  <2>2. \A k \in Settings \ {c.key} : cmd'[p].record[k] = View(c, c.dir)[k]
    BY <1>1, <1>2, <1>3 DEF View
  <2>3. DirChosen(cmd[p])' /\ \A k \in Settings \ {c.key} : Says(cmd[p], k, cmd[p].before[k])'
    BY <1>1, <1>2, <1>3, <1>5, <2>1, <2>2, ChoiceKept
  <2>4. r.record[r.key] = IF r.op = "set" THEN "new" ELSE Unset
    BY <1>1, <1>2, <2>1 DEF LoneWriterSound
  <2>5. r.pc = "fill" => r.holds /\ canonical'[r.dir] = Unparsable
    BY <1>1, <1>2 DEF OpenTruncates, WorldSound
  <2>6. r.pc \in {"migrate", "done"} => canonical'[r.dir] = r.record
    <3>1. CASE FillFile(p)
      <4>1. c.pc = "fill" /\ c.holds /\ canonical[c.dir] = Unparsable
        BY <2>1, <3>1 DEF LoneWriterSound, FillFile, CmdAt
      <4>2. canonical' = [canonical EXCEPT ![c.dir] = c.record]
        BY <3>1, <4>1, ValueFacts DEF FillFile
      <4> QED  BY <1>1, <1>2, <4>2 DEF WorldSound
    <3>2. CASE MigrateLegacy(p)
      <4>1. c.pc = "migrate" /\ canonical[c.dir] = c.record /\ canonical' = canonical
        BY <2>1, <3>2 DEF LoneWriterSound, MigrateLegacy, CmdAt
      <4> QED  BY <1>2, <4>1
    <3> QED  BY <1>2, <3>1, <3>2
  <2> QED  BY <1>2, <1>3, <2>3, <2>4, <2>5, <2>6 DEF LoneWriterSound
<1> QED  BY <1>1, <1>2, <1>3, <1>4, <1>5, <1>6, <1>7, OneCommand

\* A start of the program reads the file it has chosen.
LEMMA StepLoads ==
    ASSUME ConfigIInv, NEW p \in Runners, LoadReads(p)
    PROVE  ConfigIInv'
<1> DEFINE c == cmd[p]
           f == Head(c.files)
           content == (IF f[2] = "canonical" THEN canonical ELSE legacy)[f[1]]
<1>1. /\ c \in Cmds /\ CmdSound(c) /\ WorldSound /\ c.pc = "load" /\ c.op = "load"
      /\ cmd \in [Runners -> Cmds] /\ UNCHANGED <<cwd, moved, canonical, legacy, backup, purged>>
  BY CmdFacts DEF LoadReads, CmdAt, CmdSound, UnchangedConfigFiles, UnchangedWorld
<1>2. content \in FileStates
  <2>1. c.files \in Seq(FileRefs) /\ c.files # <<>>
    BY <1>1 DEF CmdSound, Cmds
  <2>2. f \in FileRefs
    BY <2>1
  <2>3. f[1] \in Dirs
    BY <2>2 DEF FileRefs
  <2> HIDE DEF f
  <2> QED  BY <1>1, <2>3 DEF WorldSound
<1>3. cmd' = CASE content = NoConfig -> [cmd EXCEPT ![p].pc = "decide", ![p].record = Defaults]
               [] content = Unparsable -> [cmd EXCEPT ![p].pc = "failed"]
               [] OTHER -> [cmd EXCEPT ![p].pc = "done", ![p].record = Repaired(content)]
  BY DEF LoadReads
<1> HIDE DEF f, content
<1>4. \E r \in Cmds : /\ cmd' = [cmd EXCEPT ![p] = r] /\ CmdSound(r) /\ r.op = "load" /\ (r.alone <=> c.alone)
  <2>1. ASSUME NEW x \in {"decide", "done"}, NEW record \in Contents, record["color"] \notin {Unset, "junk"}
        PROVE  LET r == [c EXCEPT !.pc = x, !.record = record]
               IN  r \in Cmds /\ CmdSound(r) /\ r.op = "load" /\ (r.alone <=> c.alone)
    <3> DEFINE r == [c EXCEPT !.pc = x, !.record = record]
    <3>1. r \in Cmds /\ r.op = "load" /\ (r.alone <=> c.alone) /\ r.pc = x /\ r.record = record
      BY <1>1, CommandFacts DEF Cmds
    <3> HIDE DEF r
    <3>2. CmdSound(r)
      BY <2>1, <3>1 DEF CmdSound
    <3> QED  BY <3>1, <3>2 DEF r
  <2>2. CASE content = NoConfig
    <3> DEFINE r == [c EXCEPT !.pc = "decide", !.record = Defaults]
    <3>2. cmd' = [cmd EXCEPT ![p] = r]
      BY <1>3, <2>2, ValueFacts
    <3>3. r \in Cmds /\ CmdSound(r) /\ r.op = "load" /\ (r.alone <=> c.alone)
      BY <2>1, ValueFacts DEF Unset
    <3> HIDE DEF r
    <3> QED  BY <3>2, <3>3
  <2>3. CASE content = Unparsable
    <3> DEFINE r == [c EXCEPT !.pc = "failed"]
    <3>1. cmd' = [cmd EXCEPT ![p] = r]
      BY <1>3, <2>3, ValueFacts
    <3>2. r \in Cmds /\ r.op = "load" /\ (r.alone <=> c.alone) /\ r.pc = "failed"
      BY <1>1, CommandFacts DEF Cmds
    <3> HIDE DEF r
    <3>3. CmdSound(r)
      BY <3>2 DEF CmdSound
    <3> QED  BY <3>1, <3>2, <3>3
  <2>4. CASE content \in Contents
    <3> DEFINE record == Repaired(content)
               r == [c EXCEPT !.pc = "done", !.record = record]
    <3>1. cmd' = [cmd EXCEPT ![p] = r]
      BY <1>3, <2>4, ValueFacts
    <3>2. record \in Contents /\ record["color"] \notin {Unset, "junk"}
      BY <2>4 DEF Repaired, Contents, Values, Settings, Unset
    <3> HIDE DEF record
    <3>3. r \in Cmds /\ CmdSound(r) /\ r.op = "load" /\ (r.alone <=> c.alone)
      BY <2>1, <3>2
    <3> HIDE DEF r
    <3> QED  BY <3>1, <3>3
  <2> QED  BY <1>2, <2>2, <2>3, <2>4 DEF FileStates
<1>5. PICK r \in Cmds : /\ cmd' = [cmd EXCEPT ![p] = r] /\ CmdSound(r) /\ r.op = "load" /\ (r.alone <=> c.alone)
  BY <1>4
<1>6. cmd'[p] = r /\ cmd' \in [Runners -> Cmds] /\ \A q \in Runners \ {p} : cmd'[q] = cmd[q]
  BY <1>1, <1>5
<1>7. WorldSound' /\ LegacyAsFound'
  BY <1>1 DEF ConfigIInv, WorldSound, LegacyAsFound
<1> QED  BY <1>1, <1>5, <1>6, <1>7, OneCommand

\* One file is deleted, whoever is writing to it.
LEMMA StepPurges ==
    ASSUME ConfigIInv, NEW p \in Runners, PurgeFile(p)
    PROVE  ConfigIInv' /\ \A d \in Dirs : UNCHANGED <<legacy[d], backup[d]>> \/ (backup[d]' = backup[d] /\ d \in purged')
<1> DEFINE c == cmd[p]
           d == Head(c.files)[1]
           kind == Head(c.files)[2]
           present == (IF kind = "canonical" THEN canonical ELSE legacy)[d] # NoConfig
           next == IF present THEN [cmd EXCEPT ![p].files = Tail(c.files)]
                   ELSE [cmd EXCEPT ![p].pc = "failed"]
           r == IF present THEN [c EXCEPT !.files = Tail(c.files)] ELSE [c EXCEPT !.pc = "failed"]
           s == IF kind = "canonical" /\ c.dir = d THEN [r EXCEPT !.holds = FALSE] ELSE r
<1>1. /\ c \in Cmds /\ CmdSound(c) /\ WorldSound /\ c.pc = "purge" /\ cmd \in [Runners -> Cmds]
      /\ UNCHANGED <<cwd, moved, backup>>
  BY CmdFacts DEF PurgeFile, CmdAt, UnchangedWorld
<1>2. c.files \in Seq(FileRefs) /\ c.files # <<>> /\ c.op \notin {"load", "none"}
  BY <1>1 DEF CmdSound, Cmds, PurgeFile
<1>3. d \in Dirs /\ kind \in FileKinds /\ Tail(c.files) \in Seq(FileRefs)
  <2>1. Head(c.files) \in FileRefs /\ Tail(c.files) \in Seq(FileRefs)
    BY <1>2
  <2> QED  BY <2>1 DEF FileRefs
<1>4. next = [cmd EXCEPT ![p] = r]
  OBVIOUS
<1>5. /\ kind = "canonical" =>
           /\ canonical' = [canonical EXCEPT ![d] = NoConfig]
           /\ cmd' = [q \in Runners |-> IF cmd[q].dir = d THEN [next[q] EXCEPT !.holds = FALSE] ELSE next[q]]
           /\ UNCHANGED <<legacy, purged>>
      /\ kind # "canonical" =>
           /\ legacy' = [legacy EXCEPT ![d] = NoConfig] /\ purged' = purged \cup {d} /\ cmd' = next
           /\ UNCHANGED canonical
  BY DEF PurgeFile
<1> HIDE DEF present, next, d, kind
<1>6. /\ r \in Cmds /\ r.op = c.op /\ (r.alone <=> c.alone) /\ r.pc \in {"purge", "failed"} /\ r.dir = c.dir
  <2> DEFINE a == [c EXCEPT !.files = Tail(c.files)]
             b == [c EXCEPT !.pc = "failed"]
             rest == Tail(c.files)
  <2>1. a \in Cmds /\ a.op = c.op /\ (a.alone <=> c.alone) /\ a.pc = c.pc /\ a.dir = c.dir
    <3> HIDE DEF rest
    <3>1. rest \in Seq(FileRefs) /\ a = [c EXCEPT !.files = rest]
      BY <1>3 DEF rest
    <3> QED  BY <1>1, <3>1 DEF Cmds
  <2>2. b \in Cmds /\ b.op = c.op /\ (b.alone <=> c.alone) /\ b.pc = "failed" /\ b.dir = c.dir
    BY <1>1, CommandFacts DEF Cmds
  <2>3. r = a \/ r = b
    OBVIOUS
  <2> HIDE DEF a, b, r
  <2> QED  BY <1>1, <2>1, <2>2, <2>3
<1> HIDE DEF r
<1>7. s \in Cmds /\ s.op = c.op /\ (s.alone <=> c.alone) /\ s.pc \in {"purge", "failed"}
  <2> DEFINE h == [r EXCEPT !.holds = FALSE]
  <2>1. h \in Cmds /\ h.op = c.op /\ (h.alone <=> c.alone) /\ h.pc = r.pc
    BY <1>6 DEF Cmds
  <2>2. s = h \/ s = r
    OBVIOUS
  <2> HIDE DEF h, s
  <2> QED  BY <1>6, <2>1, <2>2
<1>8. cmd'[p] = s /\ \A q \in Runners \ {p} : cmd'[q] = cmd[q] \/ cmd'[q] = [cmd[q] EXCEPT !.holds = FALSE]
  BY <1>1, <1>4, <1>5
<1> HIDE DEF s
<1>9. CmdSound(s)
  BY <1>1, <1>2, <1>7 DEF CmdSound
<1>10. cmd' \in [Runners -> Cmds]
  <2>1. \A q \in Runners : [cmd[q] EXCEPT !.holds = FALSE] \in Cmds /\ cmd[q] \in Cmds
    BY <1>1 DEF Cmds
  <2>2. \A q \in Runners : cmd'[q] \in Cmds
    BY <1>7, <1>8, <2>1
  <2>3. next \in [Runners -> Cmds]
    BY <1>1, <1>4, <1>6
  <2>4. DOMAIN cmd' = Runners /\ cmd' = [q \in Runners |-> cmd'[q]]
    BY <1>5, <2>3
  <2> QED  BY <2>2, <2>4
<1>11. WorldSound' /\ LegacyAsFound'
  BY <1>1, <1>3, <1>5 DEF ConfigIInv, WorldSound, LegacyAsFound, FileStates
<1>12. ~(s.op \in {"set", "unset"}) \/ s.pc \in {"purge", "failed"}
  BY <1>7
<1>13. s.op \notin {"set", "unset"}
  BY <1>1, <1>7 DEF CmdSound
<1>14. \A e \in Dirs : UNCHANGED <<legacy[e], backup[e]>> \/ (backup[e]' = backup[e] /\ e \in purged')
  BY <1>1, <1>3, <1>5 DEF WorldSound
<1> QED  BY <1>1, <1>7, <1>8, <1>9, <1>10, <1>11, <1>13, <1>14, OneCommand

\* A command ends, of its own or interrupted.
LEMMA StepEnds ==
    ASSUME ConfigIInv, NEW p \in Runners, PurgeEnds(p) \/ CommandReturns(p) \/ CommandKilled(p)
    PROVE  ConfigIInv'
<1> DEFINE c == cmd[p]
<1>1. /\ c \in Cmds /\ CmdSound(c) /\ c.pc # "idle" /\ cmd \in [Runners -> Cmds]
      /\ UNCHANGED <<cwd, moved, canonical, legacy, backup, purged>>
  BY CmdFacts DEF PurgeEnds, CommandReturns, CommandKilled, CmdAt, UnchangedConfigFiles, UnchangedWorld
<1>2. WorldSound' /\ LegacyAsFound'
  BY <1>1 DEF ConfigIInv, WorldSound, LegacyAsFound
<1>3. CASE PurgeEnds(p)
  <2> DEFINE r == [c EXCEPT !.pc = "done"]
  <2>1. cmd' = [cmd EXCEPT ![p] = r] /\ c.pc = "purge"
    BY <1>3 DEF PurgeEnds, CmdAt
  <2>2. r \in Cmds /\ r.pc = "done" /\ r.op = c.op /\ (r.alone <=> c.alone)
    BY <1>1, CommandFacts DEF Cmds
  <2> HIDE DEF r
  <2>3. CmdSound(r) /\ r.op \notin {"set", "unset"}
    BY <1>1, <2>1, <2>2 DEF CmdSound
  <2>4. cmd'[p] = r /\ cmd' \in [Runners -> Cmds] /\ \A q \in Runners \ {p} : cmd'[q] = cmd[q]
    BY <1>1, <2>1, <2>2
  <2> QED  BY <1>1, <1>2, <2>2, <2>3, <2>4, OneCommand
<1>4. CASE CommandReturns(p) \/ CommandKilled(p)
  <2>1. cmd' = [cmd EXCEPT ![p] = NoCommand]
    BY <1>4 DEF CommandReturns, CommandKilled
  <2>2. NoCommand \in Cmds
    BY NoCommandSound DEF CmdSound
  <2>3. cmd'[p] = NoCommand /\ cmd' \in [Runners -> Cmds] /\ \A q \in Runners \ {p} : cmd'[q] = cmd[q]
    BY <1>1, <2>1, <2>2
  <2> QED  BY <1>1, <1>2, <2>3, NoCommandSound, OneCommand
<1> QED  BY <1>3, <1>4

LEMMA ConfigStep ==
    ASSUME ConfigIInv, ConfigNext
    PROVE  ConfigIInv'
<1>1. PICK p \in Runners :
        \/ \/ \E k \in AcceptsInput, scope \in {"auto", "local", "global"} :
                SetSetting(p, k, scope) \/ UnsetSetting(p, k, scope)
           \/ ProgramSets(p) \/ LoadConfig(p) \/ Purge(p)
        \/ CommandStep(p) \/ CommandKilled(p)
  BY DEF ConfigNext
<1>2. CASE CommandStep(p) \/ CommandKilled(p)
  BY <1>2, StepReads, StepLoads, StepWrites, StepPurges, StepEnds DEF CommandStep
<1> QED  BY <1>1, <1>2, EveryBeginning

----------------------------------------------------------------------------
(* What the invariant says of a command that is done *)

LEMMA ConfigImplied == ConfigIInv => ConfigInv
<1> SUFFICES ASSUME ConfigIInv PROVE ConfigInv
  OBVIOUS
<1>1. WorldSound /\ CmdsSound /\ LegacyAsFound
  BY DEF ConfigIInv
<1>2. ConfigTypeOK
  BY <1>1 DEF WorldSound, CmdsSound, CmdSound, Cmds, ConfigTypeOK, FileStates
<1>3. ASSUME NEW p \in Runners, Quiet(p), cmd[p].op \in {"set", "unset"}
      PROVE  /\ LoneWriterSound(cmd[p]) /\ cmd[p].dir \in Dirs /\ cmd[p].key \in Settings
             /\ cmd[p].scope \in Scopes /\ Sparse(cmd[p].dir) = cmd[p].record /\ cmd[p].pc = "done"
  <2>1. LoneWriterSound(cmd[p]) /\ canonical[cmd[p].dir] = cmd[p].record
    BY <1>3, CmdFacts DEF Quiet, LoneWriterSound
  <2>2. cmd[p].record \in Contents /\ cmd[p].dir \in Dirs
    BY CmdFacts
  <2>3. cmd[p].scope \in Scopes
    BY CmdFacts DEF Cmds
  <2> QED  BY <1>1, <1>3, <2>1, <2>2, <2>3, SparseFacts, CmdFacts DEF Quiet
<1>4. OtherSettingsKept
  <2> SUFFICES ASSUME NEW p \in Runners, Quiet(p), cmd[p].op \in {"set", "unset"},
                      NEW k \in Settings \ {cmd[p].key}
               PROVE  Resolve(k) = cmd[p].before[k]
    BY DEF OtherSettingsKept
  <2>1. Says(cmd[p], k, cmd[p].before[k])
    BY <1>3 DEF LoneWriterSound
  <2> QED  BY <1>1, <1>3, <2>1, ResolveSays
<1>5. SetIsEffective
  <2> SUFFICES ASSUME NEW p \in Runners, Quiet(p), cmd[p].op = "set",
                      CASE cmd[p].scope = "auto" -> TRUE
                        [] cmd[p].scope = "local" -> /\ cmd[p].key \notin GlobalOnly
                                                    /\ Contains(Candidates, cwd)
                        [] OTHER -> \/ cmd[p].key \in GlobalOnly
                                    \/ \A d \in Dirs \ {ClimonHome} :
                                         Contains(Candidates, d) => Sparse(d)[cmd[p].key] = Unset
               PROVE  Resolve(cmd[p].key) = "new"
    BY DEF SetIsEffective
  <2> DEFINE c == cmd[p]
             k == c.key
             dirs == DirsFor(k)
  <2>1. /\ LoneWriterSound(c) /\ DirChosen(c) /\ c.dir \in Dirs /\ k \in Settings /\ c.scope \in Scopes
        /\ Sparse(c.dir)[k] = "new"
    BY <1>3 DEF LoneWriterSound
  <2>2. /\ Candidates \in Seq(Dirs) /\ Len(Candidates) \in 1 .. 3 /\ Contains(Candidates, ClimonHome)
        /\ Contains(Candidates, cwd) => Candidates[1] = cwd
        /\ \A i \in 1 .. Len(Candidates) : Candidates[i] \in Dirs
    BY <1>1, CascadeFacts DEF WorldSound
  <2>3. Len(dirs) \in Nat
    BY <1>1, DirsForFacts DEF WorldSound
  <2>4. \E i \in 1 .. Len(dirs) :
          Sparse(dirs[i])[k] = "new" /\ \A j \in 1 .. i - 1 : Sparse(dirs[j])[k] = Unset
    <3>1. CASE k \in GlobalOnly
      <4>1. dirs = <<ClimonHome>>
        BY <3>1 DEF DirsFor
      <4>2. c.dir = ClimonHome
        BY <2>1, <3>1 DEF DirChosen, Scopes
      <4> QED  BY <2>1, <4>1, <4>2
    <3>2. CASE k \notin GlobalOnly
      <4>1. dirs = Candidates
        BY <3>2 DEF DirsFor
      <4>2. CASE c.scope = "auto"
        <5>1. PICK i \in 1 .. Len(Candidates) :
                /\ Candidates[i] = c.dir
                /\ \A j \in 1 .. i - 1 : Candidates[j] # c.dir /\ ~HasConfig(Candidates[j])
          BY <2>1, <3>2, <4>2 DEF DirChosen
        <5>2. \A j \in 1 .. i - 1 : Sparse(Candidates[j])[k] = Unset
          <6> SUFFICES ASSUME NEW j \in 1 .. i - 1 PROVE Sparse(Candidates[j])[k] = Unset
            OBVIOUS
          <6>1. Candidates[j] \in Dirs /\ ~HasConfig(Candidates[j])
            BY <2>2, <5>1
          <6> QED  BY <1>1, <2>1, <6>1, SparseFacts, ValueFacts
        <5> QED  BY <2>1, <4>1, <5>1, <5>2
      <4>3. CASE c.scope = "local"
        <5>1. c.dir = cwd /\ Candidates[1] = cwd
          BY <2>1, <2>2, <4>3 DEF DirChosen
        <5> QED  BY <2>1, <2>2, <4>1, <5>1
      <4>4. CASE c.scope = "global"
        <5>1. c.dir = ClimonHome /\ \A d \in Dirs \ {ClimonHome} : Contains(Candidates, d) => Sparse(d)[k] = Unset
          BY <2>1, <3>2, <4>4 DEF DirChosen
        <5> DEFINE homes == {i \in 1 .. Len(Candidates) : Candidates[i] = ClimonHome}
        <5>2. homes \in SUBSET (1 .. 3) /\ homes # {}
          BY <2>2 DEF Contains
        <5>3. PICK i \in homes : \A j \in homes : i <= j
          BY <5>2, LeastOfThree
        <5>4. \A j \in 1 .. i - 1 : j \in 1 .. Len(Candidates) /\ j \notin homes
          BY <2>2, <5>2, <5>3
        <5>5. \A j \in 1 .. i - 1 : Sparse(Candidates[j])[k] = Unset
          BY <2>2, <5>1, <5>4 DEF Contains
        <5> QED  BY <2>1, <4>1, <5>1, <5>3, <5>5
      <4> QED  BY <2>1, <4>2, <4>3, <4>4 DEF Scopes
    <3> QED  BY <3>1, <3>2
  <2> HIDE DEF dirs
  <2>5. Says(c, k, "new")
    <3>1. \A d : View(c, d) = Sparse(d)
      BY <1>3 DEF View
    <3> QED  BY <2>4, <3>1 DEF Says, dirs, Unset
  <2> QED  BY <1>1, <1>3, <2>1, <2>5, ResolveSays
<1> QED  BY <1>2, <1>4, <1>5 DEF ConfigInv

LEMMA ConfigStutters == ConfigIInv /\ UNCHANGED configVars => ConfigIInv'
<1> SUFFICES ASSUME ConfigIInv, UNCHANGED configVars PROVE ConfigIInv'
  OBVIOUS
<1>1. /\ cwd' = cwd /\ moved' = moved /\ canonical' = canonical /\ legacy' = legacy
      /\ backup' = backup /\ cmd' = cmd /\ purged' = purged
  BY DEF configVars
<1>2. WorldSound'
  BY <1>1 DEF ConfigIInv, WorldSound
<1>3. CmdsSound' /\ LegacyAsFound'
  BY <1>1 DEF ConfigIInv, CmdsSound, CmdSound, LegacyAsFound
<1>4. ASSUME NEW p \in Runners PROVE LoneCommand(p)'
  <2>1. /\ ClimonHome' = ClimonHome /\ Candidates' = Candidates
        /\ \A d : Sparse(d)' = Sparse(d)
        /\ \A d : HasConfig(d)' <=> HasConfig(d)
        /\ \A k : DirsFor(k)' = DirsFor(k)
    BY <1>1, CascadeKept
  <2>2. DirChosen(cmd[p]) => DirChosen(cmd[p])'
    BY <1>1, <2>1 DEF DirChosen
  <2>3. ASSUME NEW k, NEW v, Says(cmd[p], k, v) PROVE Says(cmd[p], k, v)'
    <3>1. \A d : View(cmd[p], d)' = View(cmd[p], d)
      BY <1>1, <2>1 DEF View
    <3> QED  BY <2>1, <2>3, <3>1 DEF Says
  <2>4. LoneWriterSound(cmd[p]) => LoneWriterSound(cmd[p])'
    BY <1>1, <2>2, <2>3 DEF LoneWriterSound
  <2> QED  BY <1>1, <2>4 DEF ConfigIInv, LoneCommand
<1> QED  BY <1>2, <1>3, <1>4 DEF ConfigIInv

\* A set or an unset that nothing overlaps is effective for its own key and leaves the
\* other settings of the cascade as they were (config.rs, config_settings.rs:
\* write_config_setting, unset_config_setting against resolve_config_setting), however
\* many commands run before and after it.
THEOREM ConfigCorrect == ConfigSpec => []ConfigInv
<1>1. ConfigIInv /\ [ConfigNext]_configVars => ConfigIInv'
  <2> SUFFICES ASSUME ConfigIInv, [ConfigNext]_configVars PROVE ConfigIInv'
    OBVIOUS
  <2>1. CASE UNCHANGED configVars
    BY <2>1, ConfigStutters
  <2> QED  BY <2>1, ConfigStep
<1> QED  BY <1>1, ConfigInitial, ConfigImplied, PTL DEF ConfigSpec

\* The file of an older release is there after every step, in its place or as the
\* backup, unless its deletion was confirmed (write_sparse_config), whatever commands
\* overlap and wherever one is interrupted.
THEOREM LegacyNeverLost == ConfigSpec => LegacyKept
<1> DEFINE Kept == \A d \in Dirs : (legacy[d] = OldSettings \/ backup[d] = OldSettings) =>
                     \/ legacy'[d] = OldSettings \/ backup'[d] = OldSettings
                     \/ d \in purged'
<1>1. ConfigIInv /\ [ConfigNext]_configVars => ConfigIInv' /\ [Kept]_configVars
  <2> SUFFICES ASSUME ConfigIInv, [ConfigNext]_configVars PROVE ConfigIInv' /\ [Kept]_configVars
    OBVIOUS
  <2>1. CASE UNCHANGED configVars
    BY <2>1, ConfigStutters
  <2>2. CASE ConfigNext
    <3>1. ConfigIInv'
      BY <2>2, ConfigStep
    <3>2. ASSUME UNCHANGED <<legacy, backup>> PROVE Kept
      BY <3>2
    <3>3. ASSUME NEW p \in Runners, MigrateLegacy(p) PROVE Kept
      <4>1. \A d \in Dirs : legacy[d] \in {NoConfig, OldSettings}
        BY DEF ConfigIInv, LegacyAsFound
      <4>2. /\ legacy \in [Dirs -> FileStates] /\ backup \in [Dirs -> FileStates] /\ cmd[p].dir \in Dirs
        BY CmdFacts DEF WorldSound
      <4> QED  BY <3>3, <4>1, <4>2 DEF MigrateLegacy
    <3>4. ASSUME NEW p \in Runners, PurgeFile(p) PROVE Kept
      BY <3>4, StepPurges
    <3>5. UNCHANGED <<legacy, backup>> \/ \E p \in Runners : MigrateLegacy(p) \/ PurgeFile(p)
      <4> DEFINE Untouched == UNCHANGED <<legacy, backup>>
      <4>1. ASSUME NEW p \in Runners, ProgramSets(p) \/ LoadConfig(p) \/ Purge(p) \/ CommandKilled(p)
            PROVE  Untouched
        BY <4>1 DEF ProgramSets, LoadConfig, Purge, CommandKilled, Begins, UnchangedConfigFiles
      <4>2. ASSUME NEW p \in Runners, NEW k \in AcceptsInput, NEW scope \in {"auto", "local", "global"},
                   SetSetting(p, k, scope) \/ UnsetSetting(p, k, scope)
            PROVE  Untouched
        BY <4>2 DEF SetSetting, UnsetSetting, Begins, UnchangedConfigFiles
      <4>3. ASSUME NEW p \in Runners,
                   ReadSparse(p) \/ LoadReads(p) \/ DecideMigration(p) \/ OpenTruncates(p)
            PROVE  Untouched
        BY <4>3 DEF ReadSparse, LoadReads, DecideMigration, OpenTruncates, UnchangedConfigFiles
      <4>4. ASSUME NEW p \in Runners, FillFile(p) \/ PurgeEnds(p) \/ CommandReturns(p)
            PROVE  Untouched
        BY <4>4 DEF FillFile, PurgeEnds, CommandReturns, UnchangedConfigFiles
      <4> HIDE DEF Untouched
      <4>5. Untouched \/ \E p \in Runners : MigrateLegacy(p) \/ PurgeFile(p)
        BY <2>2, <4>1, <4>2, <4>3, <4>4 DEF ConfigNext, CommandStep
      <4> QED  BY <4>5 DEF Untouched
    <3> QED  BY <3>1, <3>2, <3>3, <3>4, <3>5
  <2> QED  BY <2>1, <2>2
<1> QED  BY <1>1, ConfigInitial, PTL DEF ConfigSpec, LegacyKept

----------------------------------------------------------------------------
(* Updates and installers *)

Stages == {"rest", "fetch", "note", "record", "download", "stage", "swap", "place", "finish",
           "clear", "onboard", "copy", "fill", "mark"}

Kinds == {"none", "check", "update", "install"}

ProcRecords ==
  [kind : Kinds, pc : Stages,
   own : Versions \cup {Absent}, new : Versions \cup {Absent}, at : 1 .. 2,
   deferred : BOOLEAN, displaced : BOOLEAN, retried : BOOLEAN, applied : SUBSET Files]

\* What a process has done by the stage it is in.
ProcSound(r) ==
  /\ r \in ProcRecords
  /\ r.pc \notin {"rest", "fetch", "record"} => r.new \in Versions
  /\ r.pc = "fill" => r.kind = "install"
  /\ r.pc = "place" => r.kind = "update"
  /\ r.kind = "update" /\ r.pc \in {"fetch", "download"} => r.at = 1
  /\ r.kind = "update" /\ ~r.deferred =>
       /\ r.at = 2 /\ r.pc \in {"stage", "swap", "place"} => "climon" \in r.applied
       /\ r.pc \in {"finish", "clear"} => r.applied = Files
  /\ r.kind = "update" /\ r.pc = "clear" => ~r.deferred

WorldTypeOK ==
  /\ windows \in BOOLEAN /\ due \in BOOLEAN /\ auto \in BOOLEAN
  /\ released \in Versions
  /\ marker \in Versions
  /\ available \in Versions \cup {Absent}
  /\ installs \in 0..MaxInstalls /\ faults \in 0..MaxFaults

\* Only Unix truncates a file in place, and only Windows makes .old files.
FilesSound ==
  /\ file \in [Files -> Versions \cup {Absent, Torn}]
  /\ old \in [Files -> Versions \cup {Absent, Torn}]
  /\ hurt \subseteq Files
  /\ windows => \A f \in Files : file[f] # Torn
  /\ \A f \in Files : old[f] # Torn

ProcsSound == proc \in [Procs -> ProcRecords] /\ \A p \in Procs : ProcSound(proc[p])

\* The process has taken a file away that it has not given back.
Owes(r) == r.pc = "fill" \/ (r.pc = "place" /\ r.displaced)

MissingOwed ==
  \A f \in Files :
    file[f] \in {Absent, Torn} =>
      f \in hurt \/ \E p \in Procs : Owes(proc[p]) /\ Here(p) = f

InstallIInv == WorldTypeOK /\ FilesSound /\ ProcsSound /\ MissingOwed

----------------------------------------------------------------------------
(* Files and versions *)

LEMMA VersionFacts ==
    /\ 1 \in Versions /\ Absent \notin Versions /\ Torn \notin Versions /\ Absent # Torn
    /\ \A v \in Versions : v \in Int
BY InstallAssumption DEF Versions, Absent, Torn

LEMMA FileAtFacts ==
    /\ FileAt[1] = "climon" /\ FileAt[2] = "server"
    /\ \A i \in 1 .. 2 : FileAt[i] \in Files
BY DEF FileAt, Files

LEMMA StageFacts ==
    /\ \A x \in {"fetch", "stage", "finish", "onboard", "copy", "mark"} : x \in Stages
    /\ \A x \in {"check", "update", "install"} : x \in Kinds
    /\ 1 \in 1 .. 2 /\ 2 \in 1 .. 2
BY DEF Stages, Kinds

LEMMA IdleProcSound == ProcSound(IdleProc) /\ ~Owes(IdleProc)
<1>1. IdleProc \in ProcRecords
  BY DEF IdleProc, ProcRecords, Stages, Kinds
<1> QED  BY <1>1 DEF IdleProc, ProcSound, Owes

LEMMA StartedSound ==
    ASSUME NEW v \in Versions
    PROVE  /\ ProcSound(Started("update", "fetch", v, Absent))
           /\ ProcSound(Started("check", "fetch", v, Absent))
           /\ ProcSound(Started("install", "onboard", v, v))
           /\ ~Owes(Started("update", "fetch", v, Absent))
           /\ ~Owes(Started("check", "fetch", v, Absent))
           /\ ~Owes(Started("install", "onboard", v, v))
<1>0. IdleProc \in ProcRecords /\ IdleProc.at = 1 /\ ~IdleProc.deferred
  BY IdleProcSound DEF ProcSound, IdleProc
<1>1. ASSUME NEW k \in {"check", "update"}
      PROVE  ProcSound(Started(k, "fetch", v, Absent)) /\ ~Owes(Started(k, "fetch", v, Absent))
  <2> DEFINE r == Started(k, "fetch", v, Absent)
  <2>1. /\ r \in ProcRecords /\ r.kind = k /\ r.pc = "fetch" /\ r.at = 1 /\ ~r.deferred
    BY <1>0, StageFacts DEF Started, ProcRecords
  <2> HIDE DEF r
  <2> QED  BY <2>1 DEF ProcSound, Owes, r
<1>2. ProcSound(Started("install", "onboard", v, v)) /\ ~Owes(Started("install", "onboard", v, v))
  <2> DEFINE r == Started("install", "onboard", v, v)
  <2>1. r \in ProcRecords /\ r.kind = "install" /\ r.pc = "onboard" /\ r.new = v
    BY <1>0, StageFacts DEF Started, ProcRecords
  <2> HIDE DEF r
  <2> QED  BY <2>1 DEF ProcSound, Owes, r
<1> QED  BY <1>1, <1>2

LEMMA InstallInitial == InstallInit => InstallIInv
<1> SUFFICES ASSUME InstallInit PROVE InstallIInv
  OBVIOUS
<1>1. WorldTypeOK
  BY VersionFacts, InstallAssumption DEF InstallInit, WorldTypeOK
<1>2. FilesSound
  BY VersionFacts DEF InstallInit, FilesSound
<1>3. ProcsSound
  BY IdleProcSound DEF InstallInit, ProcsSound, ProcSound
<1>4. MissingOwed
  BY VersionFacts DEF InstallInit, MissingOwed
<1> QED  BY <1>1, <1>2, <1>3, <1>4 DEF InstallIInv

\* A step of one process, which changes at most the file it is at: the invariant
\* holds after it if the file is there, or somebody is to blame.
LEMMA OneStep ==
    ASSUME InstallIInv, NEW p \in Procs, NEW r, ProcSound(r), proc' = [proc EXCEPT ![p] = r],
           WorldTypeOK', FilesSound', hurt \subseteq hurt',
           \A f \in Files : f # Here(p) => file'[f] = file[f],
           \/ file'[Here(p)] \notin {Absent, Torn}
           \/ Here(p) \in hurt'
           \/ Owes(r) /\ FileAt[r.at] = Here(p)
           \/ ~Owes(proc[p]) /\ file'[Here(p)] = file[Here(p)]
    PROVE  InstallIInv'
<1> USE DEF InstallIInv
<1>1. proc'[p] = r /\ \A q \in Procs : q # p => proc'[q] = proc[q]
  BY DEF ProcsSound
<1>2. ProcsSound'
  BY <1>1 DEF ProcsSound, ProcSound
<1>3. MissingOwed'
  <2> SUFFICES ASSUME NEW f \in Files, file'[f] \in {Absent, Torn}, f \notin hurt'
               PROVE  \E q \in Procs : Owes(proc'[q]) /\ FileAt[proc'[q].at] = f
    BY DEF MissingOwed, Here
  <2>1. CASE Owes(r) /\ FileAt[r.at] = f
    BY <1>1, <2>1
  <2>2. CASE file'[f] = file[f] /\ (f # Here(p) \/ ~Owes(proc[p]))
    <3>1. PICK q \in Procs : Owes(proc[q]) /\ Here(q) = f
      BY <2>2 DEF MissingOwed
    <3>2. q # p
      BY <2>2, <3>1
    <3> QED  BY <1>1, <3>1, <3>2 DEF Here
  <2> QED  BY <2>1, <2>2
<1> QED  BY <1>2, <1>3

\* A step that leaves the files alone.
LEMMA QuietStep ==
    ASSUME InstallIInv, NEW p \in Procs, NEW r, ProcSound(r), proc' = [proc EXCEPT ![p] = r],
           WorldTypeOK', UNCHANGED <<windows, file, old, hurt>>, ~Owes(proc[p])
    PROVE  InstallIInv'
<1>1. FilesSound'
  BY DEF FilesSound, InstallIInv
<1> QED  BY <1>1, OneStep

\* The facts about the process and its file that a step starts from.
LEMMA ProcFacts ==
    ASSUME InstallIInv, NEW p \in Procs
    PROVE  /\ proc[p] \in ProcRecords /\ ProcSound(proc[p])
           /\ Here(p) \in Files
           /\ proc[p].at = 1 => Here(p) = "climon"
           /\ proc[p].at = 2 => Here(p) = "server"
           /\ proc[p].at \in 1 .. 2
BY FileAtFacts DEF InstallIInv, ProcsSound, Here, ProcRecords

LEMMA NextFileRecord ==
    ASSUME NEW s \in ProcRecords
    PROVE  /\ NextFile(s) \in ProcRecords
           /\ NextFile(s).kind = s.kind /\ NextFile(s).new = s.new
           /\ NextFile(s).applied = s.applied /\ NextFile(s).deferred = s.deferred
           /\ ~NextFile(s).displaced /\ NextFile(s).at = 2
           /\ NextFile(s).pc = IF s.at = 1 THEN "stage" ELSE "finish"
<1>1. CASE s.at = 1
  <2> DEFINE r == [s EXCEPT !.at = 2, !.pc = "stage", !.displaced = FALSE]
  <2>1. NextFile(s) = r
    BY <1>1 DEF NextFile
  <2>2. /\ r.kind = s.kind /\ r.new = s.new /\ r.applied = s.applied /\ r.deferred = s.deferred
        /\ ~r.displaced /\ r.at = 2 /\ r.pc = "stage"
    BY StageFacts DEF ProcRecords
  <2>3. r \in ProcRecords
    BY StageFacts DEF ProcRecords
  <2> HIDE DEF r
  <2> QED  BY <1>1, <2>1, <2>2, <2>3
<1>2. CASE s.at # 1
  <2> DEFINE r == [s EXCEPT !.pc = "finish", !.displaced = FALSE]
  <2>1. NextFile(s) = r
    BY <1>2 DEF NextFile
  <2>2. /\ r.kind = s.kind /\ r.new = s.new /\ r.applied = s.applied /\ r.deferred = s.deferred
        /\ ~r.displaced /\ r.at = 2 /\ r.pc = "finish"
    BY <1>2, StageFacts DEF ProcRecords
  <2>3. r \in ProcRecords
    BY StageFacts DEF ProcRecords
  <2> HIDE DEF r
  <2> QED  BY <1>2, <2>1, <2>2, <2>3
<1> QED  BY <1>1, <1>2

\* The next file of an update, or its end: sound if the one it was at was applied,
\* or the update is deferred.
LEMMA NextFileSound ==
    ASSUME InstallIInv, NEW p \in Procs, proc[p].kind = "update", proc[p].pc \in {"stage", "swap", "place"},
           NEW d \in BOOLEAN, NEW a, a = proc[p].applied \/ a = proc[p].applied \cup {Here(p)},
           d \/ a = proc[p].applied \cup {Here(p)},
           d \/ d = proc[p].deferred
    PROVE  LET r == [NextFile(proc[p]) EXCEPT !.deferred = d, !.applied = a]
           IN  ProcSound(r) /\ ~Owes(r)
<1> DEFINE s == proc[p]
           r == [NextFile(s) EXCEPT !.deferred = d, !.applied = a]
<1>1. /\ s \in ProcRecords /\ ProcSound(s) /\ Here(p) \in Files /\ s.new \in Versions
      /\ s.at = 1 => Here(p) = "climon"
      /\ s.at = 2 => Here(p) = "server"
      /\ s.at \in {1, 2} /\ s.kind = "update" /\ s.pc \in {"stage", "swap", "place"}
  BY ProcFacts DEF ProcSound
<1>2. a \subseteq Files
  BY <1>1 DEF ProcRecords
<1> HIDE DEF s
<1> DEFINE n == NextFile(s)
<1>5. /\ n \in ProcRecords /\ n.kind = "update" /\ n.new \in Versions /\ ~n.displaced /\ n.at = 2
      /\ n.pc = IF s.at = 1 THEN "stage" ELSE "finish"
  BY <1>1, NextFileRecord
<1> HIDE DEF n
<1>6. r = [n EXCEPT !.deferred = d, !.applied = a]
  BY DEF n
<1>7. /\ r \in ProcRecords /\ r.at = 2 /\ r.deferred = d /\ r.applied = a
      /\ r.kind = "update" /\ r.new \in Versions /\ r.pc = IF s.at = 1 THEN "stage" ELSE "finish"
  BY <1>2, <1>5, <1>6, StageFacts DEF ProcRecords
<1>3. CASE s.at = 1
  <2>3. ~d => "climon" \in a
    BY <1>1, <1>3
  <2> HIDE DEF r
  <2> QED  BY <1>3, <1>7, <2>3 DEF ProcSound, Owes, r, s
<1>4. CASE s.at = 2
  <2>3. ~d => a = Files
    <3> SUFFICES ASSUME ~d PROVE a = Files
      OBVIOUS
    <3>1. ~s.deferred /\ a = s.applied \cup {"server"}
      BY <1>1, <1>4 DEF s
    <3>2. "climon" \in s.applied
      BY <1>1, <1>4, <3>1 DEF ProcSound
    <3> QED  BY <1>2, <3>1, <3>2 DEF Files
  <2> HIDE DEF r
  <2> QED  BY <1>4, <1>7, <2>3 DEF ProcSound, Owes, r, s
<1> QED  BY <1>1, <1>3, <1>4 DEF s

----------------------------------------------------------------------------
(* The world, the launches and the version check *)

LEMMA WorldMoves ==
    ASSUME InstallIInv, faults' \in 0 .. MaxFaults, Publish \/ DayPasses
    PROVE  InstallIInv'
<1> USE DEF InstallIInv
<1>1. WorldTypeOK'
  <2>1. CASE Publish
    <3>1. released' \in Versions
      BY <2>1, InstallAssumption DEF Publish, WorldTypeOK, Versions
    <3> QED  BY <2>1, <3>1 DEF Publish, WorldTypeOK
  <2>2. CASE DayPasses
    BY <2>2 DEF DayPasses, WorldTypeOK
  <2> QED  BY <2>1, <2>2
<1>2. UNCHANGED <<windows, file, old, hurt, proc>>
  BY DEF Publish, DayPasses
<1>3. FilesSound' /\ ProcsSound' /\ MissingOwed'
  BY <1>2 DEF FilesSound, ProcsSound, MissingOwed, Here
<1> QED  BY <1>1, <1>3

LEMMA HooksLaunch ==
    ASSUME InstallIInv, faults' \in 0 .. MaxFaults, NEW p \in Procs, NEW q \in Procs, LaunchHooks(p, q)
    PROVE  InstallIInv'
<1> USE DEF InstallIInv
<1> DEFINE u == IF SpawnsUpdate THEN Started("update", "fetch", file["climon"], Absent) ELSE proc[p]
           c == IF due THEN Started("check", "fetch", file["climon"], Absent) ELSE proc[q]
<1>1. /\ file["climon"] \in Versions /\ p # q /\ proc[p] = IdleProc /\ proc[q] = IdleProc
      /\ proc' = [proc EXCEPT ![p] = u, ![q] = c]
      /\ UNCHANGED <<windows, released, file, old, marker, available, due, auto, hurt, installs>>
  BY DEF LaunchHooks
<1>2. ProcSound(u) /\ ProcSound(c)
  BY <1>1, StartedSound, IdleProcSound
<1> HIDE DEF u, c
<1>3. \A s \in Procs : proc'[s] = IF s = q THEN c ELSE IF s = p THEN u ELSE proc[s]
  BY <1>1 DEF ProcsSound
<1>4. ProcsSound'
  BY <1>1, <1>2, <1>3 DEF ProcsSound, ProcSound
<1>5. WorldTypeOK' /\ FilesSound'
  BY <1>1 DEF WorldTypeOK, FilesSound
<1>6. MissingOwed'
  <2> SUFFICES ASSUME NEW f \in Files, file[f] \in {Absent, Torn}, f \notin hurt
               PROVE  \E s \in Procs : Owes(proc'[s]) /\ FileAt[proc'[s].at] = f
    BY <1>1 DEF MissingOwed, Here
  <2>1. PICK s \in Procs : Owes(proc[s]) /\ Here(s) = f
    BY DEF MissingOwed
  <2>2. s # p /\ s # q
    BY <1>1, <2>1, IdleProcSound
  <2> QED  BY <1>3, <2>1, <2>2 DEF Here
<1> QED  BY <1>4, <1>5, <1>6

LEMMA UserStarts ==
    ASSUME InstallIInv, faults' \in 0 .. MaxFaults, NEW p \in Procs,
           UserUpdates(p) \/ \E v \in Versions : UserInstalls(p, v)
    PROVE  InstallIInv'
<1>1. CASE UserUpdates(p)
  <2>1. /\ file["climon"] \in Versions /\ ~Owes(proc[p])
        /\ proc' = [proc EXCEPT ![p] = Started("update", "fetch", file["climon"], Absent)]
        /\ UNCHANGED <<windows, file, old, hurt>>
    BY <1>1, IdleProcSound DEF UserUpdates
  <2>2. WorldTypeOK'
    BY <1>1 DEF UserUpdates, InstallIInv, WorldTypeOK
  <2> QED  BY <2>1, <2>2, StartedSound, QuietStep
<1>2. ASSUME NEW v \in Versions, UserInstalls(p, v) PROVE InstallIInv'
  <2>1. /\ ~Owes(proc[p])
        /\ proc' = [proc EXCEPT ![p] = Started("install", "onboard", v, v)]
        /\ UNCHANGED <<windows, file, old, hurt>>
    BY <1>2, IdleProcSound DEF UserInstalls
  <2>2. WorldTypeOK'
    BY <1>2, InstallAssumption DEF UserInstalls, InstallIInv, WorldTypeOK
  <2> QED  BY <2>1, <2>2, StartedSound, QuietStep
<1> QED  BY <1>1, <1>2

LEMMA CheckSteps ==
    ASSUME InstallIInv, faults' \in 0 .. MaxFaults, NEW p \in Procs,
           CheckFetches(p) \/ CheckFetchFails(p) \/ (\E artifact \in BOOLEAN : CheckNotes(p, artifact))
           \/ CheckRecords(p)
    PROVE  InstallIInv'
<1> DEFINE s == proc[p]
<1>1. /\ s \in ProcRecords /\ ProcSound(s) /\ s.kind = "check" /\ s.pc \in {"fetch", "note", "record"}
      /\ ~Owes(s)
  BY ProcFacts DEF CheckFetches, CheckFetchFails, CheckNotes, CheckRecords, At, Owes
<1>2. PICK r : proc' = [proc EXCEPT ![p] = r] /\ ProcSound(r)
  <2>1. CASE CheckFetches(p)
    <3> DEFINE r == [s EXCEPT !.pc = "note", !.new = released]
    <3>1. proc' = [proc EXCEPT ![p] = r]
      BY <2>1 DEF CheckFetches, InstallIInv, ProcsSound
    <3>2. r \in ProcRecords /\ r.pc = "note" /\ r.kind = "check" /\ r.new \in Versions
      BY <1>1 DEF ProcRecords, Stages, InstallIInv, WorldTypeOK
    <3>3. ProcSound(r)
      BY <3>2 DEF ProcSound
    <3> HIDE DEF r
    <3> QED  BY <3>1, <3>3
  <2>2. CASE CheckFetchFails(p) \/ \E artifact \in BOOLEAN : CheckNotes(p, artifact)
    <3> DEFINE r == [s EXCEPT !.pc = "record"]
    <3>1. proc' = [proc EXCEPT ![p] = r]
      BY <2>2 DEF CheckFetchFails, CheckNotes, Goto, InstallIInv, ProcsSound
    <3>2. r \in ProcRecords /\ r.pc = "record" /\ r.kind = "check"
      BY <1>1 DEF ProcRecords, Stages
    <3>3. ProcSound(r)
      BY <3>2 DEF ProcSound
    <3> HIDE DEF r
    <3> QED  BY <3>1, <3>3
  <2>3. CASE CheckRecords(p)
    BY <2>3, IdleProcSound DEF CheckRecords, Ends
  <2> QED  BY <2>1, <2>2, <2>3
<1>3. UNCHANGED <<windows, file, old, hurt>>
  BY DEF CheckFetches, CheckFetchFails, CheckNotes, CheckRecords, UnchangedExceptProc, UnchangedFiles
<1>4. WorldTypeOK'
  <2>1. available' \in Versions \cup {Absent} /\ due' \in BOOLEAN
    BY <1>1 DEF CheckFetches, CheckFetchFails, CheckNotes, CheckRecords, UnchangedExceptProc,
                ProcRecords, InstallIInv, WorldTypeOK
  <2>2. UNCHANGED <<windows, auto, released, marker, installs>>
    BY DEF CheckFetches, CheckFetchFails, CheckNotes, CheckRecords, UnchangedExceptProc, UnchangedFiles
  <2> QED  BY <2>1, <2>2 DEF InstallIInv, WorldTypeOK
<1> QED  BY <1>1, <1>2, <1>3, <1>4, QuietStep

----------------------------------------------------------------------------
(* The update *)

\* Up to the swap nothing is changed, and an update may end at any of these stages.
LEMMA UpdateBegins ==
    ASSUME InstallIInv, faults' \in 0 .. MaxFaults, NEW p \in Procs,
           UpdateFetches(p) \/ UpdateDownloads(p) \/ UpdateGivesUp(p) \/ UpdateStages(p)
           \/ UpdateSkips(p) \/ RenameFails(p)
    PROVE  InstallIInv'
<1> DEFINE s == proc[p]
<1>1. /\ s \in ProcRecords /\ ProcSound(s) /\ s.kind = "update"
      /\ s.pc \in {"fetch", "download", "stage", "swap"} /\ ~Owes(s)
  BY ProcFacts DEF UpdateFetches, UpdateDownloads, UpdateGivesUp, UpdateStages, UpdateSkips, RenameFails,
                   At, Owes
<1>2. PICK r : proc' = [proc EXCEPT ![p] = r] /\ ProcSound(r)
  <2>1. CASE UpdateFetches(p)
    <3>1. CASE released > s.own
      <4> DEFINE r == [s EXCEPT !.pc = "download", !.new = released]
      <4>1. proc' = [proc EXCEPT ![p] = r]
        BY <2>1, <3>1 DEF UpdateFetches, InstallIInv, ProcsSound
      <4>2. r \in ProcRecords /\ r.pc = "download" /\ r.kind = "update" /\ r.new \in Versions /\ r.at = 1
        BY <1>1, <2>1 DEF ProcRecords, Stages, InstallIInv, WorldTypeOK, ProcSound, UpdateFetches, At
      <4>3. ProcSound(r)
        BY <4>2 DEF ProcSound
      <4> HIDE DEF r
      <4> QED  BY <4>1, <4>3
    <3>2. CASE ~(released > s.own)
      BY <2>1, <3>2, IdleProcSound DEF UpdateFetches, Ends
    <3> QED  BY <3>1, <3>2
  <2>2. CASE UpdateDownloads(p)
    <3> DEFINE r == [s EXCEPT !.pc = "stage"]
    <3>1. proc' = [proc EXCEPT ![p] = r] /\ s.pc = "download"
      BY <2>2 DEF UpdateDownloads, Goto, At, InstallIInv, ProcsSound
    <3>2. /\ r \in ProcRecords /\ r.pc = "stage" /\ r.kind = "update" /\ r.new \in Versions /\ r.at = 1
      BY <1>1, <3>1 DEF ProcRecords, Stages, ProcSound
    <3>3. ProcSound(r)
      BY <3>2 DEF ProcSound
    <3> HIDE DEF r
    <3> QED  BY <3>1, <3>3
  <2>3. CASE UpdateStages(p)
    <3> DEFINE r == [s EXCEPT !.pc = "swap"]
    <3>1. proc' = [proc EXCEPT ![p] = r] /\ s.pc = "stage"
      BY <2>3 DEF UpdateStages, Goto, At, InstallIInv, ProcsSound
    <3>2. /\ r \in ProcRecords /\ r.pc = "swap" /\ r.kind = "update" /\ r.new = s.new /\ r.at = s.at
          /\ r.applied = s.applied /\ r.deferred = s.deferred
      BY <1>1 DEF ProcRecords, Stages
    <3>3. ProcSound(r)
      BY <1>1, <3>1, <3>2 DEF ProcSound
    <3> HIDE DEF r
    <3> QED  BY <3>1, <3>3
  <2>4. CASE UpdateSkips(p)
    <3> DEFINE a == s.applied \cup {Here(p)}
               r == [NextFile(s) EXCEPT !.deferred = s.deferred, !.applied = a]
    <3>1. NextFile(s) \in ProcRecords /\ NextFile(s).applied = s.applied /\ NextFile(s).deferred = s.deferred
      BY <1>1, NextFileRecord
    <3>2. proc' = [proc EXCEPT ![p] = [NextFile(s) EXCEPT !.applied = NextFile(s).applied \cup {Here(p)}]]
      BY <2>4 DEF UpdateSkips
    <3>3. r = [NextFile(s) EXCEPT !.applied = NextFile(s).applied \cup {Here(p)}]
      BY <3>1 DEF ProcRecords
    <3>4. s.deferred \in BOOLEAN /\ s.pc = "stage"
      BY <1>1, <2>4 DEF ProcRecords, UpdateSkips, At
    <3>5. ProcSound(r)
      BY <1>1, <3>4, NextFileSound
    <3> HIDE DEF r
    <3> QED  BY <3>2, <3>3, <3>5
  <2>5. CASE UpdateGivesUp(p) \/ RenameFails(p)
    BY <2>5, IdleProcSound DEF UpdateGivesUp, RenameFails, Ends
  <2> QED  BY <2>1, <2>2, <2>3, <2>4, <2>5
<1>3. UnchangedExceptProc
  BY DEF UpdateFetches, UpdateDownloads, UpdateGivesUp, UpdateStages, UpdateSkips, RenameFails
<1>4. WorldTypeOK'
  BY <1>3 DEF UnchangedExceptProc, InstallIInv, WorldTypeOK
<1> QED  BY <1>1, <1>2, <1>3, <1>4, QuietStep DEF UnchangedExceptProc

\* The new file is in place: by one rename, or as the second of two.
LEMMA FilePlaced ==
    ASSUME InstallIInv, faults' \in 0 .. MaxFaults, NEW p \in Procs, RenameOver(p) \/ Places(p)
    PROVE  InstallIInv'
<1> DEFINE s == proc[p]
           a == s.applied \cup {Here(p)}
           r == [NextFile(s) EXCEPT !.deferred = s.deferred, !.applied = a]
<1>1. /\ s \in ProcRecords /\ ProcSound(s) /\ s.kind = "update"
      /\ s.pc \in {"swap", "place"} /\ s.new \in Versions /\ s.deferred \in BOOLEAN /\ Here(p) \in Files
  BY ProcFacts DEF RenameOver, Places, At, ProcSound, ProcRecords
<1>2. NextFile(s) \in ProcRecords /\ NextFile(s).applied = s.applied /\ NextFile(s).deferred = s.deferred
  BY <1>1, NextFileRecord
<1>3. r = [NextFile(s) EXCEPT !.applied = NextFile(s).applied \cup {Here(p)}]
  BY <1>2 DEF ProcRecords
<1>4. proc' = [proc EXCEPT ![p] = r]
  <2>1. proc' = [proc EXCEPT ![p] = [NextFile(s) EXCEPT !.applied = NextFile(s).applied \cup {Here(p)}]]
    BY DEF RenameOver, Places
  <2> QED  BY <1>3, <2>1
<1>5. ProcSound(r)
  BY <1>1, NextFileSound
<1>6. /\ file' = [file EXCEPT ![Here(p)] = s.new] /\ UNCHANGED <<old, hurt>> /\ UnchangedSettings
  BY DEF RenameOver, Places
<1> HIDE DEF r
<1>7. WorldTypeOK'
  BY <1>6 DEF UnchangedSettings, InstallIInv, WorldTypeOK
<1>8. FilesSound' /\ file'[Here(p)] \notin {Absent, Torn} /\ \A f \in Files : f # Here(p) => file'[f] = file[f]
  BY <1>1, <1>6, VersionFacts DEF UnchangedSettings, InstallIInv, FilesSound
<1> QED  BY <1>4, <1>5, <1>6, <1>7, <1>8, OneStep

\* Windows: the file makes room, or is locked and deferred.
LEMMA FileDisplaced ==
    ASSUME InstallIInv, faults' \in 0 .. MaxFaults, NEW p \in Procs, Displaces(p) \/ Defers(p)
    PROVE  InstallIInv'
<1> DEFINE s == proc[p]
           f == Here(p)
<1>1. /\ s \in ProcRecords /\ ProcSound(s) /\ s.kind = "update" /\ s.pc = "swap" /\ windows
      /\ s.new \in Versions /\ Here(p) \in Files /\ ~Owes(s)
  BY ProcFacts DEF Displaces, Defers, At, ProcSound, Owes
<1>2. UnchangedSettings /\ hurt' = hurt
  BY DEF Displaces, Defers
<1>3. WorldTypeOK'
  BY <1>2 DEF UnchangedSettings, InstallIInv, WorldTypeOK
<1>4. CASE Displaces(p)
  <2> DEFINE d == file[f] # Absent
             r == [s EXCEPT !.pc = "place", !.displaced = d]
  <2>1. proc' = [proc EXCEPT ![p] = r]
    BY <1>4 DEF Displaces, InstallIInv, ProcsSound
  <2>2. /\ r \in ProcRecords /\ r.pc = "place" /\ r.kind = "update" /\ r.new = s.new /\ r.at = s.at
        /\ r.applied = s.applied /\ r.deferred = s.deferred /\ r.displaced = d
    BY <1>1 DEF ProcRecords, Stages
  <2> HIDE DEF r
  <2>3. ProcSound(r)
    BY <1>1, <2>2 DEF ProcSound
  <2>4. /\ old' = [old EXCEPT ![f] = file[f]] /\ file' = [file EXCEPT ![f] = Absent]
    BY <1>4 DEF Displaces
  <2>5. FilesSound'
    BY <1>1, <1>2, <2>4, VersionFacts DEF UnchangedSettings, InstallIInv, FilesSound
  <2>6. \A g \in Files : g # f => file'[g] = file[g]
    BY <2>4 DEF InstallIInv, FilesSound
  <2>7. file'[f] = Absent /\ FileAt[r.at] = f
    BY <1>1, <2>2, <2>4 DEF Here, InstallIInv, FilesSound
  <2>8. d => Owes(r)
    BY <2>2 DEF Owes
  <2>9. ~d => file'[f] = file[f]
    BY <2>7
  <2> QED  BY <1>1, <1>2, <1>3, <2>1, <2>3, <2>5, <2>6, <2>7, <2>8, <2>9, OneStep
<1>5. CASE Defers(p)
  <2> DEFINE r == [NextFile(s) EXCEPT !.deferred = TRUE, !.applied = s.applied]
  <2>1. NextFile(s) \in ProcRecords /\ NextFile(s).applied = s.applied
    BY <1>1, NextFileRecord
  <2>2. r = [NextFile(s) EXCEPT !.deferred = TRUE]
    BY <2>1 DEF ProcRecords
  <2>3. proc' = [proc EXCEPT ![p] = r]
    BY <1>5, <2>2 DEF Defers, InstallIInv, ProcsSound
  <2>4. ProcSound(r)
    BY <1>1, NextFileSound
  <2> HIDE DEF r
  <2>5. old' = [old EXCEPT ![f] = Absent] /\ file' = file
    BY <1>5 DEF Defers
  <2>6. FilesSound'
    BY <1>1, <1>2, <2>5, VersionFacts DEF UnchangedSettings, InstallIInv, FilesSound
  <2> QED  BY <1>1, <1>2, <1>3, <2>3, <2>4, <2>5, <2>6, OneStep
<1> QED  BY <1>4, <1>5

\* The second rename fails: the file is put back, or is lost and known to be.
LEMMA FilePutBack ==
    ASSUME InstallIInv, faults' \in 0 .. MaxFaults, NEW p \in Procs, PlaceFails(p)
    PROVE  InstallIInv'
<1> DEFINE s == proc[p]
           f == Here(p)
           back == s.displaced /\ old[f] # Absent
<1>1. f \in Files /\ s.pc = "place"
  BY ProcFacts DEF PlaceFails, At
<1>2. /\ file' = IF back THEN [file EXCEPT ![f] = old[f]] ELSE file
      /\ old' = IF back THEN [old EXCEPT ![f] = Absent] ELSE old
      /\ hurt' = IF s.displaced /\ ~back THEN hurt \cup {f} ELSE hurt
      /\ proc' = [proc EXCEPT ![p] = IdleProc] /\ UnchangedSettings
  BY DEF PlaceFails, Ends
<1> HIDE DEF f
<1>3. WorldTypeOK'
  BY <1>2 DEF UnchangedSettings, InstallIInv, WorldTypeOK
<1>4. FilesSound'
  BY <1>1, <1>2, VersionFacts DEF UnchangedSettings, InstallIInv, FilesSound
<1>5. hurt \subseteq hurt' /\ \A g \in Files : g # f => file'[g] = file[g]
  BY <1>1, <1>2 DEF InstallIInv, FilesSound
<1>6. back => file'[f] \notin {Absent, Torn}
  BY <1>1, <1>2 DEF InstallIInv, FilesSound
<1>7. ~back => f \in hurt' \/ (~Owes(s) /\ file'[f] = file[f])
  BY <1>1, <1>2 DEF Owes
<1> QED  BY <1>2, <1>3, <1>4, <1>5, <1>6, <1>7, IdleProcSound, OneStep DEF f

LEMMA UpdateEnds ==
    ASSUME InstallIInv, faults' \in 0 .. MaxFaults, NEW p \in Procs, UpdateCleans(p) \/ UpdateClears(p)
    PROVE  InstallIInv'
<1> DEFINE s == proc[p]
<1>1. s \in ProcRecords /\ ProcSound(s) /\ s.kind = "update" /\ s.pc \in {"finish", "clear"} /\ ~Owes(s)
  BY ProcFacts DEF UpdateCleans, UpdateClears, At, Owes
<1>2. CASE UpdateCleans(p)
  <2>1. PICK locked \in SUBSET Files : old' = [f \in Files |-> IF f \in locked THEN old[f] ELSE Absent]
    BY <1>2 DEF UpdateCleans
  <2>2. s.pc = "finish" /\ UNCHANGED <<file, hurt>> /\ UnchangedSettings
    BY <1>2 DEF UpdateCleans, At
  <2>3. WorldTypeOK'
    BY <2>2 DEF UnchangedSettings, InstallIInv, WorldTypeOK
  <2>4. FilesSound'
    BY <2>1, <2>2, VersionFacts DEF UnchangedSettings, InstallIInv, FilesSound
  <2>5. PICK r : proc' = [proc EXCEPT ![p] = r] /\ ProcSound(r)
    <3>1. CASE s.deferred
      BY <1>2, <3>1, IdleProcSound DEF UpdateCleans, Ends
    <3>2. CASE ~s.deferred
      <4> DEFINE r == [s EXCEPT !.pc = "clear"]
      <4>1. proc' = [proc EXCEPT ![p] = r]
        BY <1>2, <3>2 DEF UpdateCleans, Goto, InstallIInv, ProcsSound
      <4>2. /\ r \in ProcRecords /\ r.pc = "clear" /\ r.kind = "update" /\ r.new = s.new
            /\ r.applied = s.applied /\ ~r.deferred
        BY <1>1, <3>2 DEF ProcRecords, Stages
      <4>3. ProcSound(r)
        BY <1>1, <2>2, <3>2, <4>2 DEF ProcSound
      <4> HIDE DEF r
      <4> QED  BY <4>1, <4>3
    <3> QED  BY <3>1, <3>2
  <2> QED  BY <1>1, <2>2, <2>3, <2>4, <2>5, OneStep
<1>3. CASE UpdateClears(p)
  <2>1. WorldTypeOK'
    BY <1>3 DEF UpdateClears, UnchangedFiles, InstallIInv, WorldTypeOK
  <2>2. proc' = [proc EXCEPT ![p] = IdleProc] /\ UNCHANGED <<windows, file, old, hurt>>
    BY <1>3 DEF UpdateClears, UnchangedFiles, Ends
  <2> QED  BY <1>1, <2>1, <2>2, IdleProcSound, QuietStep
<1> QED  BY <1>2, <1>3

----------------------------------------------------------------------------
(* The installer *)

LEMMA InstallerCopies ==
    ASSUME InstallIInv, faults' \in 0 .. MaxFaults, NEW p \in Procs, CopyStarts(p) \/ CopyEnds(p)
    PROVE  InstallIInv'
<1> DEFINE s == proc[p]
           f == Here(p)
<1>1. /\ s \in ProcRecords /\ ProcSound(s) /\ s.kind = "install" /\ s.pc \in {"copy", "fill"}
      /\ s.new \in Versions /\ Here(p) \in Files /\ UNCHANGED <<old, hurt>> /\ UnchangedSettings
  BY ProcFacts DEF CopyStarts, CopyEnds, At, ProcSound
<1>2. WorldTypeOK'
  BY <1>1 DEF UnchangedSettings, InstallIInv, WorldTypeOK
<1>3. CASE CopyStarts(p)
  <2> DEFINE r == [s EXCEPT !.pc = "fill"]
  <2>1. proc' = [proc EXCEPT ![p] = r] /\ file' = [file EXCEPT ![f] = IF windows THEN Absent ELSE Torn]
    BY <1>3 DEF CopyStarts, Goto, InstallIInv, ProcsSound
  <2>2. r \in ProcRecords /\ r.pc = "fill" /\ r.kind = "install" /\ r.new = s.new /\ r.at = s.at
    BY <1>1 DEF ProcRecords, Stages
  <2> HIDE DEF r
  <2>3. ProcSound(r) /\ Owes(r) /\ FileAt[r.at] = f
    BY <1>1, <2>2 DEF ProcSound, Owes, Here
  <2>4. FilesSound' /\ \A g \in Files : g # f => file'[g] = file[g]
    BY <1>1, <2>1, VersionFacts DEF UnchangedSettings, InstallIInv, FilesSound
  <2> QED  BY <1>1, <1>2, <2>1, <2>3, <2>4, OneStep
<1>4. CASE CopyEnds(p)
  <2> DEFINE c == IF s.pc = "fill" /\ s.at = 1 THEN "copy" ELSE "mark"
             r == [s EXCEPT !.pc = c, !.at = 2]
  <2>1. proc' = [proc EXCEPT ![p] = r] /\ file' = [file EXCEPT ![f] = s.new]
    BY <1>4 DEF CopyEnds, InstallIInv, ProcsSound
  <2>0. c \in Stages /\ c \in {"copy", "mark"}
    BY StageFacts
  <2> HIDE DEF c
  <2>2. r \in ProcRecords /\ r.pc \in {"copy", "mark"} /\ r.kind = "install" /\ r.new = s.new
    BY <1>1, <2>0, StageFacts DEF ProcRecords
  <2> HIDE DEF r
  <2>3. ProcSound(r)
    BY <1>1, <2>2 DEF ProcSound
  <2>4. /\ FilesSound' /\ file'[f] \notin {Absent, Torn}
        /\ \A g \in Files : g # f => file'[g] = file[g]
    BY <1>1, <2>1, VersionFacts DEF UnchangedSettings, InstallIInv, FilesSound
  <2> QED  BY <1>1, <1>2, <2>1, <2>3, <2>4, OneStep
<1> QED  BY <1>3, <1>4

\* The user agrees to kill what runs: an update that had displaced a file is gone
\* with it.
LEMMA InstallerKills ==
    ASSUME InstallIInv, faults' \in 0 .. MaxFaults, NEW p \in Procs, NEW agrees \in BOOLEAN,
           CopyLocked(p, agrees)
    PROVE  InstallIInv'
<1> DEFINE s == proc[p]
           retries == agrees /\ ~s.retried
           killed == {q \in Procs \ {p} : windows /\ retries /\ proc[q].kind \in {"update", "check"}}
           r == [s EXCEPT !.at = 1, !.retried = TRUE]
<1>1. /\ s \in ProcRecords /\ ProcSound(s) /\ s.kind = "install" /\ s.pc = "copy" /\ s.new \in Versions
      /\ proc' = [q \in Procs |->
            IF q \in killed \/ (q = p /\ ~retries) THEN IdleProc ELSE IF q = p THEN r ELSE proc[q]]
      /\ hurt' = hurt \cup {Here(q) : q \in {t \in killed : proc[t].pc = "place"}}
      /\ UNCHANGED <<windows, released, file, old, marker, available, due, auto, installs>>
  BY ProcFacts DEF CopyLocked, At, ProcSound
<1>2. r \in ProcRecords /\ ProcSound(r)
  <2>1. r \in ProcRecords /\ r.pc = "copy" /\ r.kind = "install" /\ r.new = s.new
    BY <1>1, StageFacts DEF ProcRecords
  <2> HIDE DEF r
  <2> QED  BY <1>1, <2>1 DEF ProcSound
<1> HIDE DEF r, killed, retries
<1>3. ProcsSound'
  BY <1>1, <1>2, IdleProcSound DEF InstallIInv, ProcsSound, ProcSound
<1>4. WorldTypeOK'
  BY <1>1 DEF InstallIInv, WorldTypeOK
<1>5. hurt \subseteq hurt' /\ \A q \in killed : proc[q].pc = "place" => Here(q) \in hurt'
  BY <1>1
<1>6. FilesSound'
  <2>1. killed \subseteq Procs
    BY DEF killed
  <2>2. hurt' \subseteq Files
    BY <1>1, <2>1, ProcFacts DEF InstallIInv, FilesSound
  <2> QED  BY <1>1, <2>2 DEF InstallIInv, FilesSound
<1>7. MissingOwed'
  <2> SUFFICES ASSUME NEW f \in Files, file[f] \in {Absent, Torn}, f \notin hurt'
               PROVE  \E q \in Procs : Owes(proc'[q]) /\ FileAt[proc'[q].at] = f
    BY <1>1 DEF MissingOwed, Here
  <2>1. PICK q \in Procs : Owes(proc[q]) /\ Here(q) = f
    BY <1>5 DEF InstallIInv, MissingOwed
  <2>2. q # p
    BY <1>1, <2>1 DEF Owes
  <2>3. q \notin killed
    <3> SUFFICES ASSUME q \in killed PROVE FALSE
      OBVIOUS
    <3>1. proc[q].kind # "install"
      BY DEF killed
    <3>2. proc[q].pc = "place"
      BY <2>1, <3>1, ProcFacts DEF Owes, ProcSound
    <3> QED  BY <1>5, <2>1, <3>2
  <2> QED  BY <1>1, <2>1, <2>2, <2>3 DEF Here
<1> QED  BY <1>3, <1>4, <1>6, <1>7 DEF InstallIInv

LEMMA InstallerEnds ==
    ASSUME InstallIInv, faults' \in 0 .. MaxFaults, NEW p \in Procs,
           (\E choice \in BOOLEAN : Onboards(p, choice)) \/ InstallMarks(p)
    PROVE  InstallIInv'
<1> DEFINE s == proc[p]
<1>1. /\ s \in ProcRecords /\ ProcSound(s) /\ s.kind = "install" /\ s.pc \in {"onboard", "mark"}
      /\ s.new \in Versions /\ ~Owes(s) /\ UNCHANGED <<windows, file, old, hurt>>
  BY ProcFacts DEF Onboards, InstallMarks, At, ProcSound, Owes
<1>2. WorldTypeOK'
  BY <1>1 DEF Onboards, InstallMarks, InstallIInv, WorldTypeOK
<1>3. CASE \E choice \in BOOLEAN : Onboards(p, choice)
  <2> DEFINE r == [s EXCEPT !.pc = "copy"]
  <2>1. proc' = [proc EXCEPT ![p] = r]
    BY <1>3 DEF Onboards, Goto, InstallIInv, ProcsSound
  <2>2. r \in ProcRecords /\ r.pc = "copy" /\ r.kind = "install" /\ r.new = s.new
    BY <1>1 DEF ProcRecords, Stages
  <2> HIDE DEF r
  <2>3. ProcSound(r)
    BY <1>1, <2>2 DEF ProcSound
  <2> QED  BY <1>1, <1>2, <2>1, <2>3, QuietStep
<1>4. CASE InstallMarks(p)
  <2>1. proc' = [proc EXCEPT ![p] = IdleProc]
    BY <1>4 DEF InstallMarks, Ends
  <2> QED  BY <1>1, <1>2, <2>1, IdleProcSound, QuietStep
<1> QED  BY <1>3, <1>4

\* A process that dies, or an installer that fails: a file it was replacing is hurt.
LEMMA ProcessDies ==
    ASSUME InstallIInv, faults' \in 0 .. MaxFaults, NEW p \in Procs, ProcDies(p) \/ InstallFails(p)
    PROVE  InstallIInv'
<1>1. /\ Here(p) \in Files /\ ProcSound(proc[p])
      /\ UNCHANGED <<windows, released, file, old, marker, available, due, auto, installs>>
      /\ proc' = [proc EXCEPT ![p] = IdleProc]
  BY ProcFacts DEF ProcDies, InstallFails, UnchangedSettings, Ends
<1>2. hurt' \in {hurt, hurt \cup {Here(p)}} /\ (Owes(proc[p]) => Here(p) \in hurt')
  BY <1>1 DEF ProcDies, InstallFails, Owes, ProcSound
<1>3. WorldTypeOK' /\ FilesSound'
  BY <1>1, <1>2 DEF InstallIInv, WorldTypeOK, FilesSound
<1> QED  BY <1>1, <1>2, <1>3, IdleProcSound, OneStep

----------------------------------------------------------------------------

LEMMA InstallStep ==
    ASSUME InstallIInv, InstallNext
    PROVE  InstallIInv'
<1>1. faults' \in 0 .. MaxFaults
  <2>1. faults' = faults \/ (faults < MaxFaults /\ faults' = faults + 1)
    BY DEF InstallNext, DayGoesBy, LaunchesNow, Succeeds, Falters
  <2> QED  BY <2>1, InstallAssumption DEF InstallIInv, WorldTypeOK
<1>2. CASE DayGoesBy \/ LaunchesNow \/ Publish
  BY <1>1, <1>2, WorldMoves, HooksLaunch DEF DayGoesBy, LaunchesNow
<1>3. ASSUME NEW p \in Procs, UserUpdates(p) \/ \E v \in Versions : UserInstalls(p, v)
      PROVE  InstallIInv'
  BY <1>1, <1>3, UserStarts
<1>4. ASSUME NEW p \in Procs, Succeeds(p) PROVE InstallIInv'
  BY <1>1, <1>4, CheckSteps, UpdateBegins, FilePlaced, FileDisplaced, UpdateEnds, InstallerCopies,
     InstallerEnds DEF Succeeds
<1>5. ASSUME NEW p \in Procs, Falters(p) PROVE InstallIInv'
  BY <1>1, <1>5, CheckSteps, UpdateBegins, FileDisplaced, FilePutBack, InstallerKills, ProcessDies
     DEF Falters
<1> QED  BY <1>2, <1>3, <1>4, <1>5 DEF InstallNext

LEMMA InstallImplied == InstallIInv => InstallInv
<1> SUFFICES ASSUME InstallIInv PROVE InstallInv
  OBVIOUS
<1>1. InstallTypeOK
  BY DEF InstallIInv, WorldTypeOK, FilesSound, ProcsSound, ProcRecords, Kinds, InstallTypeOK
<1>2. NeverWithoutExecutable
  BY DEF InstallIInv, MissingOwed, NeverWithoutExecutable, Owes, Replacing
<1>3. ClearedWhenApplied
  BY DEF InstallIInv, ProcsSound, ProcSound, ClearedWhenApplied, At
<1> QED  BY <1>1, <1>2, <1>3 DEF InstallInv

\* Updates, checks and installers that overlap, fail and die (swap.rs,
\* update_cmd.rs, installer.rs) leave a file missing or torn only while somebody is
\* replacing it or was interrupted doing so, and an update clears the cached version
\* only when it has put every file in place.
THEOREM InstallCorrect == InstallSpec => []InstallInv
<1>1. InstallIInv /\ [InstallNext]_installVars => InstallIInv'
  <2> SUFFICES ASSUME InstallIInv, [InstallNext]_installVars PROVE InstallIInv'
    OBVIOUS
  <2>1. CASE UNCHANGED installVars
    BY <2>1 DEF installVars, InstallIInv, WorldTypeOK, FilesSound, ProcsSound, MissingOwed, Here
  <2> QED  BY <2>1, InstallStep
<1> QED  BY <1>1, InstallInitial, InstallImplied, PTL DEF InstallSpec
=============================================================================
