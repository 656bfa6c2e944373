--------------------------- MODULE PatchLockProofs ---------------------------
(***************************************************************************)
(* Proofs about PatchLock, for any set of processes, scopes, debris and     *)
(* crashes, and whether or not inode numbers are given out again:           *)
(*   - TypeCorrect: every variable has its type, along every behaviour;     *)
(*   - LockSafe: the lock is exclusive and loses no update unless a process *)
(*     dies while it holds the recovery lock;                               *)
(*   - LockImplements: under the same condition it implements MetaStore.    *)
(***************************************************************************)
EXTENDS PatchLock, TLAPS

----------------------------------------------------------------------------
(* The inductive invariants *)

\* Labels inside quarantine_stale_lock, and those after the second look at
\* the directory, from the claim to the rename.
ClaimLabels == {"claim", "claimStat", "claimRead", "claimRename", "claimRestore",
                "validate", "validateClaim", "rename", "unclaim", "unclaimRemove"}

QuarantineLabels == {"snapId", "snapOwner", "recheckId", "recheckOwner"} \cup ClaimLabels

ReleaseLabels == {"release", "releaseRename"}

\* Which call is active at which label.
CallOK ==
    \A p \in Procs :
        /\ pc[p] \in QuarantineLabels => call[p] \in {"active", "recover", "main"}
        /\ pc[p] \in {"read", "write"} => call[p] = "held"
        /\ pc[p] \in ReleaseLabels => call[p] \in {"held", "declined", "main", "error"}
        /\ pc[p] \in Labels \ (QuarantineLabels \cup {"read", "write"} \cup ReleaseLabels)
             => call[p] = "none"

\* p named itself as the owner of the lock and has yet to release it.
Named(p) == pc[p] \in {"getId", "read", "write"} \/ call[p] \in {"held", "declined"}

\* p created the directory of the lock and has yet to remove it.
InLock(p) ==
    pc[p] \in {"checkRecovery", "backOff", "writeOwner"} \/ call[p] = "active" \/ Named(p)

\* The directory of the lock belongs to a process that no longer runs.
DeadLock == Present("lock") /\ dir["lock"].by \notin alive

\* What holds of a running process: in the lock, it owns its directory.
LockAt(p) ==
    /\ InLock(p) => dir["lock"].by = p
    /\ Named(p) => dir["lock"].owner = p
    /\ call[p] \in {"held", "declined"} => inst[p] = dir["lock"].ino

\* What holds of the directory: one made by a running process belongs to a
\* process that is in the lock, and only its maker or a ghost is named in it.
LockDirOK ==
    /\ dir["lock"].by \in alive => InLock(dir["lock"].by) /\ ~dir["lock"].old
    /\ \/ dir["lock"].owner \in {None, dir["lock"].by}
       \/ dir["lock"].by = None /\ dir["lock"].owner \in Ghosts

LockOwned == LockDirOK /\ \A p \in alive : LockAt(p)

\* The same for the recovery lock, which always belongs to a running process.
RecoveryAt(p) ==
    /\ InRecovery(p) => dir["reclaim"].by = p
    /\ (pc[p] = "getRecoveryId" \/ call[p] \in {"main", "error"})
         => dir["reclaim"].owner = p
    /\ call[p] \in {"main", "error"} => inst[p] = dir["reclaim"].ino

RecoveryDirOK ==
    Present("reclaim") =>
        /\ dir["reclaim"].by \in alive
        /\ InRecovery(dir["reclaim"].by)
        /\ ~dir["reclaim"].old
        /\ dir["reclaim"].owner \in {None, dir["reclaim"].by}

RecoveryOwned == RecoveryDirOK /\ \A p \in alive : RecoveryAt(p)

\* Nobody gets past the first snapshot of the recovery lock, and whoever gets
\* past the second snapshot of the lock has a dead one before it.
QuarantineAt(p) ==
    /\ call[p] \in {"active", "recover"} =>
         pc[p] \in {"snapId", "snapOwner"} /\ (pc[p] = "snapOwner" => ~snap[p].old)
    /\ call[p] = "main" =>
         /\ pc[p] \in ClaimLabels => DeadLock
         /\ pc[p] = "recheckOwner" /\ snap[p].old => DeadLock
    /\ pc[p] \notin {"removeLock", "removeRecovery"}

QuarantineSound == \A p \in alive : QuarantineAt(p)

\* The copy read under the lock is the metadata, and what was written stays.
DataAt(p) ==
    /\ p \in alive /\ pc[p] = "write" => copy[p] = meta
    /\ p \in alive /\ call[p] = "held" /\ pc[p] \in ReleaseLabels => p \in meta
    /\ pc[p] = "done" => p \in meta

DataSound == \A p \in Procs : DataAt(p)

ExpiredDead == expired \cap alive = {}

TypeInv == TypeOK /\ CallOK

SafeInv == LockOwned /\ RecoveryOwned /\ QuarantineSound /\ DataSound /\ ExpiredDead

Inv == TypeInv /\ (NoRecovererDied => SafeInv)

----------------------------------------------------------------------------
(* Directories *)

\* A path names nothing or a directory with fields of the right type; writing
\* the owner or the claim of a directory, or its age, leaves it one.
LEMMA DirFields ==
    ASSUME NEW d \in Dirs
    PROVE  /\ d.ino \in Inodes \cup {None}
           /\ d.owner \in Tokens \cup {None}
           /\ d.claim \in Tokens \cup {None}
           /\ d.old \in BOOLEAN
           /\ d.by \in Tokens \cup {None}
<1>1. CASE d = NoDir
  BY <1>1 DEF NoDir
<1>2. CASE d # NoDir
  BY <1>2 DEF Dirs
<1> QED  BY <1>1, <1>2

\* A directory that is there has an identity.
LEMMA DirPresent ==
    /\ NoDir \in Dirs
    /\ \A d \in Dirs : d # NoDir => d.ino \in Inodes
BY DEF Dirs

\* Writing one field of a directory that is there leaves it there.
LEMMA DirExcept ==
    ASSUME NEW d \in Dirs, d # NoDir, NEW t \in Tokens \cup {None}
    PROVE  /\ [d EXCEPT !.owner = t] \in Dirs \ {NoDir}
           /\ [d EXCEPT !.claim = t] \in Dirs \ {NoDir}
           /\ [d EXCEPT !.old = TRUE] \in Dirs \ {NoDir}
BY PatchLockAssumption DEF Dirs, NoDir

\* mkdir makes a directory that is there.
LEMMA DirNew ==
    ASSUME NEW i \in Inodes, NEW p \in Procs
    PROVE  [NoDir EXCEPT !.ino = i, !.by = p] \in Dirs \ {NoDir}
BY PatchLockAssumption DEF Dirs, NoDir, Tokens

----------------------------------------------------------------------------
(* Type correctness *)

\* The operations on a directory keep the type of dir.
LEMMA DirOps ==
    ASSUME TypeInv, NEW x \in Paths, NEW p \in Procs
    PROVE  /\ MakeDir(p, x) => dir' \in [Paths -> Dirs]
           /\ Present(x) => \A t \in Tokens \cup {None} :
                /\ [dir EXCEPT ![x].owner = t] \in [Paths -> Dirs]
                /\ [dir EXCEPT ![x].claim = t] \in [Paths -> Dirs]
           /\ DropClaim(x) => dir' \in [Paths -> Dirs]
           /\ dir[x] \in Dirs
<1> USE DEF TypeInv, TypeOK
<1>1. MakeDir(p, x) => dir' \in [Paths -> Dirs]
  <2> SUFFICES ASSUME MakeDir(p, x) PROVE dir' \in [Paths -> Dirs]
    OBVIOUS
  <2>1. PICK i \in Inodes : dir' = [dir EXCEPT ![x] = [NoDir EXCEPT !.ino = i, !.by = p]]
    BY DEF MakeDir, FreeInodes
  <2> QED  BY <2>1, DirNew
<1>2. ASSUME Present(x), NEW t \in Tokens \cup {None}
      PROVE  /\ [dir EXCEPT ![x].owner = t] \in [Paths -> Dirs]
             /\ [dir EXCEPT ![x].claim = t] \in [Paths -> Dirs]
  <2>1. /\ [dir[x] EXCEPT !.owner = t] \in Dirs
        /\ [dir[x] EXCEPT !.claim = t] \in Dirs
    BY <1>2, DirExcept DEF Present
  <2> QED  BY <2>1
<1>3. DropClaim(x) => dir' \in [Paths -> Dirs]
  <2>1. Present(x) => [dir EXCEPT ![x].claim = None] \in [Paths -> Dirs]
    BY <1>2
  <2> QED  BY <2>1 DEF DropClaim
<1> QED  BY <1>1, <1>2, <1>3

\* The blank snapshot is a snapshot.
LEMMA SnapBlank == NoSnap \in Snaps
BY DEF NoSnap, Snaps

\* Return takes every process that is in quarantine_stale_lock back to a
\* label of its caller, and leaves the other processes alone.
LEMMA ReturnType ==
    ASSUME TypeInv, NEW p \in Procs, pc[p] \in QuarantineLabels,
           NEW r \in {"yes", "no", "error"}, Return(p, r)
    PROVE  /\ pc' \in [Procs -> Labels]
           /\ call' \in [Procs -> Calls]
           /\ snap' \in [Procs -> Snaps]
           /\ seen' \in [Procs -> Tokens \cup {None}]
           /\ CallOK'
<1> USE DEF TypeInv, TypeOK, CallOK, Calls, Goto, Labels, QuarantineLabels, ClaimLabels, ReleaseLabels
<1>1. CASE call[p] = "active"
  BY <1>1, SnapBlank DEF Return, Resume
<1>2. CASE call[p] = "recover"
  BY <1>2, SnapBlank DEF Return, Resume
<1>3. CASE call[p] = "main"
  BY <1>3, SnapBlank DEF Return, Resume
<1> QED  BY <1>1, <1>2, <1>3

\* The same for the return from release_patch_lock.
LEMMA ReleasedType ==
    ASSUME TypeInv, NEW p \in Procs, pc[p] \in ReleaseLabels, Released(p)
    PROVE  /\ pc' \in [Procs -> Labels]
           /\ call' \in [Procs -> Calls]
           /\ inst' \in [Procs -> Inodes \cup {None}]
           /\ CallOK'
BY DEF TypeInv, TypeOK, CallOK, Calls, Goto, Labels, QuarantineLabels, ClaimLabels, ReleaseLabels, Released

\* Every step keeps the types, and keeps every process in a label of the call
\* it is in (CallOK): one case per system call of lock.rs.
LEMMA TypeStep == TypeInv /\ [Next]_vars => TypeInv'
<1> SUFFICES ASSUME TypeInv, [Next]_vars PROVE TypeInv'
  OBVIOUS
<1> USE DEF TypeInv, TypeOK, CallOK, Calls, Goto, At
<1>1. CASE UNCHANGED vars
  BY <1>1 DEF vars
<1>2. ASSUME NEW p \in Procs, Start(p) \/ Step(p) \/ TimeOut(p) \/ Crash(p)
      PROVE  TypeInv'
  <2> USE DEF Labels, QuarantineLabels, ClaimLabels, ReleaseLabels, fsVars, envVars, procVars, dataVars, Paths, Snaps, Tokens
  <2>1. CASE Start(p)
    BY <2>1 DEF Start
  <2>2. CASE TimeOut(p)
    BY <2>2 DEF TimeOut
  <2>3. CASE Crash(p)
    BY <2>3 DEF Crash
  <2>4. CASE CreateLock(p)
    BY <2>4, DirOps DEF CreateLock
  <2>5. CASE LockBusy(p)
    BY <2>5 DEF LockBusy
  <2>6. CASE CheckRecovery(p)
    BY <2>6 DEF CheckRecovery
  <2>7. CASE BackOff(p)
    BY <2>7, DirPresent DEF BackOff, RemoveDir, Vacate
  <2>8. CASE WriteOwner(p)
    <3>1. dir' \in [Paths -> Dirs]
      <4>1. Present("lock") => [dir EXCEPT !["lock"].owner = p] \in [Paths -> Dirs]
        BY DirOps
      <4> QED  BY <2>8, <4>1 DEF WriteOwner, WriteOwnerAt
    <3>2. \E l \in {"getId", "removeLock"} : Goto(p, l)
      BY <2>8 DEF WriteOwner, WriteOwnerAt
    <3> QED  BY <2>8, <3>1, <3>2 DEF WriteOwner
  <2>9. CASE WriteOwnerFailed(p)
    BY <2>9, DirPresent DEF WriteOwnerFailed, RemoveDir, Vacate
  <2>10. CASE GetIdentity(p)
    <3>1. inst' \in [Procs -> Inodes \cup {None}]
      BY <2>10, DirPresent DEF GetIdentity, Present
    <3> QED  BY <2>10, <3>1 DEF GetIdentity
  <2>11. CASE CreateRecovery(p)
    BY <2>11, DirOps DEF CreateRecovery
  <2>12. CASE RecoveryBusy(p)
    BY <2>12 DEF RecoveryBusy
  <2>13. CASE WriteRecoveryOwner(p)
    <3>1. dir' \in [Paths -> Dirs]
      <4>1. Present("reclaim") => [dir EXCEPT !["reclaim"].owner = p] \in [Paths -> Dirs]
        BY DirOps
      <4> QED  BY <2>13, <4>1 DEF WriteRecoveryOwner, WriteOwnerAt
    <3>2. \E l \in {"getRecoveryId", "removeRecovery"} : Goto(p, l)
      BY <2>13 DEF WriteRecoveryOwner, WriteOwnerAt
    <3> QED  BY <2>13, <3>1, <3>2 DEF WriteRecoveryOwner
  <2>14. CASE RecoveryOwnerFailed(p)
    BY <2>14, DirPresent DEF RecoveryOwnerFailed, RemoveDir, Vacate
  <2>15. CASE GetRecoveryIdentity(p)
    <3>1. inst' \in [Procs -> Inodes \cup {None}]
      BY <2>15, DirPresent DEF GetRecoveryIdentity, Present
    <3> QED  BY <2>15, <3>1 DEF GetRecoveryIdentity
  <2>16. CASE SnapIdentity(p)
    <3>1. CASE Return(p, "no")
      BY <2>16, <3>1, ReturnType DEF SnapIdentity
    <3>2. CASE ~Return(p, "no")
      <4> DEFINE d == dir[Target(p)]
      <4>1. d \in Dirs /\ d # NoDir
        BY <2>16, <3>2 DEF SnapIdentity, Target
      <4>2. [ino |-> d.ino, owner |-> None, old |-> d.old] \in Snaps
        BY <4>1, DirFields
      <4>3. snap' \in [Procs -> Snaps]
        BY <2>16, <3>2, <4>2 DEF SnapIdentity
      <4> QED  BY <2>16, <3>2, <4>3 DEF SnapIdentity
    <3> QED  BY <3>1, <3>2
  <2>17. CASE SnapOwner(p)
    <3>1. CASE Return(p, "no")
      BY <2>17, <3>1, ReturnType DEF SnapOwner
    <3>2. CASE ~Return(p, "no")
      <4>1. dir[Target(p)].owner \in Tokens \cup {None}
        BY DirFields DEF Target
      <4>2. snap' \in [Procs -> Snaps]
        BY <2>17, <3>2, <4>1 DEF SnapOwner
      <4> QED  BY <2>17, <3>2, <4>2 DEF SnapOwner
    <3> QED  BY <3>1, <3>2
  <2>18. CASE RecheckIdentity(p)
    <3>1. CASE Return(p, "no")
      BY <2>18, <3>1, ReturnType DEF RecheckIdentity
    <3>2. CASE ~Return(p, "no")
      <4>1. dir[Target(p)].old \in BOOLEAN
        BY DirFields DEF Target
      <4>2. snap' \in [Procs -> Snaps]
        BY <2>18, <3>2, <4>1 DEF RecheckIdentity
      <4>3. pc[p] = "recheckId" /\ Goto(p, "recheckOwner")
        BY <2>18, <3>2 DEF RecheckIdentity
      <4>4. UNCHANGED <<fsVars, envVars, dataVars, inst, call, seen>>
        BY <2>18, <3>2 DEF RecheckIdentity
      <4> QED  BY <4>2, <4>3, <4>4
    <3> QED  BY <3>1, <3>2
  <2>19. CASE RecheckOwner(p)
    BY <2>19, ReturnType DEF RecheckOwner
  <2>20. CASE Claim(p)
    <3>1. dir' \in [Paths -> Dirs]
      <4>1. Present(Target(p)) => [dir EXCEPT ![Target(p)].claim = p] \in [Paths -> Dirs]
        BY DirOps DEF Target
      <4> QED  BY <2>20, <4>1 DEF Claim
    <3>2. CASE Return(p, "no")
      BY <2>20, <3>1, <3>2, ReturnType DEF Claim
    <3>3. CASE ~Return(p, "no")
      BY <2>20, <3>1, <3>3 DEF Claim
    <3> QED  BY <3>2, <3>3
  <2>21. CASE ClaimStat(p)
    BY <2>21 DEF ClaimStat
  <2>22. CASE ClaimRead(p)
    <3>1. dir[Target(p)].claim \in Tokens \cup {None}
      BY DirFields DEF Target
    <3>2. CASE \E r \in {"no", "error"} : Return(p, r)
      BY <2>22, <3>2, ReturnType DEF ClaimRead
    <3>3. CASE ~ \E r \in {"no", "error"} : Return(p, r)
      <4>1. /\ seen' = [seen EXCEPT ![p] = dir[Target(p)].claim]
            /\ Goto(p, "claimRename")
            /\ UNCHANGED <<call, snap>>
        BY <2>22, <3>3 DEF ClaimRead
      <4>2. seen' \in [Procs -> Tokens \cup {None}]
        BY <3>1, <4>1
      <4> QED  BY <2>22, <4>1, <4>2 DEF ClaimRead
    <3> QED  BY <3>2, <3>3
  <2>23. CASE ClaimRename(p)
    <3>1. dir[Target(p)].claim \in Tokens \cup {None}
      BY DirFields DEF Target
    <3>2. seen' \in [Procs -> Tokens \cup {None}]
      BY <2>23, <3>1 DEF ClaimRename
    <3>3. dir' \in [Paths -> Dirs]
      BY <2>23, DirOps DEF ClaimRename, Target
    <3>4. \E l \in {"claim", "claimRestore"} : Goto(p, l)
      BY <2>23 DEF ClaimRename
    <3>5. pc[p] = "claimRename" /\ UNCHANGED <<leaked, envVars, dataVars, call, snap, inst>>
      BY <2>23 DEF ClaimRename
    <3> QED  BY <3>2, <3>3, <3>4, <3>5
  <2>24. CASE ClaimRestore(p)
    <3>1. dir' \in [Paths -> Dirs]
      <4> DEFINE x == Target(p)
                 c == IF dir[x].claim = None THEN seen[p] ELSE dir[x].claim
      <4>1. c \in Tokens \cup {None}
        BY DirFields DEF Target
      <4>2. Present(x) => [dir EXCEPT ![x].claim = c] \in [Paths -> Dirs]
        BY <4>1, DirOps DEF Target
      <4> QED  BY <2>24, <4>2 DEF ClaimRestore
    <3>2. PICK r \in {"no", "error"} : Return(p, r)
      BY <2>24 DEF ClaimRestore
    <3> QED  BY <2>24, <3>1, <3>2, ReturnType DEF ClaimRestore
  <2>25. CASE Validate(p)
    BY <2>25 DEF Validate
  <2>26. CASE ValidateClaim(p)
    BY <2>26 DEF ValidateClaim
  <2>27. CASE Rename(p)
    BY <2>27, DirPresent, ReturnType DEF Rename, Target, Vacate, Present
  <2>28. CASE Unclaim(p)
    BY <2>28, ReturnType DEF Unclaim
  <2>29. CASE UnclaimRemove(p)
    BY <2>29, DirOps, ReturnType DEF UnclaimRemove, Target
  <2>30. CASE ReadMeta(p)
    BY <2>30 DEF ReadMeta
  <2>31. CASE WriteMeta(p)
    BY <2>31 DEF WriteMeta
  <2>32. CASE Decline(p)
    BY <2>32 DEF Decline
  <2>33. CASE CheckRelease(p)
    BY <2>33, ReleasedType DEF CheckRelease
  <2>34. CASE Release(p)
    BY <2>34, DirPresent, ReleasedType DEF Release, ReleasePath, Vacate, Present
  <2> QED  BY <1>2, <2>1, <2>2, <2>3, <2>4, <2>5, <2>6, <2>7, <2>8, <2>9, <2>10, <2>11, <2>12, <2>13, <2>14, <2>15, <2>16, <2>17, <2>18, <2>19, <2>20, <2>21, <2>22, <2>23, <2>24, <2>25, <2>26, <2>27, <2>28, <2>29, <2>30, <2>31, <2>32, <2>33, <2>34 DEF Step, Acquire, Quarantine, Patch
<1>3. ASSUME NEW x \in Paths, AgeDir(x) PROVE TypeInv'
  BY <1>3, DirExcept DEF AgeDir, Present, envVars, procVars, dataVars
<1>4. ASSUME NEW t \in Tokens, Expire(t) PROVE TypeInv'
  BY <1>4 DEF Expire, fsVars, procVars, dataVars
<1> QED  BY <1>1, <1>2, <1>3, <1>4 DEF Next

\* The debris of earlier crashes is well typed.
LEMMA TypeInit == Init => TypeInv
<1> SUFFICES ASSUME Init PROVE TypeInv
  OBVIOUS
<1>1. dir \in [Paths -> Dirs]
  <2>1. \A i \in Inodes : Debris(i) \subseteq Dirs
    BY DEF Debris, Dirs, Tokens
  <2> QED  BY <2>1 DEF Init
<1> QED
  BY <1>1, SnapBlank DEF Init, TypeInv, TypeOK, CallOK, Calls, Labels, QuarantineLabels,
     ClaimLabels, ReleaseLabels, Tokens

\* Whatever debris is on disk and whoever dies, every path names nothing or a
\* directory with an identity, an owner and a claim: no system call of lock.rs
\* writes into a directory that is gone.
THEOREM TypeCorrect == Spec => []TypeOK
<1>1. Spec => []TypeInv
  BY TypeInit, TypeStep, PTL DEF Spec
<1>2. TypeInv => TypeOK
  BY DEF TypeInv
<1> QED  BY <1>1, <1>2, PTL
----------------------------------------------------------------------------
(* What the operations do to the directories *)

\* The fields the safety argument is about: everything but the claim.
Same(x) ==
    /\ Present(x)' = Present(x)
    /\ dir'[x].ino = dir[x].ino
    /\ dir'[x].owner = dir[x].owner
    /\ dir'[x].old = dir[x].old
    /\ dir'[x].by = dir[x].by

\* mkdir makes a fresh directory without an owner and leaves the other path alone.
LEMMA MakeDirFacts ==
    ASSUME TypeInv, NEW x \in Paths, NEW p \in Procs, MakeDir(p, x)
    PROVE  /\ Present(x)' /\ dir'[x].by = p /\ dir'[x].owner = None /\ ~dir'[x].old
           /\ \A y \in Paths \ {x} : dir'[y] = dir[y]
<1>1. PICK i \in Inodes : dir' = [dir EXCEPT ![x] = [NoDir EXCEPT !.ino = i, !.by = p]]
  BY DEF MakeDir, FreeInodes
<1>2. /\ [NoDir EXCEPT !.ino = i, !.by = p] # NoDir
      /\ [NoDir EXCEPT !.ino = i, !.by = p].by = p
      /\ [NoDir EXCEPT !.ino = i, !.by = p].owner = None
      /\ ~[NoDir EXCEPT !.ino = i, !.by = p].old
  BY DirNew DEF NoDir
<1>3. dir \in [Paths -> Dirs]
  BY DEF TypeInv, TypeOK
<1> QED  BY <1>1, <1>2, <1>3 DEF Present

\* Writing the owner file changes the owner of one directory and nothing else.
LEMMA OwnerFacts ==
    ASSUME TypeInv, NEW x \in Paths, NEW p \in Procs, Present(x),
           dir' = [dir EXCEPT ![x].owner = p]
    PROVE  /\ Present(x)' /\ dir'[x].ino = dir[x].ino /\ dir'[x].owner = p
           /\ dir'[x].old = dir[x].old /\ dir'[x].by = dir[x].by
           /\ \A y \in Paths \ {x} : dir'[y] = dir[y]
<1>1. dir \in [Paths -> Dirs]
  BY DEF TypeInv, TypeOK
<1>2. dir[x] \in Dirs /\ dir[x] # NoDir
  BY <1>1 DEF Present
<1>3. [dir[x] EXCEPT !.owner = p] # NoDir
  BY <1>2, DirExcept DEF Tokens
<1>4. /\ [dir[x] EXCEPT !.owner = p].ino = dir[x].ino
      /\ [dir[x] EXCEPT !.owner = p].owner = p
      /\ [dir[x] EXCEPT !.owner = p].old = dir[x].old
      /\ [dir[x] EXCEPT !.owner = p].by = dir[x].by
  BY <1>2 DEF Dirs
<1> QED  BY <1>1, <1>3, <1>4 DEF Present

\* Writing the claim file of a directory changes nothing else.
LEMMA ClaimFacts ==
    ASSUME TypeInv, NEW x \in Paths, NEW t \in Tokens \cup {None}, Present(x),
           dir' = [dir EXCEPT ![x].claim = t]
    PROVE  \A y \in Paths : Same(y)
<1>1. dir \in [Paths -> Dirs]
  BY DEF TypeInv, TypeOK
<1>2. dir[x] \in Dirs /\ dir[x] # NoDir
  BY <1>1 DEF Present
<1>3. [dir[x] EXCEPT !.claim = t] # NoDir
  BY <1>2, DirExcept
<1>4. /\ [dir[x] EXCEPT !.claim = t].ino = dir[x].ino
      /\ [dir[x] EXCEPT !.claim = t].owner = dir[x].owner
      /\ [dir[x] EXCEPT !.claim = t].old = dir[x].old
      /\ [dir[x] EXCEPT !.claim = t].by = dir[x].by
  BY <1>2 DEF Dirs
<1> QED  BY <1>1, <1>2, <1>3, <1>4 DEF Present, Same

\* Nor does dropping it.
LEMMA DropFacts ==
    ASSUME TypeInv, NEW x \in Paths, DropClaim(x)
    PROVE  \A y \in Paths : Same(y)
<1>1. CASE Present(x)
  BY <1>1, ClaimFacts DEF DropClaim
<1>2. CASE ~Present(x)
  BY <1>2 DEF DropClaim, Same, Present
<1> QED  BY <1>1, <1>2

\* Ageing makes one directory old and changes nothing else.
LEMMA AgeFacts ==
    ASSUME TypeInv, NEW x \in Paths, AgeDir(x)
    PROVE  /\ Present(x)' /\ dir'[x].ino = dir[x].ino
           /\ dir'[x].owner = dir[x].owner /\ dir'[x].by = dir[x].by
           /\ \A y \in Paths \ {x} : dir'[y] = dir[y]
<1>1. dir \in [Paths -> Dirs]
  BY DEF TypeInv, TypeOK
<1>2. dir[x] \in Dirs /\ dir[x] # NoDir
  BY <1>1 DEF AgeDir, Present
<1>3. [dir[x] EXCEPT !.old = TRUE] # NoDir
  BY <1>2, DirExcept
<1>4. /\ [dir[x] EXCEPT !.old = TRUE].ino = dir[x].ino
      /\ [dir[x] EXCEPT !.old = TRUE].owner = dir[x].owner
      /\ [dir[x] EXCEPT !.old = TRUE].by = dir[x].by
  BY <1>2 DEF Dirs
<1> QED  BY <1>1, <1>3, <1>4 DEF AgeDir, Present

\* A path that names nothing names no owner and no creator.
LEMMA NoDirFacts ==
    /\ NoDir.ino = None /\ NoDir.owner = None /\ NoDir.by = None
    /\ NoDir.old = FALSE
BY DEF NoDir
----------------------------------------------------------------------------
(* Steps of one process *)

\* A step of p leaves the local state of every other process alone, and the
\* dead stay dead.
Others(p) ==
    /\ p \in alive
    /\ alive' \subseteq alive
    /\ \A q \in Procs \ {p} :
         /\ pc'[q] = pc[q] /\ call'[q] = call[q] /\ snap'[q] = snap[q]
         /\ inst'[q] = inst[q] /\ copy'[q] = copy[q]

\* A step of p, be it of acquire_patch_lock, quarantine_stale_lock or
\* patch_queued, leaves the variables of the other processes alone.
LEMMA Frame ==
    ASSUME TypeInv, NEW p \in Procs, Start(p) \/ Step(p) \/ TimeOut(p) \/ Crash(p)
    PROVE  Others(p)
<1> USE DEF Others, TypeInv, TypeOK, Goto, At, fsVars, envVars, procVars, dataVars
<1>1. CASE Start(p) \/ TimeOut(p) \/ Crash(p)
  BY <1>1 DEF Start, TimeOut, Crash
<1>2. CASE Acquire(p)
  BY <1>2 DEF Acquire, CreateLock, LockBusy, CheckRecovery, BackOff, WriteOwner,
       WriteOwnerFailed, GetIdentity, CreateRecovery, RecoveryBusy, WriteRecoveryOwner,
       RecoveryOwnerFailed, GetRecoveryIdentity, WriteOwnerAt
<1>3. CASE Quarantine(p)
  <2>1. CASE SnapIdentity(p) \/ SnapOwner(p) \/ RecheckIdentity(p) \/ RecheckOwner(p)
    BY <2>1 DEF SnapIdentity, SnapOwner, RecheckIdentity, RecheckOwner, Return, Resume
  <2>2. CASE Claim(p) \/ ClaimStat(p) \/ ClaimRead(p) \/ ClaimRename(p) \/ ClaimRestore(p)
    <3>1. CASE Claim(p) \/ ClaimRead(p)
      BY <3>1 DEF Claim, ClaimRead, Return, Resume
    <3>2. CASE ClaimStat(p) \/ ClaimRename(p) \/ ClaimRestore(p)
      BY <3>2 DEF ClaimStat, ClaimRename, ClaimRestore, Return, Resume
    <3> QED  BY <2>2, <3>1, <3>2
  <2>3. CASE Validate(p) \/ ValidateClaim(p) \/ Rename(p) \/ Unclaim(p) \/ UnclaimRemove(p)
    BY <2>3 DEF Validate, ValidateClaim, Rename, Unclaim, UnclaimRemove, Return, Resume
  <2> QED  BY <1>3, <2>1, <2>2, <2>3 DEF Quarantine
<1>4. CASE Patch(p)
  BY <1>4 DEF Patch, ReadMeta, WriteMeta, Decline, CheckRelease, Release, Released
<1> QED  BY <1>1, <1>2, <1>3, <1>4 DEF Step

\* Once a recovering process died, it stays that way.
LEMMA RecovererDead ==
    TypeInv /\ [Next]_vars /\ NoRecovererDied' => NoRecovererDied
<1> SUFFICES ASSUME TypeInv, [Next]_vars, NoRecovererDied' PROVE NoRecovererDied
  OBVIOUS
<1> USE DEF NoRecovererDied, InRecovery
<1>1. CASE UNCHANGED vars
  BY <1>1 DEF vars
<1>2. ASSUME NEW p \in Procs, Start(p) \/ Step(p) \/ TimeOut(p) \/ Crash(p)
      PROVE  NoRecovererDied
  BY <1>2, Frame DEF Others
<1>3. ASSUME NEW x \in Paths, AgeDir(x) PROVE NoRecovererDied
  BY <1>3 DEF AgeDir, envVars, procVars
<1>4. ASSUME NEW t \in Tokens, Expire(t) PROVE NoRecovererDied
  BY <1>4 DEF Expire, procVars
<1> QED  BY <1>1, <1>2, <1>3, <1>4 DEF Next

----------------------------------------------------------------------------
(* Conjuncts of the invariant that a step of p does not disturb *)

\* The lock: same directory, and p is in the lock as before.
LEMMA LockKept ==
    ASSUME NEW p \in Procs, Others(p), alive \subseteq Procs, LockOwned, alive' = alive,
           Same("lock"), InLock(p)' = InLock(p), LockAt(p)'
    PROVE  LockOwned'
<1>1. ASSUME NEW q \in alive PROVE LockAt(q)' /\ InLock(q)' = InLock(q)
  <2>1. CASE q = p
    BY <2>1
  <2>2. CASE q # p
    BY <2>2 DEF Others, LockOwned, LockAt, InLock, Named, Same
  <2> QED  BY <2>1, <2>2
<1>2. LockDirOK'
  BY <1>1 DEF LockOwned, LockDirOK, Same
<1> QED  BY <1>1, <1>2 DEF LockOwned

\* The recovery lock: same directory, and p recovers as before.
LEMMA RecoveryKept ==
    ASSUME NEW p \in Procs, Others(p), alive \subseteq Procs, RecoveryOwned, alive' = alive,
           Same("reclaim"), InRecovery(p)' = InRecovery(p), RecoveryAt(p)'
    PROVE  RecoveryOwned'
<1>1. ASSUME NEW q \in alive PROVE RecoveryAt(q)' /\ InRecovery(q)' = InRecovery(q)
  <2>1. CASE q = p
    BY <2>1
  <2>2. CASE q # p
    BY <2>2 DEF Others, RecoveryOwned, RecoveryAt, InRecovery, Same
  <2> QED  BY <2>1, <2>2
<1>2. RecoveryDirOK'
  BY <1>1 DEF RecoveryOwned, RecoveryDirOK, Same
<1> QED  BY <1>1, <1>2 DEF RecoveryOwned

\* Quarantine: a dead lock stays, for the other processes.
LEMMA QuarantineKept ==
    ASSUME NEW p \in Procs, Others(p), alive \subseteq Procs, QuarantineSound, alive' = alive,
           DeadLock => DeadLock', QuarantineAt(p)'
    PROVE  QuarantineSound'
<1>1. ASSUME NEW q \in alive PROVE QuarantineAt(q)'
  <2>1. CASE q = p
    BY <2>1
  <2>2. CASE q # p
    BY <2>2 DEF Others, QuarantineSound, QuarantineAt
  <2> QED  BY <2>1, <2>2
<1> QED  BY <1>1 DEF QuarantineSound

\* The data: the metadata does not change.
LEMMA DataKept ==
    ASSUME NEW p \in Procs, Others(p), DataSound, meta' = meta, DataAt(p)'
    PROVE  DataSound'
<1>1. ASSUME NEW q \in Procs PROVE DataAt(q)'
  <2>1. CASE q = p
    BY <2>1
  <2>2. CASE q # p
    BY <2>2 DEF Others, DataSound, DataAt
  <2> QED  BY <2>1, <2>2
<1> QED  BY <1>1 DEF DataSound

\* A step that leaves directories and data alone, and keeps p in whatever
\* lock it is in, preserves the invariant.
Quiet(p) ==
    /\ alive' = alive /\ expired' = expired /\ meta' = meta
    /\ Same("lock") /\ Same("reclaim")
    /\ InLock(p)' = InLock(p) /\ InRecovery(p)' = InRecovery(p)

\* Such a step preserves the invariant if it preserves the parts about p.
LEMMA QuietStep ==
    ASSUME NEW p \in Procs, Others(p), alive \subseteq Procs, SafeInv, Quiet(p),
           LockAt(p)', RecoveryAt(p)', QuarantineAt(p)', DataAt(p)'
    PROVE  SafeInv'
<1>1. LockOwned'
  BY LockKept DEF SafeInv, Quiet
<1>2. RecoveryOwned'
  BY RecoveryKept DEF SafeInv, Quiet
<1>3. QuarantineSound'
  BY QuarantineKept DEF SafeInv, Quiet, DeadLock, Same
<1>4. DataSound'
  BY DataKept DEF SafeInv, Quiet
<1>5. ExpiredDead'
  BY DEF SafeInv, ExpiredDead, Quiet
<1> QED  BY <1>1, <1>2, <1>3, <1>4, <1>5 DEF SafeInv

----------------------------------------------------------------------------
(* Steps that leave the directories and the metadata alone *)

\* A running owner is never stale, whatever the scope of the reader.
LEMMA AliveFresh ==
    ASSUME ExpiredDead, NEW p, NEW o, NEW old, OwnerStale(p, o, old), o # None
    PROVE  o \notin alive
BY DEF OwnerStale, ExpiredDead

\* What a step of p starts from: the types, and the invariant at p.
Here(p) ==
    /\ pc \in [Procs -> Labels] /\ call \in [Procs -> Calls]
    /\ inst \in [Procs -> Inodes \cup {None}] /\ snap \in [Procs -> Snaps]
    /\ copy \in [Procs -> SUBSET Procs] /\ dir \in [Paths -> Dirs]
    /\ alive \subseteq Procs
    /\ p \in alive /\ LockAt(p) /\ RecoveryAt(p) /\ QuarantineAt(p) /\ DataAt(p)
    /\ CallOK

\* They hold of every running process.
LEMMA HereHolds ==
    ASSUME TypeInv, SafeInv, NEW p \in alive
    PROVE  Here(p)
BY DEF Here, TypeInv, TypeOK, SafeInv, LockOwned, RecoveryOwned, QuarantineSound, DataSound

\* p goes from label l in call k to label m in call c, touching nothing else.
Moves(p, l, k, m, c) ==
    /\ pc[p] = l /\ call[p] = k /\ pc'[p] = m /\ call'[p] = c
    /\ inst'[p] = inst[p] /\ alive' = alive /\ expired' = expired /\ meta' = meta
    /\ Same("lock") /\ Same("reclaim")

\* The return from quarantine_stale_lock, as a move.
LEMMA ReturnMoves ==
    ASSUME NEW p \in Procs, Here(p), NEW r \in {"no", "error"}, Return(p, r)
    PROVE  /\ call[p] = "main" =>
                pc'[p] = "release" /\ call'[p] \in {"main", "error"}
           /\ call[p] = "active" /\ r = "no" => pc'[p] = "backOff" /\ call'[p] = "none"
           /\ call[p] = "recover" /\ r = "no" => pc'[p] = "createLock" /\ call'[p] = "none"
BY DEF Here, Return, Resume, Goto

\* Moves outside the locks.
LEMMA MoveOutside ==
    ASSUME NEW p \in Procs, Others(p), SafeInv, Here(p),
           NEW l \in {"idle", "createLock", "createRecovery"},
           NEW m \in {"createLock", "createRecovery", "failed"},
           Moves(p, l, "none", m, "none")
    PROVE  SafeInv'
<1> USE DEF Moves, InLock, Named, InRecovery
<1>1. Quiet(p)
  BY DEF Quiet
<1>2. LockAt(p)' /\ RecoveryAt(p)' /\ QuarantineAt(p)' /\ DataAt(p)'
  BY DEF LockAt, RecoveryAt, QuarantineAt, ClaimLabels, DataAt, ReleaseLabels
<1> QED  BY <1>1, <1>2, QuietStep DEF Here

\* Moves inside quarantine_stale_lock on the recovery lock.
LEMMA MoveActive ==
    ASSUME NEW p \in Procs, Others(p), SafeInv, Here(p),
           NEW l, NEW k, NEW m, NEW c, Moves(p, l, k, m, c),
           \/ /\ <<l, k>> \in {<<"checkRecovery", "none">>, <<"snapId", "active">>,
                              <<"snapOwner", "active">>}
              /\ <<m, c>> \in {<<"writeOwner", "none">>, <<"backOff", "none">>,
                              <<"snapId", "active">>, <<"snapOwner", "active">>}
           \/ /\ <<l, k>> \in {<<"createRecovery", "none">>, <<"snapId", "recover">>,
                              <<"snapOwner", "recover">>}
              /\ <<m, c>> \in {<<"createLock", "none">>, <<"snapId", "recover">>,
                              <<"snapOwner", "recover">>},
           m = "snapOwner" => ~snap'[p].old
    PROVE  SafeInv'
<1> USE DEF Moves, InLock, Named, InRecovery
<1>1. Quiet(p)
  BY DEF Quiet
<1>2. LockAt(p)' /\ RecoveryAt(p)' /\ QuarantineAt(p)' /\ DataAt(p)'
  BY DEF Here, LockAt, RecoveryAt, QuarantineAt, ClaimLabels, DataAt, ReleaseLabels, Same
<1> QED  BY <1>1, <1>2, QuietStep DEF Here

\* Moves inside quarantine_stale_lock on the lock, and back out of it.
LEMMA MoveMain ==
    ASSUME NEW p \in Procs, Others(p), SafeInv, Here(p), NEW l \in QuarantineLabels,
           NEW m \in QuarantineLabels \cup {"release"}, NEW c \in {"main", "error"},
           Moves(p, l, "main", m, c), m # "release" => c = "main",
           m \in ClaimLabels => DeadLock',
           m = "recheckOwner" /\ snap'[p].old => DeadLock'
    PROVE  SafeInv'
<1> USE DEF Moves, InLock, Named, InRecovery, QuarantineLabels, ClaimLabels
<1>1. Quiet(p)
  BY DEF Quiet
<1>2. LockAt(p)' /\ RecoveryAt(p)'
  BY DEF Here, LockAt, RecoveryAt, Same
<1>3. QuarantineAt(p)' /\ DataAt(p)'
  BY DEF QuarantineAt, DataAt, ReleaseLabels
<1> QED  BY <1>1, <1>2, <1>3, QuietStep DEF Here

----------------------------------------------------------------------------
(* One step of quarantine_stale_lock *)

\* The labels of quarantine_stale_lock before the claim.
LEMMA SnapshotSteps ==
    ASSUME TypeInv, SafeInv, NEW p \in Procs, Others(p), Here(p),
           SnapIdentity(p) \/ SnapOwner(p) \/ RecheckIdentity(p) \/ RecheckOwner(p)
    PROVE  SafeInv'
<1> DEFINE Still == /\ UNCHANGED <<fsVars, envVars, dataVars, inst>>
                    /\ Same("lock") /\ Same("reclaim")
<1>s. Still
  BY DEF SnapIdentity, SnapOwner, RecheckIdentity, RecheckOwner, Same, Present, fsVars
<1>r. /\ dir["reclaim"] \in Dirs
      /\ ~dir["reclaim"].old
      /\ dir["reclaim"].owner # None => dir["reclaim"].owner \in alive
  BY NoDirFacts DEF Here, Paths, SafeInv, RecoveryOwned, RecoveryDirOK, Present
<1>l. /\ dir["lock"].old => DeadLock
      /\ dir["lock"].owner # None /\ dir["lock"].owner \notin alive => DeadLock
  BY NoDirFacts, PatchLockAssumption
     DEF Here, Paths, SafeInv, LockOwned, LockDirOK, Present, DeadLock, Tokens
<1>d. DeadLock' = DeadLock
  BY <1>s DEF DeadLock, Same, envVars
<1>k. /\ pc[p] \in QuarantineLabels => call[p] \in {"active", "recover", "main"}
      /\ pc[p] \in {"recheckId", "recheckOwner"} => call[p] = "main"
  BY DEF Here, CallOK, QuarantineAt, QuarantineLabels
<1>1. CASE SnapIdentity(p)
  <2>1. pc[p] = "snapId"
    BY <1>1 DEF SnapIdentity, At
  <2>2. CASE dir[Target(p)] = NoDir
    <3>1. Return(p, "no")
      BY <1>1, <2>2 DEF SnapIdentity
    <3>2. CASE call[p] = "main"
      BY <1>s, <2>1, <3>1, <3>2, ReturnMoves, MoveMain
         DEF Moves, QuarantineLabels, ClaimLabels, envVars, dataVars
    <3>3. CASE call[p] # "main"
      BY <1>s, <1>k, <2>1, <3>1, <3>3, ReturnMoves, MoveActive
         DEF Moves, QuarantineLabels, ClaimLabels, envVars, dataVars
    <3> QED  BY <3>2, <3>3
  <2>3. CASE dir[Target(p)] # NoDir
    <3>1. /\ pc'[p] = "snapOwner" /\ call'[p] = call[p]
          /\ snap'[p].old = dir[Target(p)].old
      BY <1>1, <2>3 DEF SnapIdentity, Goto, Here
    <3>2. CASE call[p] = "main"
      BY <1>s, <2>1, <3>1, <3>2, MoveMain
         DEF Moves, QuarantineLabels, ClaimLabels, envVars, dataVars
    <3>3. CASE call[p] # "main"
      BY <1>s, <1>r, <1>k, <2>1, <3>1, <3>3, MoveActive
         DEF Moves, QuarantineLabels, ClaimLabels, envVars, dataVars, Target
    <3> QED  BY <3>2, <3>3
  <2> QED  BY <2>2, <2>3
<1>2. CASE SnapOwner(p)
  <2>1. pc[p] = "snapOwner"
    BY <1>2 DEF SnapOwner, At
  <2>2. CASE call[p] = "main"
    <3>1. CASE OwnerStale(p, dir[Target(p)].owner, snap[p].old)
      <4>1. pc'[p] = "recheckId" /\ call'[p] = "main"
        BY <1>2, <2>2, <3>1 DEF SnapOwner, Goto, Here
      <4> QED  BY <1>s, <2>1, <2>2, <4>1, MoveMain
                  DEF Moves, QuarantineLabels, ClaimLabels, envVars, dataVars
    <3>2. CASE ~OwnerStale(p, dir[Target(p)].owner, snap[p].old)
      <4>1. Return(p, "no")
        BY <1>2, <3>2 DEF SnapOwner
      <4> QED  BY <1>s, <2>1, <2>2, <4>1, ReturnMoves, MoveMain
                  DEF Moves, QuarantineLabels, ClaimLabels, envVars, dataVars
    <3> QED  BY <3>1, <3>2
  <2>3. CASE call[p] # "main"
    <3>1. ~OwnerStale(p, dir["reclaim"].owner, snap[p].old)
      <4>1. ~snap[p].old
        BY <1>k, <2>1, <2>3 DEF Here, QuarantineAt, QuarantineLabels
      <4>2. CASE dir["reclaim"].owner = None
        BY <4>1, <4>2 DEF OwnerStale
      <4>3. CASE dir["reclaim"].owner # None
        BY <1>r, <4>3, AliveFresh DEF SafeInv
      <4> QED  BY <4>2, <4>3
    <3>2. Return(p, "no")
      BY <1>2, <1>k, <2>1, <2>3, <3>1 DEF SnapOwner, Target, QuarantineLabels
    <3> QED  BY <1>s, <1>k, <2>1, <2>3, <3>2, ReturnMoves, MoveActive
                DEF Moves, QuarantineLabels, ClaimLabels, envVars, dataVars
  <2> QED  BY <2>2, <2>3
<1>3. CASE RecheckIdentity(p)
  <2>1. pc[p] = "recheckId" /\ call[p] = "main" /\ Target(p) = "lock"
    BY <1>3, <1>k DEF RecheckIdentity, At, Target
  <2>2. CASE Return(p, "no")
    BY <1>s, <2>1, <2>2, ReturnMoves, MoveMain
       DEF Moves, QuarantineLabels, ClaimLabels, envVars, dataVars
  <2>3. CASE ~Return(p, "no")
    <3>1. pc'[p] = "recheckOwner" /\ call'[p] = "main"
      BY <1>3, <2>1, <2>3 DEF RecheckIdentity, Goto, Here
    <3>2. snap'[p].old = dir["lock"].old
      BY <1>3, <2>1, <2>3 DEF RecheckIdentity, Here, Snaps
    <3> QED  BY <1>s, <1>l, <1>d, <2>1, <3>1, <3>2, MoveMain
                DEF Moves, QuarantineLabels, ClaimLabels, envVars, dataVars
  <2> QED  BY <2>2, <2>3
<1>4. CASE RecheckOwner(p)
  <2>1. pc[p] = "recheckOwner" /\ call[p] = "main" /\ Target(p) = "lock"
    BY <1>4, <1>k DEF RecheckOwner, At, Target
  <2>2. CASE Return(p, "no")
    BY <1>s, <2>1, <2>2, ReturnMoves, MoveMain
       DEF Moves, QuarantineLabels, ClaimLabels, envVars, dataVars
  <2>3. CASE ~Return(p, "no")
    <3>1. /\ pc'[p] = "claim" /\ call'[p] = "main"
          /\ OwnerStale(p, dir["lock"].owner, snap[p].old)
      BY <1>4, <2>1, <2>3 DEF RecheckOwner, Goto, Here
    <3>2. DeadLock
      <4>1. CASE dir["lock"].owner = None
        BY <2>1, <3>1, <4>1 DEF OwnerStale, Here, QuarantineAt
      <4>2. CASE dir["lock"].owner # None
        BY <1>l, <3>1, <4>2, AliveFresh DEF SafeInv
      <4> QED  BY <4>1, <4>2
    <3> QED  BY <1>s, <1>d, <2>1, <3>1, <3>2, MoveMain
                DEF Moves, QuarantineLabels, ClaimLabels, envVars, dataVars
  <2> QED  BY <2>2, <2>3
<1> QED  BY <1>1, <1>2, <1>3, <1>4

\* The labels from the claim on, except the rename: the lock before p is dead
\* and stays so, whatever happens to the claim file.
LEMMA ClaimSteps ==
    ASSUME TypeInv, SafeInv, NEW p \in Procs, Others(p), Here(p),
           \/ Claim(p) \/ ClaimStat(p) \/ ClaimRead(p) \/ ClaimRename(p) \/ ClaimRestore(p)
           \/ Validate(p) \/ ValidateClaim(p) \/ Unclaim(p) \/ UnclaimRemove(p)
    PROVE  SafeInv'
<1>1. pc[p] \in ClaimLabels
  BY DEF Claim, ClaimStat, ClaimRead, ClaimRename, ClaimRestore, Validate, ValidateClaim,
         Unclaim, UnclaimRemove, At, ClaimLabels
<1>2. call[p] = "main" /\ DeadLock /\ Target(p) = "lock"
  BY <1>1 DEF Here, CallOK, QuarantineAt, QuarantineLabels, ClaimLabels, Target
<1>3. UNCHANGED <<leaked, envVars, dataVars, inst>>
  BY DEF Claim, ClaimStat, ClaimRead, ClaimRename, ClaimRestore, Validate, ValidateClaim,
         Unclaim, UnclaimRemove, fsVars
<1>4. Same("lock") /\ Same("reclaim")
  <2> USE DEF Paths
  <2>1. CASE dir' = dir
    BY <2>1 DEF Same, Present
  <2>2. CASE DropClaim("lock")
    BY <2>2, DropFacts
  <2>3. ASSUME NEW t \in Tokens \cup {None}, Present("lock"),
               dir' = [dir EXCEPT !["lock"].claim = t]
        PROVE  Same("lock") /\ Same("reclaim")
    BY <2>3, ClaimFacts
  <2>4. CASE Claim(p)
    BY <1>2, <2>1, <2>3, <2>4 DEF Claim, Tokens
  <2>5. CASE ClaimRestore(p)
    <3> DEFINE c == IF dir["lock"].claim = None THEN seen[p] ELSE dir["lock"].claim
    <3>1. c \in Tokens \cup {None}
      BY DirFields DEF TypeInv, TypeOK
    <3> QED  BY <1>2, <2>1, <2>3, <2>5, <3>1 DEF ClaimRestore
  <2>6. CASE ClaimRename(p) \/ UnclaimRemove(p)
    BY <1>2, <2>2, <2>6 DEF ClaimRename, UnclaimRemove
  <2>7. CASE ClaimStat(p) \/ ClaimRead(p) \/ Validate(p) \/ ValidateClaim(p) \/ Unclaim(p)
    BY <2>1, <2>7 DEF ClaimStat, ClaimRead, Validate, ValidateClaim, Unclaim, fsVars
  <2> QED  BY <2>4, <2>5, <2>6, <2>7
<1>5. \/ \E r \in {"no", "error"} : Return(p, r)
      \/ call' = call /\ \E m \in ClaimLabels : Goto(p, m)
  BY DEF Claim, ClaimStat, ClaimRead, ClaimRename, ClaimRestore, Validate, ValidateClaim,
         Unclaim, UnclaimRemove, ClaimLabels
<1>6. DeadLock'
  BY <1>2, <1>3, <1>4 DEF DeadLock, Same, envVars
<1>7. CASE \E r \in {"no", "error"} : Return(p, r)
  BY <1>1, <1>2, <1>3, <1>4, <1>7, ReturnMoves, MoveMain
     DEF Moves, QuarantineLabels, ClaimLabels, envVars, dataVars
<1>8. CASE call' = call /\ \E m \in ClaimLabels : Goto(p, m)
  <2>1. PICK m \in ClaimLabels : pc'[p] = m
    BY <1>8 DEF Goto, Here
  <2>2. Moves(p, pc[p], "main", m, "main")
    BY <1>2, <1>3, <1>4, <1>8, <2>1 DEF Moves, envVars, dataVars
  <2> QED  BY <1>1, <1>6, <2>2, MoveMain DEF QuarantineLabels, ClaimLabels
<1> QED  BY <1>5, <1>7, <1>8

----------------------------------------------------------------------------
(* Steps that change a directory or the metadata *)

\* While a running process is in the lock, no other one is, and the lock is
\* not dead.
LEMMA LockMine ==
    ASSUME SafeInv, NEW p \in Procs, Here(p), InLock(p)
    PROVE  /\ \A q \in alive : InLock(q) => q = p
           /\ ~DeadLock
           /\ Present("lock") /\ dir["lock"].by = p
BY NoDirFacts, PatchLockAssumption
   DEF Here, SafeInv, LockOwned, LockAt, DeadLock, Present, Tokens

\* The same for the recovery lock.
LEMMA RecoveryMine ==
    ASSUME SafeInv, NEW p \in Procs, Here(p), InRecovery(p)
    PROVE  /\ \A q \in alive : InRecovery(q) => q = p
           /\ Present("reclaim") /\ dir["reclaim"].by = p
BY NoDirFacts, PatchLockAssumption
   DEF Here, SafeInv, RecoveryOwned, RecoveryAt, Present, Tokens

\* p takes the directory of the lock away: nobody is in the lock.
LEMMA LockGone ==
    ASSUME NEW p \in Procs, Others(p), alive \subseteq Procs, alive' = alive,
           dir'["lock"] = NoDir, \A q \in alive : InLock(q) => q = p, ~InLock(p)'
    PROVE  LockOwned'
<1>1. ASSUME NEW q \in alive PROVE LockAt(q)'
  <2>1. ~InLock(q)'
    BY DEF Others, InLock, Named
  <2> QED  BY <2>1 DEF LockAt, InLock, Named
<1>2. LockDirOK'
  BY NoDirFacts, PatchLockAssumption DEF LockDirOK, Tokens
<1> QED  BY <1>1, <1>2 DEF LockOwned

\* p takes the directory of the recovery lock away: nobody recovers.
LEMMA RecoveryGone ==
    ASSUME NEW p \in Procs, Others(p), alive \subseteq Procs, alive' = alive,
           dir'["reclaim"] = NoDir, \A q \in alive : InRecovery(q) => q = p, ~InRecovery(p)'
    PROVE  RecoveryOwned'
<1>1. ASSUME NEW q \in alive PROVE RecoveryAt(q)'
  <2>1. ~InRecovery(q)'
    BY DEF Others, InRecovery
  <2> QED  BY <2>1 DEF RecoveryAt, InRecovery
<1>2. RecoveryDirOK'
  BY DEF RecoveryDirOK, Present
<1> QED  BY <1>1, <1>2 DEF RecoveryOwned

\* p creates the directory of the lock, or names itself in it.
LEMMA LockTaken ==
    ASSUME NEW p \in Procs, Others(p), Here(p), alive' = alive,
           \A q \in alive : InLock(q) => q = p,
           InLock(p)', LockAt(p)', ~dir'["lock"].old, dir'["lock"].owner \in {None, p}
    PROVE  LockOwned'
<1>1. ASSUME NEW q \in alive, q # p PROVE LockAt(q)'
  <2>1. ~InLock(q)'
    BY <1>1 DEF Here, Others, InLock, Named
  <2> QED  BY <2>1 DEF LockAt, InLock, Named
<1>2. dir'["lock"].by = p
  BY DEF LockAt
<1> QED  BY <1>1, <1>2 DEF LockOwned, LockDirOK, Here

\* The same for the recovery lock.
LEMMA RecoveryTaken ==
    ASSUME NEW p \in Procs, Others(p), Here(p), alive' = alive,
           \A q \in alive : InRecovery(q) => q = p,
           InRecovery(p)', RecoveryAt(p)', ~dir'["reclaim"].old,
           dir'["reclaim"].owner \in {None, p}
    PROVE  RecoveryOwned'
<1>1. ASSUME NEW q \in alive, q # p PROVE RecoveryAt(q)'
  <2>1. ~InRecovery(q)'
    BY <1>1 DEF Here, Others, InRecovery
  <2> QED  BY <2>1 DEF RecoveryAt, InRecovery
<1>2. dir'["reclaim"].by = p
  BY DEF RecoveryAt
<1> QED  BY <1>1, <1>2 DEF RecoveryOwned, RecoveryDirOK, Here

\* acquire_patch_lock up to the point where the lock is held.
LEMMA AcquireSteps ==
    ASSUME TypeInv, SafeInv, NEW p \in Procs, Others(p), Here(p), Start(p) \/ TimeOut(p) \/ Acquire(p)
    PROVE  SafeInv'
<1> USE DEF At, Goto, fsVars, envVars, dataVars
<1>k. pc[p] \in {"idle", "createLock", "checkRecovery", "backOff", "writeOwner", "getId",
                 "createRecovery", "writeRecoveryOwner", "getRecoveryId"}
        => call[p] = "none"
  BY DEF Here, CallOK, Labels, QuarantineLabels, ClaimLabels, ReleaseLabels
<1>f. pc \in [Procs -> Labels] /\ call \in [Procs -> Calls] /\ dir \in [Paths -> Dirs]
      /\ inst \in [Procs -> Inodes \cup {None}] /\ alive \subseteq Procs /\ p \in alive
  BY DEF Here
<1>s. dir' = dir => Same("lock") /\ Same("reclaim")
  BY DEF Same, Present
<1>e. ASSUME alive' = alive, expired' = expired PROVE ExpiredDead'
  BY <1>e DEF SafeInv, ExpiredDead
<1>1. CASE Start(p) \/ LockBusy(p) \/ TimeOut(p)
  BY <1>1, <1>k, <1>f, <1>s, MoveOutside DEF Start, LockBusy, TimeOut, Moves
<1>2. CASE CheckRecovery(p) \/ RecoveryBusy(p)
  BY <1>2, <1>k, <1>f, <1>s, MoveActive DEF CheckRecovery, RecoveryBusy, Moves
<1>3. CASE WriteOwnerFailed(p) \/ RecoveryOwnerFailed(p)
  BY <1>3 DEF WriteOwnerFailed, RecoveryOwnerFailed, Here, QuarantineAt
<1>4. CASE CreateLock(p)
  <2>1. /\ pc[p] = "createLock" /\ call[p] = "none" /\ ~Present("lock")
        /\ pc'[p] = "checkRecovery" /\ call'[p] = "none"
        /\ alive' = alive /\ expired' = expired /\ meta' = meta
    BY <1>4, <1>k, <1>f DEF CreateLock
  <2>2. /\ dir'["lock"].by = p /\ dir'["lock"].owner = None /\ ~dir'["lock"].old
        /\ Same("reclaim")
    BY <1>4, MakeDirFacts DEF CreateLock, Paths, Same, Present
  <2>3. \A q \in alive : InLock(q) => q = p
    BY <2>1, NoDirFacts, PatchLockAssumption
       DEF Present, SafeInv, LockOwned, LockAt, Here, Tokens
  <2>4. LockOwned'
    BY <2>1, <2>2, <2>3, LockTaken DEF LockAt, InLock, Named
  <2>5. RecoveryOwned'
    BY <1>f, <2>1, <2>2, RecoveryKept DEF SafeInv, InRecovery, RecoveryAt
  <2>6. QuarantineSound'
    BY <1>f, <2>1, QuarantineKept DEF SafeInv, DeadLock, QuarantineAt, ClaimLabels
  <2>7. DataSound'
    BY <2>1, DataKept DEF SafeInv, DataAt, ReleaseLabels
  <2> QED  BY <1>e, <2>1, <2>4, <2>5, <2>6, <2>7 DEF SafeInv
<1>5. CASE BackOff(p)
  <2>1. /\ pc[p] = "backOff" /\ call[p] = "none"
        /\ pc'[p] \in {"createLock", "failed"} /\ call'[p] = "none"
        /\ alive' = alive /\ expired' = expired /\ meta' = meta
        /\ dir'["lock"] = NoDir /\ dir'["reclaim"] = dir["reclaim"]
    BY <1>5, <1>k, <1>f DEF BackOff, RemoveDir, Vacate, Paths
  <2>2. /\ \A q \in alive : InLock(q) => q = p
        /\ ~DeadLock
    BY <2>1, LockMine DEF InLock
  <2>3. LockOwned'
    BY <1>f, <2>1, <2>2, LockGone DEF InLock, Named
  <2>4. RecoveryOwned'
    BY <1>f, <2>1, RecoveryKept DEF SafeInv, InRecovery, RecoveryAt, Same, Present
  <2>5. QuarantineSound'
    BY <1>f, <2>1, <2>2, QuarantineKept DEF SafeInv, QuarantineAt, ClaimLabels
  <2>6. DataSound'
    BY <2>1, DataKept DEF SafeInv, DataAt, ReleaseLabels
  <2> QED  BY <1>e, <2>1, <2>3, <2>4, <2>5, <2>6 DEF SafeInv
<1>6. CASE WriteOwner(p)
  <2>1. pc[p] = "writeOwner" /\ call[p] = "none"
    BY <1>6, <1>k DEF WriteOwner
  <2>2. /\ \A q \in alive : InLock(q) => q = p
        /\ ~DeadLock
        /\ Present("lock") /\ dir["lock"].by = p
    BY <2>1, LockMine DEF InLock
  <2>3. /\ dir' = [dir EXCEPT !["lock"].owner = p]
        /\ pc'[p] = "getId" /\ call'[p] = "none"
        /\ alive' = alive /\ expired' = expired /\ meta' = meta
    <3>1. dir' = [dir EXCEPT !["lock"].owner = p] /\ Goto(p, "getId")
      BY <1>6, <2>2, Zenon DEF WriteOwner, WriteOwnerAt
    <3>2. call' = call /\ alive' = alive /\ expired' = expired /\ meta' = meta
      BY <1>6 DEF WriteOwner
    <3> QED  BY <1>f, <2>1, <3>1, <3>2
  <2>4. /\ dir'["lock"].by = p /\ dir'["lock"].owner = p
        /\ dir'["lock"].old = dir["lock"].old /\ Same("reclaim")
    BY <2>2, <2>3, OwnerFacts DEF Paths, Same, Present
  <2>5. ~dir["lock"].old
    BY <1>f, <2>2 DEF SafeInv, LockOwned, LockDirOK
  <2>6. LockOwned'
    BY <2>2, <2>3, <2>4, <2>5, LockTaken DEF LockAt, InLock, Named
  <2>7. RecoveryOwned'
    BY <1>f, <2>1, <2>3, <2>4, RecoveryKept DEF SafeInv, InRecovery, RecoveryAt
  <2>8. QuarantineSound'
    BY <1>f, <2>2, <2>3, QuarantineKept DEF SafeInv, QuarantineAt, ClaimLabels
  <2>9. DataSound'
    BY <2>3, DataKept DEF SafeInv, DataAt, ReleaseLabels
  <2> QED  BY <1>e, <2>3, <2>6, <2>7, <2>8, <2>9 DEF SafeInv
<1>7. CASE GetIdentity(p)
  <2>1. pc[p] = "getId" /\ call[p] = "none"
    BY <1>7, <1>k DEF GetIdentity
  <2>2. Present("lock") /\ LockAt(p)
    BY <2>1, LockMine DEF InLock, Named, Here
  <2>3. /\ pc'[p] = "read" /\ call'[p] = "held" /\ inst'[p] = dir["lock"].ino
        /\ alive' = alive /\ expired' = expired /\ meta' = meta /\ dir' = dir
    BY <1>7, <1>f, <2>2 DEF GetIdentity
  <2>4. Quiet(p)
    BY <1>s, <2>1, <2>3 DEF Quiet, InLock, Named, InRecovery
  <2>5. LockAt(p)' /\ RecoveryAt(p)' /\ QuarantineAt(p)' /\ DataAt(p)'
    BY <2>1, <2>2, <2>3 DEF LockAt, InLock, Named, RecoveryAt, InRecovery,
       QuarantineAt, ClaimLabels, DataAt, ReleaseLabels
  <2> QED  BY <1>f, <2>4, <2>5, QuietStep
<1>8. CASE CreateRecovery(p)
  <2>1. /\ pc[p] = "createRecovery" /\ call[p] = "none" /\ ~Present("reclaim")
        /\ pc'[p] = "writeRecoveryOwner" /\ call'[p] = "none"
        /\ alive' = alive /\ expired' = expired /\ meta' = meta
    BY <1>8, <1>k, <1>f DEF CreateRecovery
  <2>2. /\ dir'["reclaim"].by = p /\ dir'["reclaim"].owner = None /\ ~dir'["reclaim"].old
        /\ Same("lock")
    BY <1>8, MakeDirFacts DEF CreateRecovery, Paths, Same, Present
  <2>3. \A q \in alive : InRecovery(q) => q = p
    BY <2>1, NoDirFacts, PatchLockAssumption
       DEF Present, SafeInv, RecoveryOwned, RecoveryAt, Here, Tokens
  <2>4. RecoveryOwned'
    BY <2>1, <2>2, <2>3, RecoveryTaken DEF RecoveryAt, InRecovery
  <2>5. LockOwned'
    BY <1>f, <2>1, <2>2, LockKept DEF SafeInv, InLock, Named, LockAt
  <2>6. QuarantineSound'
    BY <1>f, <2>1, <2>2, QuarantineKept DEF SafeInv, DeadLock, Same, QuarantineAt, ClaimLabels
  <2>7. DataSound'
    BY <2>1, DataKept DEF SafeInv, DataAt, ReleaseLabels
  <2> QED  BY <1>e, <2>1, <2>4, <2>5, <2>6, <2>7 DEF SafeInv
<1>9. CASE WriteRecoveryOwner(p)
  <2>1. pc[p] = "writeRecoveryOwner" /\ call[p] = "none"
    BY <1>9, <1>k DEF WriteRecoveryOwner
  <2>2. /\ \A q \in alive : InRecovery(q) => q = p
        /\ Present("reclaim") /\ dir["reclaim"].by = p
    BY <2>1, RecoveryMine DEF InRecovery
  <2>3. /\ dir' = [dir EXCEPT !["reclaim"].owner = p]
        /\ pc'[p] = "getRecoveryId" /\ call'[p] = "none"
        /\ alive' = alive /\ expired' = expired /\ meta' = meta
    <3>1. dir' = [dir EXCEPT !["reclaim"].owner = p] /\ Goto(p, "getRecoveryId")
      BY <1>9, <2>2, Zenon DEF WriteRecoveryOwner, WriteOwnerAt
    <3>2. call' = call /\ alive' = alive /\ expired' = expired /\ meta' = meta
      BY <1>9 DEF WriteRecoveryOwner
    <3> QED  BY <1>f, <2>1, <3>1, <3>2
  <2>4. /\ dir'["reclaim"].by = p /\ dir'["reclaim"].owner = p
        /\ dir'["reclaim"].old = dir["reclaim"].old /\ Same("lock")
    BY <2>2, <2>3, OwnerFacts DEF Paths, Same, Present
  <2>5. ~dir["reclaim"].old
    BY <2>2 DEF SafeInv, RecoveryOwned, RecoveryDirOK
  <2>6. RecoveryOwned'
    BY <2>2, <2>3, <2>4, <2>5, RecoveryTaken DEF RecoveryAt, InRecovery
  <2>7. LockOwned'
    BY <1>f, <2>1, <2>3, <2>4, LockKept DEF SafeInv, InLock, Named, LockAt
  <2>8. QuarantineSound'
    BY <1>f, <2>3, <2>4, QuarantineKept DEF SafeInv, DeadLock, Same, QuarantineAt, ClaimLabels
  <2>9. DataSound'
    BY <2>3, DataKept DEF SafeInv, DataAt, ReleaseLabels
  <2> QED  BY <1>e, <2>3, <2>6, <2>7, <2>8, <2>9 DEF SafeInv
<1>10. CASE GetRecoveryIdentity(p)
  <2>1. pc[p] = "getRecoveryId" /\ call[p] = "none"
    BY <1>10, <1>k DEF GetRecoveryIdentity
  <2>2. Present("reclaim") /\ RecoveryAt(p)
    BY <2>1, RecoveryMine DEF InRecovery, Here
  <2>3. /\ pc'[p] = "snapId" /\ call'[p] = "main" /\ inst'[p] = dir["reclaim"].ino
        /\ alive' = alive /\ expired' = expired /\ meta' = meta /\ dir' = dir
    BY <1>10, <1>f, <2>2 DEF GetRecoveryIdentity
  <2>4. Quiet(p)
    BY <1>s, <2>1, <2>3 DEF Quiet, InLock, Named, InRecovery
  <2>5. LockAt(p)' /\ RecoveryAt(p)' /\ QuarantineAt(p)' /\ DataAt(p)'
    BY <2>1, <2>2, <2>3 DEF LockAt, InLock, Named, RecoveryAt, InRecovery,
       QuarantineAt, ClaimLabels, DataAt, ReleaseLabels
  <2> QED  BY <1>f, <2>4, <2>5, QuietStep
<1> QED  BY <1>1, <1>2, <1>3, <1>4, <1>5, <1>6, <1>7, <1>8, <1>9, <1>10 DEF Acquire

----------------------------------------------------------------------------
(* The rename, the critical section, the release and the environment *)

\* The rename takes a dead lock away, and only p was about to do so.
LEMMA RenameStep ==
    ASSUME TypeInv, SafeInv, NEW p \in Procs, Others(p), Here(p), Rename(p)
    PROVE  SafeInv'
<1>1. pc[p] = "rename"
  BY DEF Rename, At
<1>2. call[p] = "main" /\ DeadLock /\ Target(p) = "lock"
  BY <1>1 DEF Here, CallOK, QuarantineAt, QuarantineLabels, ClaimLabels, Target
<1>3. PICK r \in {"yes", "no"} :
        /\ dir' = [dir EXCEPT !["lock"] = NoDir]
        /\ Return(p, r)
        /\ alive' = alive /\ expired' = expired /\ meta' = meta /\ inst' = inst
  BY <1>2 DEF Rename, Vacate, DeadLock, Present, envVars, dataVars
<1>4. pc'[p] = "release" /\ call'[p] = "main"
  BY <1>2, <1>3 DEF Return, Goto, Here
<1>5. dir'["lock"] = NoDir /\ Same("reclaim")
  BY <1>3 DEF Here, Same, Present, Paths
<1>6. \A q \in alive : ~InLock(q)
  BY <1>2 DEF DeadLock, SafeInv, LockOwned, LockAt
<1>7. \A q \in alive : call[q] = "main" => q = p
  BY <1>2, RecoveryMine DEF InRecovery
<1>8. LockOwned'
  BY <1>3, <1>4, <1>5, <1>6, LockGone DEF Here, InLock, Named
<1>9. RecoveryOwned'
  BY <1>1, <1>2, <1>3, <1>4, <1>5, RecoveryKept DEF SafeInv, Here, InRecovery, RecoveryAt, Same
<1>10. QuarantineSound'
  <2> SUFFICES ASSUME NEW q \in alive PROVE QuarantineAt(q)'
    BY <1>3 DEF QuarantineSound
  <2>1. CASE q = p
    BY <1>4, <2>1 DEF QuarantineAt, ClaimLabels
  <2>2. CASE q # p
    BY <1>7, <2>2 DEF Here, Others, SafeInv, QuarantineSound, QuarantineAt
  <2> QED  BY <2>1, <2>2
<1>11. DataSound'
  BY <1>3, <1>4, DataKept DEF SafeInv, DataAt
<1>12. ExpiredDead'
  BY <1>3 DEF SafeInv, ExpiredDead
<1> QED  BY <1>8, <1>9, <1>10, <1>11, <1>12 DEF SafeInv

\* Reading, merging and writing under the lock, and the release of either lock.
LEMMA PatchSteps ==
    ASSUME TypeInv, SafeInv, NEW p \in Procs, Others(p), Here(p), Patch(p)
    PROVE  SafeInv'
<1> USE DEF At, Goto, fsVars, envVars, dataVars
<1>k. /\ pc[p] \in {"read", "write"} => call[p] = "held"
      /\ pc[p] \in ReleaseLabels => call[p] \in {"held", "declined", "main", "error"}
  BY DEF Here, CallOK
<1>f. /\ pc \in [Procs -> Labels] /\ call \in [Procs -> Calls] /\ dir \in [Paths -> Dirs]
      /\ copy \in [Procs -> SUBSET Procs] /\ alive \subseteq Procs /\ p \in alive
  BY DEF Here
<1>s. dir' = dir => Same("lock") /\ Same("reclaim")
  BY DEF Same, Present
<1>e. ASSUME alive' = alive, expired' = expired PROVE ExpiredDead'
  BY <1>e DEF SafeInv, ExpiredDead
<1>o. pc[p] \in ReleaseLabels => OwnsDir(p, ReleasePath(p))
  BY <1>k DEF Here, LockAt, Named, RecoveryAt, OwnsDir, ReleasePath
<1>1. CASE ReadMeta(p)
  <2>1. /\ pc[p] = "read" /\ call[p] = "held" /\ pc'[p] = "write" /\ call'[p] = "held"
        /\ copy'[p] = meta /\ inst' = inst
        /\ alive' = alive /\ expired' = expired /\ meta' = meta /\ dir' = dir
    BY <1>1, <1>k, <1>f DEF ReadMeta
  <2>2. Quiet(p)
    BY <1>s, <2>1 DEF Quiet, InLock, Named, InRecovery
  <2>3. LockAt(p)' /\ RecoveryAt(p)' /\ QuarantineAt(p)' /\ DataAt(p)'
    BY <2>1 DEF Here, LockAt, InLock, Named, RecoveryAt, InRecovery, QuarantineAt,
       ClaimLabels, DataAt, ReleaseLabels
  <2> QED  BY <1>f, <2>2, <2>3, QuietStep
<1>2. CASE Decline(p)
  <2>1. /\ pc[p] = "write" /\ call[p] = "held" /\ pc'[p] = "release" /\ call'[p] = "declined"
        /\ inst' = inst
        /\ alive' = alive /\ expired' = expired /\ meta' = meta /\ dir' = dir
    BY <1>2, <1>k, <1>f DEF Decline
  <2>2. Quiet(p)
    BY <1>s, <2>1 DEF Quiet, InLock, Named, InRecovery
  <2>3. LockAt(p)' /\ RecoveryAt(p)' /\ QuarantineAt(p)' /\ DataAt(p)'
    BY <2>1 DEF Here, LockAt, InLock, Named, RecoveryAt, InRecovery, QuarantineAt,
       ClaimLabels, DataAt, ReleaseLabels
  <2> QED  BY <1>f, <2>2, <2>3, QuietStep
<1>3. CASE WriteMeta(p)
  <2>1. /\ pc[p] = "write" /\ call[p] = "held" /\ pc'[p] = "release" /\ call'[p] = "held"
        /\ inst' = inst /\ copy' = copy /\ meta' = copy[p] \cup {p}
        /\ alive' = alive /\ expired' = expired /\ dir' = dir
    BY <1>3, <1>k, <1>f DEF WriteMeta
  <2>2. meta' = meta \cup {p}
    BY <1>f, <2>1 DEF Here, DataAt
  <2>3. \A q \in alive : InLock(q) => q = p
    BY <2>1, LockMine DEF InLock, Named
  <2>4. DataSound'
    <3> SUFFICES ASSUME NEW q \in Procs PROVE DataAt(q)'
      BY DEF DataSound
    <3>1. CASE q = p
      BY <2>1, <2>2, <3>1 DEF DataAt
    <3>2. CASE q # p
      <4>1. pc'[q] = pc[q] /\ call'[q] = call[q] /\ copy'[q] = copy[q]
        BY <3>2 DEF Others
      <4>2. ~(q \in alive /\ pc[q] = "write")
        BY <2>3, <3>2 DEF InLock, Named
      <4> QED  BY <2>1, <2>2, <4>1, <4>2 DEF SafeInv, DataSound, DataAt
    <3> QED  BY <3>1, <3>2
  <2>5. LockOwned'
    BY <1>f, <1>s, <2>1, LockKept DEF SafeInv, Here, InLock, Named, LockAt
  <2>6. RecoveryOwned'
    BY <1>f, <1>s, <2>1, RecoveryKept DEF SafeInv, InRecovery, RecoveryAt
  <2>7. QuarantineSound'
    BY <1>f, <2>1, QuarantineKept DEF SafeInv, DeadLock, Present, QuarantineAt, ClaimLabels
  <2> QED  BY <1>e, <2>1, <2>4, <2>5, <2>6, <2>7 DEF SafeInv
<1>4. CASE CheckRelease(p)
  <2>1. pc[p] = "release"
    BY <1>4 DEF CheckRelease
  <2>2. /\ pc'[p] = "releaseRename" /\ call' = call /\ inst' = inst
        /\ alive' = alive /\ expired' = expired /\ meta' = meta /\ dir' = dir
    BY <1>4, <1>f, <1>o, <2>1 DEF CheckRelease, ReleaseLabels
  <2>3. Quiet(p)
    BY <1>s, <2>1, <2>2 DEF Quiet, InLock, Named, InRecovery
  <2>4. LockAt(p)' /\ RecoveryAt(p)'
    BY <2>1, <2>2 DEF Here, LockAt, InLock, Named, RecoveryAt, InRecovery
  <2>5. QuarantineAt(p)' /\ DataAt(p)'
    BY <1>k, <2>1, <2>2 DEF Here, QuarantineAt, ClaimLabels, DataAt, ReleaseLabels
  <2> QED  BY <1>f, <2>3, <2>4, <2>5, QuietStep
<1>5. CASE Release(p)
  <2>1. /\ pc[p] = "releaseRename"
        /\ dir' = [dir EXCEPT ![ReleasePath(p)] = NoDir]
        /\ alive' = alive /\ expired' = expired /\ meta' = meta
        /\ Released(p)
    BY <1>5 DEF Release, Vacate
  <2>2. /\ call'[p] = "none"
        /\ call[p] = "held" => pc'[p] = "done"
        /\ call[p] = "main" => pc'[p] = "createLock"
        /\ call[p] \in {"error", "declined"} => pc'[p] = "failed"
    BY <1>f, <2>1 DEF Released
  <2>3. pc'[p] \in {"done", "createLock", "failed"}
    BY <1>k, <2>1, <2>2 DEF ReleaseLabels
  <2>4. CASE call[p] \in {"held", "declined"}
    <3>1. dir'["lock"] = NoDir /\ Same("reclaim")
      BY <1>f, <2>1, <2>4 DEF ReleasePath, Same, Present, Paths
    <3>2. /\ \A q \in alive : InLock(q) => q = p
          /\ ~DeadLock
      BY <2>4, LockMine DEF InLock, Named
    <3>3. LockOwned'
      BY <1>f, <2>1, <2>2, <2>3, <3>1, <3>2, LockGone DEF InLock, Named
    <3>4. RecoveryOwned'
      BY <1>f, <2>1, <2>2, <2>3, <2>4, <3>1, RecoveryKept DEF SafeInv, InRecovery, RecoveryAt
    <3>5. QuarantineSound'
      BY <1>f, <2>1, <2>2, <2>3, <3>2, QuarantineKept DEF SafeInv, QuarantineAt, ClaimLabels
    <3>6. DataSound'
      BY <1>f, <2>1, <2>2, <2>4, DataKept DEF SafeInv, Here, DataAt, ReleaseLabels
    <3> QED  BY <1>e, <2>1, <3>3, <3>4, <3>5, <3>6 DEF SafeInv
  <2>5. CASE call[p] \in {"main", "error"}
    <3>1. dir'["reclaim"] = NoDir /\ Same("lock")
      BY <1>f, <2>1, <2>5 DEF ReleasePath, Same, Present, Paths
    <3>2. \A q \in alive : InRecovery(q) => q = p
      BY <2>5, RecoveryMine DEF InRecovery
    <3>3. RecoveryOwned'
      BY <1>f, <2>1, <2>2, <2>3, <3>1, <3>2, RecoveryGone DEF InRecovery
    <3>4. LockOwned'
      BY <1>f, <2>1, <2>2, <2>3, <2>5, <3>1, LockKept DEF SafeInv, InLock, Named, LockAt
    <3>5. QuarantineSound'
      BY <1>f, <2>1, <2>2, <2>3, <3>1, QuarantineKept
         DEF SafeInv, DeadLock, Same, QuarantineAt, ClaimLabels
    <3>6. DataSound'
      BY <2>1, <2>2, <2>5, DataKept DEF SafeInv, DataAt, ReleaseLabels
    <3> QED  BY <1>e, <2>1, <3>3, <3>4, <3>5, <3>6 DEF SafeInv
  <2> QED  BY <1>k, <2>1, <2>4, <2>5 DEF ReleaseLabels
<1> QED  BY <1>1, <1>2, <1>3, <1>4, <1>5 DEF Patch

\* The death of a process that does not recover.
LEMMA CrashStep ==
    ASSUME SafeInv, NEW p \in Procs, Crash(p), NoRecovererDied', alive \subseteq Procs
    PROVE  SafeInv'
<1>1. /\ alive' = alive \ {p} /\ expired' = expired /\ dir' = dir /\ meta' = meta /\ copy' = copy
      /\ pc' = pc /\ call' = call /\ snap' = snap /\ inst' = inst
  BY DEF Crash, fsVars, procVars, dataVars
<1>2. ~InRecovery(p)
  BY <1>1 DEF NoRecovererDied, InRecovery
<1>3. LockOwned'
  BY <1>1 DEF SafeInv, LockOwned, LockDirOK, LockAt, InLock, Named
<1>4. RecoveryOwned'
  BY <1>1, <1>2 DEF SafeInv, RecoveryOwned, RecoveryDirOK, RecoveryAt, InRecovery, Present
<1>5. QuarantineSound'
  BY <1>1 DEF SafeInv, QuarantineSound, QuarantineAt, DeadLock, Present
<1>6. DataSound'
  BY <1>1 DEF SafeInv, DataSound, DataAt
<1>7. ExpiredDead'
  BY <1>1 DEF SafeInv, ExpiredDead
<1> QED  BY <1>3, <1>4, <1>5, <1>6, <1>7 DEF SafeInv

\* Time passes only for directories that no running process is naming, so it
\* never makes the lock of a running process stale.
LEMMA AgeStep ==
    ASSUME TypeInv, SafeInv, NEW x \in Paths, AgeDir(x)
    PROVE  SafeInv'
<1>1. /\ alive' = alive /\ expired' = expired /\ meta' = meta /\ copy' = copy
      /\ pc' = pc /\ call' = call /\ snap' = snap /\ inst' = inst
  BY DEF AgeDir, envVars, procVars, dataVars
<1>2. /\ Present(x) /\ dir[x].owner = None /\ ~Naming(x)
  BY DEF AgeDir
<1>3. alive \subseteq Procs
  BY DEF TypeInv, TypeOK
<1>4. x = "lock"
  <2> SUFFICES ASSUME x = "reclaim" PROVE FALSE
    BY DEF Paths
  <2>1. dir["reclaim"].by \in alive /\ InRecovery(dir["reclaim"].by)
    BY <1>2 DEF SafeInv, RecoveryOwned, RecoveryDirOK
  <2>2. pc[dir["reclaim"].by] = "writeRecoveryOwner"
    BY <1>2, <1>3, <2>1, PatchLockAssumption
       DEF SafeInv, RecoveryOwned, RecoveryAt, QuarantineSound, QuarantineAt, InRecovery, Tokens
  <2> QED  BY <1>2, <2>1, <2>2 DEF Naming, Unnamed
<1>5. dir["lock"].by \notin alive
  <2> SUFFICES ASSUME dir["lock"].by \in alive PROVE FALSE
    OBVIOUS
  <2>1. InLock(dir["lock"].by) /\ ~Named(dir["lock"].by)
    BY <1>2, <1>3, <1>4, PatchLockAssumption DEF SafeInv, LockOwned, LockDirOK, LockAt, Tokens
  <2> QED  BY <1>2, <1>4, <2>1 DEF InLock, Naming, Unnamed
<1>6. /\ Present("lock")' = Present("lock") /\ Same("reclaim")
      /\ dir'["lock"].ino = dir["lock"].ino
      /\ dir'["lock"].owner = dir["lock"].owner /\ dir'["lock"].by = dir["lock"].by
  BY <1>2, <1>4, AgeFacts DEF Paths, Same, Present
<1>7. LockOwned'
  BY <1>1, <1>5, <1>6 DEF SafeInv, LockOwned, LockDirOK, LockAt, InLock, Named
<1>8. RecoveryOwned'
  BY <1>1, <1>6 DEF SafeInv, RecoveryOwned, RecoveryDirOK, RecoveryAt, InRecovery, Same
<1>9. QuarantineSound'
  BY <1>1, <1>6 DEF SafeInv, QuarantineSound, QuarantineAt, DeadLock
<1>10. DataSound' /\ ExpiredDead'
  BY <1>1 DEF SafeInv, DataSound, DataAt, ExpiredDead
<1> QED  BY <1>7, <1>8, <1>9, <1>10 DEF SafeInv

\* Steps that change nothing the invariant mentions but expired.
LEMMA SameStep ==
    ASSUME SafeInv, ExpiredDead', UNCHANGED <<dir, alive, pc, call, snap, inst, meta, copy>>
    PROVE  SafeInv'
<1>1. LockOwned' /\ RecoveryOwned'
  BY DEF SafeInv, LockOwned, LockDirOK, LockAt, InLock, Named, RecoveryOwned, RecoveryDirOK,
         RecoveryAt, InRecovery, Present
<1>2. QuarantineSound' /\ DataSound'
  BY DEF SafeInv, QuarantineSound, QuarantineAt, DeadLock, Present, DataSound, DataAt
<1> QED  BY <1>1, <1>2 DEF SafeInv

\* Every step preserves the invariant.
LEMMA InvStep == Inv /\ [Next]_vars => Inv'
<1> SUFFICES ASSUME Inv, [Next]_vars PROVE Inv'
  OBVIOUS
<1>1. TypeInv /\ TypeInv'
  BY TypeStep DEF Inv
<1> SUFFICES ASSUME NoRecovererDied' PROVE SafeInv'
  BY <1>1 DEF Inv
<1>2. SafeInv
  BY <1>1, RecovererDead DEF Inv
<1>3. alive \subseteq Procs
  BY <1>1 DEF TypeInv, TypeOK
<1>4. ASSUME NEW p \in Procs, Start(p) \/ Step(p) \/ TimeOut(p) \/ Crash(p)
      PROVE  SafeInv'
  <2>1. Others(p) /\ p \in alive
    BY <1>1, <1>4, Frame DEF Others
  <2>2. Here(p)
    BY <1>1, <1>2, <2>1, HereHolds
  <2>3. CASE Start(p) \/ TimeOut(p) \/ Acquire(p)
    BY <1>1, <1>2, <2>1, <2>2, <2>3, AcquireSteps
  <2>4. CASE Quarantine(p)
    BY <1>1, <1>2, <2>1, <2>2, <2>4, SnapshotSteps, ClaimSteps, RenameStep DEF Quarantine
  <2>5. CASE Patch(p)
    BY <1>1, <1>2, <2>1, <2>2, <2>5, PatchSteps
  <2>6. CASE Crash(p)
    BY <1>2, <1>3, <2>6, CrashStep
  <2> QED  BY <1>4, <2>3, <2>4, <2>5, <2>6 DEF Step
<1>5. ASSUME NEW x \in Paths, AgeDir(x) PROVE SafeInv'
  BY <1>1, <1>2, <1>5, AgeStep
<1>6. ASSUME NEW t \in Tokens, Expire(t) PROVE SafeInv'
  BY <1>2, <1>6, SameStep DEF Expire, fsVars, procVars, dataVars, SafeInv, ExpiredDead
<1>7. CASE UNCHANGED vars
  BY <1>2, <1>7, SameStep DEF vars, SafeInv, ExpiredDead
<1> QED  BY <1>4, <1>5, <1>6, <1>7 DEF Next

\* A clean start satisfies the invariant: debris has no running maker.
LEMMA InvInit == CleanInit => Inv
<1> SUFFICES ASSUME Init, dir["reclaim"] = NoDir PROVE Inv
  BY DEF CleanInit
<1>1. TypeInv
  BY TypeInit
<1>2. dir["lock"].by = None /\ dir["lock"].owner \in Ghosts \cup {None}
  <2>1. PICK i \in Inodes : dir["lock"] \in Debris(i)
    BY DEF Init, Paths
  <2> QED  BY <2>1, NoDirFacts DEF Debris
<1>3. /\ alive = Procs /\ expired \subseteq Ghosts
      /\ pc = [p \in Procs |-> "idle"] /\ call = [p \in Procs |-> "none"]
  BY DEF Init
<1>4. \A p \in Procs : ~InLock(p) /\ ~InRecovery(p)
  BY <1>3 DEF InLock, Named, InRecovery
<1>5. LockOwned
  BY <1>2, <1>3, <1>4, PatchLockAssumption
     DEF LockOwned, LockDirOK, LockAt, InLock, Named, Tokens
<1>6. RecoveryOwned
  BY <1>3, <1>4 DEF RecoveryOwned, RecoveryDirOK, RecoveryAt, InRecovery, Present
<1>7. QuarantineSound /\ DataSound
  BY <1>3 DEF QuarantineSound, QuarantineAt, ClaimLabels, DataSound, DataAt, ReleaseLabels
<1>8. ExpiredDead
  BY <1>3, PatchLockAssumption DEF ExpiredDead
<1> QED  BY <1>1, <1>5, <1>6, <1>7, <1>8 DEF Inv, SafeInv

\* acquire_patch_lock, recover_stale_if_recovery_owner and release_patch_lock
\* from a clean start: whatever holders of the lock die, whatever pid scopes
\* the processes live in, and even if inode numbers are given out again, at
\* most one process merges at a time, no acknowledged patch is lost and at
\* most one process recovers, unless one dies with the recovery lock.
THEOREM LockSafe == CleanSpec => []SafeUnlessRecovererDied
<1>1. CleanSpec => []Inv
  BY InvInit, InvStep, PTL DEF CleanSpec
<1>2. Inv => SafeUnlessRecovererDied
  <2> SUFFICES ASSUME Inv, NoRecovererDied
               PROVE  MutualExclusion /\ NoLostUpdate /\ RecoveryExclusive
    BY DEF SafeUnlessRecovererDied
  <2>1. SafeInv
    BY DEF Inv
  <2>2. MutualExclusion
    BY <2>1 DEF MutualExclusion, Holding, SafeInv, LockOwned, LockAt, InLock, Named
  <2>3. NoLostUpdate
    BY <2>1 DEF NoLostUpdate, SafeInv, DataSound, DataAt
  <2>4. RecoveryExclusive
    BY <2>1 DEF RecoveryExclusive, Recovering, SafeInv, RecoveryOwned, RecoveryAt, InRecovery
  <2> QED  BY <2>2, <2>3, <2>4
<1> QED  BY <1>1, <1>2, PTL

----------------------------------------------------------------------------
(* Refinement: PatchLock implements MetaStore *)

\* p wrote its patch and has yet to be acknowledged, or was.
Wrote(p) == pc[p] = "done" \/ (call[p] = "held" /\ pc[p] \in ReleaseLabels)

\* Only patches that were written are in the metadata.
OnlyWritten == \A p \in Procs : p \in meta => Wrote(p)

\* What a step does to the metadata and to the acknowledgements.
LEMMA StepEffect ==
    ASSUME TypeInv, SafeInv, NEW p \in Procs, Start(p) \/ Step(p) \/ TimeOut(p) \/ Crash(p)
    PROVE  \/ WriteMeta(p)
           \/ /\ meta' = meta /\ pc[p] # "done"
              /\ Wrote(p) => Wrote(p)'
              /\ pc'[p] = "done" => p \in meta
<1> USE DEF At, Goto, fsVars, envVars, procVars, dataVars, Wrote, ReleaseLabels
<1>h. Here(p)
  BY Frame, HereHolds DEF Others
<1>f. pc \in [Procs -> Labels] /\ call \in [Procs -> Calls] /\ p \in alive
  BY <1>h DEF Here
<1>1. CASE Start(p) \/ TimeOut(p) \/ Crash(p)
  BY <1>1, <1>f DEF Start, TimeOut, Crash
<1>2. CASE Acquire(p)
  BY <1>2, <1>f DEF Acquire, CreateLock, LockBusy, CheckRecovery, BackOff, WriteOwner,
       WriteOwnerFailed, GetIdentity, CreateRecovery, RecoveryBusy, WriteRecoveryOwner,
       RecoveryOwnerFailed, GetRecoveryIdentity, WriteOwnerAt
<1>3. CASE Quarantine(p)
  <2>r. ASSUME NEW r \in {"yes", "no", "error"}, Return(p, r) PROVE pc'[p] # "done"
    BY <1>f, <2>r DEF Return, Resume
  <2>1. CASE SnapIdentity(p) \/ SnapOwner(p) \/ RecheckIdentity(p) \/ RecheckOwner(p)
    BY <1>f, <2>r, <2>1 DEF SnapIdentity, SnapOwner, RecheckIdentity, RecheckOwner
  <2>2. CASE Claim(p) \/ ClaimStat(p) \/ ClaimRead(p) \/ ClaimRename(p) \/ ClaimRestore(p)
    BY <1>f, <2>r, <2>2 DEF Claim, ClaimStat, ClaimRead, ClaimRename, ClaimRestore
  <2>3. CASE Validate(p) \/ ValidateClaim(p) \/ Rename(p) \/ Unclaim(p) \/ UnclaimRemove(p)
    BY <1>f, <2>r, <2>3 DEF Validate, ValidateClaim, Rename, Unclaim, UnclaimRemove
  <2> QED  BY <1>3, <2>1, <2>2, <2>3 DEF Quarantine
<1>4. CASE ReadMeta(p) \/ Decline(p)
  BY <1>4, <1>f DEF ReadMeta, Decline
<1>5. CASE CheckRelease(p) \/ Release(p)
  <2>1. /\ pc[p] \in {"release", "releaseRename"} /\ meta' = meta
        /\ \/ Released(p)
           \/ pc'[p] = "releaseRename" /\ call'[p] = call[p]
    BY <1>5, <1>f DEF CheckRelease, Release
  <2>2. call[p] = "held" => p \in meta
    BY <1>h, <2>1 DEF Here, DataAt
  <2>3. CASE Released(p)
    <3>1. pc'[p] = "done" <=> call[p] = "held"
      BY <1>f, <2>3 DEF Released
    <3> QED  BY <2>1, <2>2, <3>1
  <2>4. CASE pc'[p] = "releaseRename" /\ call'[p] = call[p]
    BY <2>1, <2>4
  <2> QED  BY <2>1, <2>3, <2>4
<1> QED  BY <1>1, <1>2, <1>3, <1>4, <1>5 DEF Step, Patch

\* A write adds the patch to the metadata as it is.
LEMMA WriteEffect ==
    ASSUME TypeInv, SafeInv, NEW p \in Procs, WriteMeta(p)
    PROVE  /\ meta' = meta \cup {p}
           /\ pc[p] = "write" /\ pc'[p] = "release" /\ call'[p] = "held"
<1>1. p \in alive /\ pc[p] = "write"
  BY DEF WriteMeta, At
<1>2. Here(p)
  BY <1>1, HereHolds
<1> QED  BY <1>1, <1>2 DEF Here, WriteMeta, Goto, DataAt, CallOK

\* Steps of the lock are steps of the store, or invisible.
LEMMA StoreStep ==
    ASSUME TypeInv, SafeInv, OnlyWritten, [Next]_vars
    PROVE  OnlyWritten' /\ [Store!Next]_(Store!vars)
<1> DEFINE returned == {q \in Procs : pc[q] = "done"}
<1>1. ASSUME NEW p \in Procs, Start(p) \/ Step(p) \/ TimeOut(p) \/ Crash(p)
      PROVE  OnlyWritten' /\ [Store!Next]_(Store!vars)
  <2>1. \A q \in Procs \ {p} : pc'[q] = pc[q] /\ call'[q] = call[q]
    BY <1>1, Frame DEF Others
  <2>2. CASE WriteMeta(p)
    <3>1. /\ meta' = meta \cup {p}
          /\ pc[p] = "write" /\ pc'[p] = "release" /\ call'[p] = "held"
      BY <2>2, WriteEffect
    <3>2. OnlyWritten'
      BY <2>1, <3>1 DEF OnlyWritten, Wrote, ReleaseLabels
    <3>3. p \notin meta
      BY <3>1 DEF OnlyWritten, Wrote, ReleaseLabels
    <3>4. returned' = returned
      BY <2>1, <3>1
    <3>5. Store!Apply(p)
      BY <3>1, <3>3, <3>4 DEF Store!Apply
    <3> QED  BY <3>2, <3>5 DEF Store!Next
  <2>3. CASE ~WriteMeta(p)
    <3>1. /\ meta' = meta /\ pc[p] # "done"
          /\ Wrote(p) => Wrote(p)'
          /\ pc'[p] = "done" => p \in meta
      BY <1>1, <2>3, StepEffect
    <3>2. OnlyWritten'
      BY <2>1, <3>1 DEF OnlyWritten, Wrote
    <3>3. CASE pc'[p] = "done"
      <4>1. returned' = returned \cup {p}
        BY <2>1, <3>3
      <4>2. Store!Return(p)
        BY <3>1, <3>3, <4>1 DEF Store!Return
      <4> QED  BY <3>2, <4>2 DEF Store!Next
    <3>4. CASE pc'[p] # "done"
      <4>1. returned' = returned
        BY <2>1, <3>1, <3>4
      <4> QED  BY <3>1, <3>2, <4>1 DEF Store!vars
    <3> QED  BY <3>3, <3>4
  <2> QED  BY <2>2, <2>3
<1>2. CASE UNCHANGED <<pc, call, meta>>
  BY <1>2 DEF OnlyWritten, Wrote, Store!vars
<1>3. ASSUME NEW x \in Paths, AgeDir(x) PROVE UNCHANGED <<pc, call, meta>>
  BY <1>3 DEF AgeDir, procVars, dataVars
<1>4. ASSUME NEW t \in Tokens, Expire(t) PROVE UNCHANGED <<pc, call, meta>>
  BY <1>4 DEF Expire, procVars, dataVars
<1> QED  BY <1>1, <1>2, <1>3, <1>4 DEF Next, vars

\* patch_session_meta, as long as no process dies with the recovery lock, is
\* one atomic read-merge-write per patch, acknowledged after it is in.
THEOREM LockImplements == CleanSpec /\ []NoRecovererDied => ImplementsMetaStore
<1>1. CleanSpec => []Inv
  BY InvInit, InvStep, PTL DEF CleanSpec
<1>2. Init => OnlyWritten /\ Store!Init
  BY DEF Init, OnlyWritten, Store!Init
<1>3. Inv /\ NoRecovererDied /\ OnlyWritten /\ [Next]_vars
        => OnlyWritten' /\ [Store!Next]_(Store!vars)
  BY StoreStep DEF Inv
<1> QED  BY <1>1, <1>2, <1>3, PTL DEF CleanSpec, CleanInit, ImplementsMetaStore, Store!Spec

=============================================================================
