------------------------------ MODULE PatchLock ------------------------------
(***************************************************************************)
(* The cross-process lock that serialises read-merge-write patches of one   *)
(* session's metadata file (rust/climon-store/src/lock.rs and patch.rs).    *)
(*                                                                          *)
(* The lock is a directory, created with mkdir.  A second directory, the    *)
(* recovery lock, serialises the processes that try to take a stale lock    *)
(* away, and a claim file inside a directory guards the window between the  *)
(* last staleness check and the rename that takes the directory away.       *)
(*                                                                          *)
(* One process performs one patch; every system call on a path shared with  *)
(* other processes is a step of its own, and a process may die at any step. *)
(* What a process that died earlier left on disk is an initial state.       *)
(***************************************************************************)
EXTENDS Naturals, FiniteSets

CONSTANTS
    Procs,      \* the processes that patch the metadata
    Ghosts,     \* processes that died before the behaviour starts
    Inodes,     \* identities the file system gives to directories
    None,       \* no identity, no owner, no claim
    ReuseInodes, \* whether a removed directory's identity may be given out again
    Scope,      \* pid scope (host, platform, pid namespace) of each process
    MaxCrashes  \* bound on the processes that die during the behaviour

Tokens == Procs \cup Ghosts
Paths == {"lock", "reclaim"}

ASSUME PatchLockAssumption ==
    /\ Procs \cap Ghosts = {}
    /\ None \notin Tokens \cup Inodes
    /\ MaxCrashes \in Nat
    /\ ReuseInodes \in BOOLEAN
    /\ Inodes \subseteq Nat
    /\ IsFiniteSet(Procs)

VARIABLES
    dir,      \* dir[x]: the directory at path x
    leaked,   \* identities of directories left behind under unique names
    alive,    \* the processes that run
    expired,  \* dead processes whose files are older than stale_ms
    pc,       \* the next system call of each process
    call,     \* which call of quarantine_stale_lock / release_patch_lock is active
    snap,     \* the snapshot quarantine_stale_lock works from
    seen,     \* the claim file read, then the one moved aside
    inst,     \* identity of the directory the process believes it owns
    meta,     \* the patches contained in the metadata file
    copy      \* the metadata as read under the lock

fsVars == <<dir, leaked>>
envVars == <<alive, expired>>
procVars == <<pc, call, snap, seen, inst>>
dataVars == <<meta, copy>>
vars == <<dir, leaked, alive, expired, pc, call, snap, seen, inst, meta, copy>>

----------------------------------------------------------------------------
(* Directories and staleness *)

NoDir == [ino |-> None, owner |-> None, claim |-> None, old |-> FALSE, by |-> None]

\* A path names no directory, or one with an identity; "by" is a history
\* variable, the process that created it.
Dirs == {NoDir} \cup
        [ino : Inodes, owner : Tokens \cup {None},
         claim : Tokens \cup {None}, old : BOOLEAN, by : Tokens \cup {None}]

NoSnap == [ino |-> None, owner |-> None, old |-> FALSE]

Snaps == [ino : Inodes \cup {None}, owner : Tokens \cup {None}, old : BOOLEAN]

Present(x) == dir[x] # NoDir

\* An identity is a device and an inode number.  File systems differ in
\* whether the number of a removed directory is given out again: if not, a new
\* directory differs from every one that some process still remembers.
Remembered == {snap[p].ino : p \in Procs} \cup {inst[p] : p \in Procs}

FreeInodes ==
    Inodes \ ({dir[x].ino : x \in Paths} \cup leaked
               \cup IF ReuseInodes THEN {} ELSE Remembered)

\* Mutants of OwnerStale: a directory without an owner file is taken for stale
\* at once; a pid of another scope is looked up in the reader's own.
OwnerStaleUnnamed(p, owner, old) ==
    IF owner = None THEN TRUE
    ELSE IF Scope[owner] = Scope[p] THEN owner \notin alive
    ELSE owner \in expired

OwnerStaleAnyScope(p, owner, old) ==
    IF owner = None THEN old
    ELSE Scope[owner] # Scope[p] \/ owner \notin alive

\* owner_stale: a named owner in the reader's pid scope is stale when it is
\* dead (or its pid was reused); any other owner, and a missing one, by age.
OwnerStale(p, owner, old) ==
    IF owner = None THEN old
    ELSE IF Scope[owner] = Scope[p] THEN owner \notin alive
    ELSE owner \in expired

\* The directory the active call works on.
Target(p) == IF call[p] \in {"active", "recover"} THEN "reclaim" ELSE "lock"

Goto(p, l) == pc' = [pc EXCEPT ![p] = l]

At(p, l) == p \in alive /\ pc[p] = l

----------------------------------------------------------------------------
(* acquire_patch_lock *)

Start(p) ==
    /\ At(p, "idle")
    /\ Goto(p, "createLock")
    /\ UNCHANGED <<fsVars, envVars, dataVars, call, snap, seen, inst>>

\* fs::create_dir on path x gives the directory an unused identity; which one
\* makes a difference only if it may be one that was used before.
MakeDir(p, x) ==
    \E i \in FreeInodes :
        /\ ReuseInodes \/ \A j \in FreeInodes : i =< j
        /\ dir' = [dir EXCEPT ![x] = [NoDir EXCEPT !.ino = i, !.by = p]]

\* The directory at path x goes away, removed or left behind elsewhere.
Vacate(x, removed) ==
    /\ dir' = [dir EXCEPT ![x] = NoDir]
    /\ leaked' = IF removed \/ ~Present(x) THEN leaked ELSE leaked \cup {dir[x].ino}

\* remove_dir_all_force removes whatever directory the path names now.
RemoveDir(x) == Vacate(x, TRUE)

CreateLock(p) ==
    /\ At(p, "createLock")
    /\ ~Present("lock")
    /\ MakeDir(p, "lock")
    /\ Goto(p, "checkRecovery")
    /\ UNCHANGED <<leaked, envVars, dataVars, call, snap, seen, inst>>

\* The lock exists: try to recover it, or give up at the deadline.
LockBusy(p) ==
    /\ At(p, "createLock")
    /\ Present("lock")
    /\ Goto(p, "createRecovery")
    /\ UNCHANGED <<fsVars, envVars, dataVars, call, snap, seen, inst>>

TimeOut(p) ==
    /\ At(p, "createLock")
    /\ Present("lock")
    /\ Goto(p, "failed")
    /\ UNCHANGED <<fsVars, envVars, dataVars, call, snap, seen, inst>>

\* recovery_active: the creator of the lock yields to a recovery in progress.
CheckRecovery(p) ==
    /\ At(p, "checkRecovery")
    /\ IF Present("reclaim")
         THEN Goto(p, "snapId") /\ call' = [call EXCEPT ![p] = "active"]
         ELSE Goto(p, "writeOwner") /\ UNCHANGED call
    /\ UNCHANGED <<fsVars, envVars, dataVars, snap, seen, inst>>

BackOff(p) ==
    /\ At(p, "backOff")
    /\ RemoveDir("lock")
    /\ \E l \in {"createLock", "failed"} : Goto(p, l)
    /\ UNCHANGED <<envVars, dataVars, call, snap, seen, inst>>

\* write_owner: fails when the directory is gone.
WriteOwnerAt(p, x, ok, gone) ==
    IF Present(x)
      THEN dir' = [dir EXCEPT ![x].owner = p] /\ Goto(p, ok)
      ELSE UNCHANGED dir /\ Goto(p, gone)

WriteOwner(p) ==
    /\ At(p, "writeOwner")
    /\ WriteOwnerAt(p, "lock", "getId", "removeLock")
    /\ UNCHANGED <<leaked, envVars, dataVars, call, snap, seen, inst>>

WriteOwnerFailed(p) ==
    /\ At(p, "removeLock")
    /\ RemoveDir("lock")
    /\ Goto(p, "failed")
    /\ UNCHANGED <<envVars, dataVars, call, snap, seen, inst>>

\* The guard records the identity of the directory the path names now.
GetIdentity(p) ==
    /\ At(p, "getId")
    /\ IF Present("lock")
         THEN /\ Goto(p, "read")
              /\ inst' = [inst EXCEPT ![p] = dir["lock"].ino]
              /\ call' = [call EXCEPT ![p] = "held"]
         ELSE Goto(p, "failed") /\ UNCHANGED <<inst, call>>
    /\ UNCHANGED <<fsVars, envVars, dataVars, snap, seen>>

----------------------------------------------------------------------------
(* patch_queued: read, merge and write under the lock, then release it *)

\* Mutant of ReadMeta: merges into metadata read before the lock was taken.
ReadMetaEarly(p) ==
    /\ At(p, "read")
    /\ Goto(p, "write")
    /\ UNCHANGED <<fsVars, envVars, dataVars, call, snap, seen, inst>>

ReadMeta(p) ==
    /\ At(p, "read")
    /\ copy' = [copy EXCEPT ![p] = meta]
    /\ Goto(p, "write")
    /\ UNCHANGED <<fsVars, envVars, meta, call, snap, seen, inst>>

\* The session does not exist, the patch is rejected by its validation or
\* resolves to nothing, or the write fails: nothing is written.
Decline(p) ==
    /\ At(p, "write")
    /\ call' = [call EXCEPT ![p] = "declined"]
    /\ Goto(p, "release")
    /\ UNCHANGED <<fsVars, envVars, dataVars, snap, seen, inst>>

WriteMeta(p) ==
    /\ At(p, "write")
    /\ meta' = copy[p] \cup {p}
    /\ Goto(p, "release")
    /\ UNCHANGED <<fsVars, envVars, copy, call, snap, seen, inst>>

----------------------------------------------------------------------------
(* release_patch_lock, for the lock and for the recovery lock *)

ReleasePath(p) == IF call[p] \in {"held", "declined"} THEN "lock" ELSE "reclaim"

\* Where the caller goes on after the release.
Released(p) ==
    /\ \/ call[p] = "held" /\ Goto(p, "done")
       \/ call[p] = "main" /\ Goto(p, "createLock")
       \/ call[p] \in {"error", "declined"} /\ Goto(p, "failed")
    /\ call' = [call EXCEPT ![p] = "none"]
    /\ inst' = [inst EXCEPT ![p] = None]

OwnsDir(p, x) == dir[x].ino = inst[p] /\ dir[x].owner = p

\* A torn read of identity and owner cannot match: a token is never in two
\* directories of one path.
CheckRelease(p) ==
    /\ At(p, "release")
    /\ IF OwnsDir(p, ReleasePath(p))
         THEN Goto(p, "releaseRename") /\ UNCHANGED <<call, inst>>
         ELSE Released(p)
    /\ UNCHANGED <<fsVars, envVars, dataVars, snap, seen>>

\* The rename takes whatever the path names; a directory that turns out not
\* to be the caller's stays behind under its new name.  On PermissionDenied
\* the same check is repeated and the directory removed in place.
Release(p) ==
    /\ At(p, "releaseRename")
    /\ Vacate(ReleasePath(p), OwnsDir(p, ReleasePath(p)))
    /\ Released(p)
    /\ UNCHANGED <<envVars, dataVars, snap, seen>>

----------------------------------------------------------------------------
(* recover_stale_if_recovery_owner and acquire_recovery_lock *)

CreateRecovery(p) ==
    /\ At(p, "createRecovery")
    /\ ~Present("reclaim")
    /\ MakeDir(p, "reclaim")
    /\ Goto(p, "writeRecoveryOwner")
    /\ UNCHANGED <<leaked, envVars, dataVars, call, snap, seen, inst>>

RecoveryBusy(p) ==
    /\ At(p, "createRecovery")
    /\ Present("reclaim")
    /\ Goto(p, "snapId")
    /\ call' = [call EXCEPT ![p] = "recover"]
    /\ UNCHANGED <<fsVars, envVars, dataVars, snap, seen, inst>>

WriteRecoveryOwner(p) ==
    /\ At(p, "writeRecoveryOwner")
    /\ WriteOwnerAt(p, "reclaim", "getRecoveryId", "removeRecovery")
    /\ UNCHANGED <<leaked, envVars, dataVars, call, snap, seen, inst>>

RecoveryOwnerFailed(p) ==
    /\ At(p, "removeRecovery")
    /\ RemoveDir("reclaim")
    /\ Goto(p, "failed")
    /\ UNCHANGED <<envVars, dataVars, call, snap, seen, inst>>

GetRecoveryIdentity(p) ==
    /\ At(p, "getRecoveryId")
    /\ IF Present("reclaim")
         THEN /\ Goto(p, "snapId")
              /\ inst' = [inst EXCEPT ![p] = dir["reclaim"].ino]
              /\ call' = [call EXCEPT ![p] = "main"]
         ELSE Goto(p, "failed") /\ UNCHANGED <<inst, call>>
    /\ UNCHANGED <<fsVars, envVars, dataVars, snap, seen>>

----------------------------------------------------------------------------
(* quarantine_stale_lock, on the path of the active call *)

\* Where the acquisition goes on when quarantine_stale_lock returns r to
\* recovery_active or to acquire_recovery_lock.
Resume(p, r) ==
    /\ Goto(p, CASE r = "error" -> "failed"
                 [] r = "yes" -> IF call[p] = "active" THEN "writeOwner" ELSE "createLock"
                 [] r = "no" -> IF call[p] = "active" THEN "backOff" ELSE "createLock")
    /\ call' = [call EXCEPT ![p] = "none"]

\* Mutant of Return: the recovery lock is not released.
ReturnUnreleased(p, r) ==
    /\ Resume(p, r)
    /\ snap' = [snap EXCEPT ![p] = NoSnap]
    /\ seen' = [seen EXCEPT ![p] = None]

\* Return from quarantine_stale_lock with result r to its caller; an error
\* abandons the acquisition, leaving a freshly created lock behind.
Return(p, r) ==
    /\ \/ call[p] # "main" /\ Resume(p, r)
       \/ /\ call[p] = "main"
          /\ Goto(p, "release")
          /\ call' = [call EXCEPT ![p] = IF r = "error" THEN "error" ELSE "main"]
    /\ snap' = [snap EXCEPT ![p] = NoSnap]
    /\ seen' = [seen EXCEPT ![p] = None]

\* get_snapshot reads the directory's identity and age first ...
SnapIdentity(p) ==
    /\ At(p, "snapId")
    /\ LET d == dir[Target(p)] IN
         IF d = NoDir
           THEN Return(p, "no")
           ELSE /\ snap' = [snap EXCEPT ![p] = [ino |-> d.ino, owner |-> None, old |-> d.old]]
                /\ Goto(p, "snapOwner")
                /\ UNCHANGED <<call, seen>>
    /\ UNCHANGED <<fsVars, envVars, dataVars, inst>>

\* ... and the owner file next, of whatever directory the path names then.
SnapOwner(p) ==
    /\ At(p, "snapOwner")
    /\ LET d == dir[Target(p)] IN
         IF OwnerStale(p, d.owner, snap[p].old)
           THEN /\ snap' = [snap EXCEPT ![p].owner = d.owner]
                /\ Goto(p, "recheckId")
                /\ UNCHANGED <<call, seen>>
           ELSE Return(p, "no")
    /\ UNCHANGED <<fsVars, envVars, dataVars, inst>>

RecheckIdentity(p) ==
    /\ At(p, "recheckId")
    /\ LET d == dir[Target(p)] IN
         IF d.ino = snap[p].ino
           THEN /\ snap' = [snap EXCEPT ![p].old = d.old]
                /\ Goto(p, "recheckOwner")
                /\ UNCHANGED <<call, seen>>
           ELSE Return(p, "no")
    /\ UNCHANGED <<fsVars, envVars, dataVars, inst>>

RecheckOwner(p) ==
    /\ At(p, "recheckOwner")
    /\ LET d == dir[Target(p)] IN
         IF d.owner = snap[p].owner /\ OwnerStale(p, d.owner, snap[p].old)
           THEN Goto(p, "claim") /\ UNCHANGED <<call, snap, seen>>
           ELSE Return(p, "no")
    /\ UNCHANGED <<fsVars, envVars, dataVars, inst>>

\* claim_for_reclaim: create the claim file exclusively.
Claim(p) ==
    /\ At(p, "claim")
    /\ LET x == Target(p) IN
         \/ /\ ~Present(x)
            /\ Return(p, "no")
            /\ UNCHANGED dir
         \/ /\ Present(x)
            /\ dir[x].claim = None
            /\ dir' = [dir EXCEPT ![x].claim = p]
            /\ Goto(p, "validate")
            /\ UNCHANGED <<call, snap, seen>>
         \/ /\ Present(x)
            /\ dir[x].claim # None
            /\ Goto(p, "claimStat")
            /\ UNCHANGED <<dir, call, snap, seen>>
    /\ UNCHANGED <<leaked, envVars, dataVars, inst>>

\* get_owner_file_snapshot of the claim that is in the way: a claim gone at
\* the first system call is retried, one gone at the second is an error.
ClaimStat(p) ==
    /\ At(p, "claimStat")
    /\ Goto(p, IF dir[Target(p)].claim = None THEN "claim" ELSE "claimRead")
    /\ UNCHANGED <<fsVars, envVars, dataVars, call, snap, seen, inst>>

ClaimRead(p) ==
    /\ At(p, "claimRead")
    /\ LET c == dir[Target(p)].claim IN
         \/ c = None /\ Return(p, "error")
         \/ c # None /\ ~OwnerStale(p, c, FALSE) /\ Return(p, "no")
         \/ /\ c # None
            /\ OwnerStale(p, c, FALSE)
            /\ seen' = [seen EXCEPT ![p] = c]
            /\ Goto(p, "claimRename")
            /\ UNCHANGED <<call, snap>>
    /\ UNCHANGED <<fsVars, envVars, dataVars, inst>>

\* The claim file of the directory at path x goes away, if there is one.
DropClaim(x) == dir' = IF Present(x) THEN [dir EXCEPT ![x].claim = None] ELSE dir

\* Move the claim aside: the stale one read before is dropped and the claim
\* retried, any other one has to be put back.
ClaimRename(p) ==
    /\ At(p, "claimRename")
    /\ LET x == Target(p)
           c == dir[x].claim
       IN  /\ DropClaim(x)
           /\ IF c \in {None, seen[p]}
                THEN Goto(p, "claim") /\ seen' = [seen EXCEPT ![p] = None]
                ELSE Goto(p, "claimRestore") /\ seen' = [seen EXCEPT ![p] = c]
    /\ UNCHANGED <<leaked, envVars, dataVars, call, snap, inst>>

\* Mutant of ClaimRestore: does not notice that the directory is gone.
ClaimRestoreAnyway(p) ==
    /\ At(p, "claimRestore")
    /\ dir' = [dir EXCEPT ![Target(p)].claim = IF @ = None THEN seen[p] ELSE @]
    /\ Return(p, "no")
    /\ UNCHANGED <<leaked, envVars, dataVars, inst>>

ClaimRestore(p) ==
    /\ At(p, "claimRestore")
    /\ LET x == Target(p) IN
         \/ ~Present(x) /\ Return(p, "error") /\ UNCHANGED dir
         \/ /\ Present(x)
            /\ dir' = [dir EXCEPT ![x].claim = IF @ = None THEN seen[p] ELSE @]
            /\ Return(p, "no")
    /\ UNCHANGED <<leaked, envVars, dataVars, inst>>

\* The last validation: the same directory and owner, then still our claim
\* (which a torn read of identity and owner would not find).
\* Its age is not read again: snapshot_stale is asked about the second snapshot.
Validate(p) ==
    /\ At(p, "validate")
    /\ LET d == dir[Target(p)] IN
         Goto(p, IF d.ino = snap[p].ino /\ d.owner = snap[p].owner
                   THEN "validateClaim" ELSE "unclaim")
    /\ UNCHANGED <<fsVars, envVars, dataVars, call, snap, seen, inst>>

ValidateClaim(p) ==
    /\ At(p, "validateClaim")
    /\ Goto(p, IF dir[Target(p)].claim = p THEN "rename" ELSE "unclaim")
    /\ UNCHANGED <<fsVars, envVars, dataVars, call, snap, seen, inst>>

\* The rename, and the verification of what it took: a directory that is not
\* the one validated stays behind under its new name.
Rename(p) ==
    /\ At(p, "rename")
    /\ LET x == Target(p)
           d == dir[x]
           mine == d.ino = snap[p].ino /\ d.owner = snap[p].owner
       IN  \/ /\ d = NoDir
              /\ Goto(p, "unclaim")
              /\ UNCHANGED <<fsVars, call, snap, seen>>
           \/ /\ d # NoDir
              /\ Vacate(x, mine)
              /\ Return(p, IF mine THEN "yes" ELSE "no")
    /\ UNCHANGED <<envVars, dataVars, inst>>

\* release_reclaim_claim: check the token, then remove the file by its path.
Unclaim(p) ==
    /\ At(p, "unclaim")
    /\ IF dir[Target(p)].claim = p
         THEN Goto(p, "unclaimRemove") /\ UNCHANGED <<call, snap, seen>>
         ELSE Return(p, "no")
    /\ UNCHANGED <<fsVars, envVars, dataVars, inst>>

UnclaimRemove(p) ==
    /\ At(p, "unclaimRemove")
    /\ DropClaim(Target(p))
    /\ Return(p, "no")
    /\ UNCHANGED <<leaked, envVars, dataVars, inst>>

----------------------------------------------------------------------------
(* The environment: crashes and the passing of time *)

Crash(p) ==
    /\ p \in alive
    /\ pc[p] \notin {"done", "failed"}
    /\ Cardinality(Procs \ alive) < MaxCrashes
    /\ alive' = alive \ {p}
    /\ UNCHANGED <<fsVars, expired, procVars, dataVars>>

\* The labels at which the creator of a directory has yet to name itself.
Unnamed(x) == IF x = "lock"
                THEN {"checkRecovery", "backOff", "writeOwner"}
                ELSE {"writeRecoveryOwner"}

\* Creation of a directory in progress: stale_ms (one minute) does not pass
\* between mkdir and the write of owner.json by a process that keeps running.
Naming(x) ==
    /\ dir[x].by \in alive
    /\ \/ pc[dir[x].by] \in Unnamed(x)
       \/ x = "lock" /\ call[dir[x].by] = "active"

AgeDir(x) ==
    /\ Present(x)
    /\ ~dir[x].old
    /\ dir[x].owner = None
    /\ ~Naming(x)
    /\ dir' = [dir EXCEPT ![x].old = TRUE]
    /\ UNCHANGED <<leaked, envVars, procVars, dataVars>>

Expire(t) ==
    /\ t \in Tokens \ (alive \cup expired)
    /\ expired' = expired \cup {t}
    /\ UNCHANGED <<fsVars, alive, procVars, dataVars>>

----------------------------------------------------------------------------

\* What dead processes can leave at a path: nothing, or an old directory with
\* or without its owner file and with or without a claim.
Debris(i) ==
    {NoDir} \cup
    [ino : {i}, owner : Ghosts \cup {None}, claim : Ghosts \cup {None},
     old : {TRUE}, by : {None}]

\* Which two identities the debris has makes no difference.
Init ==
    /\ \E i, j \in Inodes :
         /\ i < j
         /\ \A k \in Inodes : i =< k /\ (i < k => j =< k)
         /\ dir \in {[x \in Paths |-> IF x = "lock" THEN d ELSE e] :
                       d \in Debris(i), e \in Debris(j)}
    /\ leaked = {}
    /\ alive = Procs
    /\ expired \in SUBSET Ghosts
    /\ pc = [p \in Procs |-> "idle"]
    /\ call = [p \in Procs |-> "none"]
    /\ snap = [p \in Procs |-> NoSnap]
    /\ seen = [p \in Procs |-> None]
    /\ inst = [p \in Procs |-> None]
    /\ meta = {}
    /\ copy = [p \in Procs |-> {}]

Acquire(p) ==
    \/ CreateLock(p) \/ LockBusy(p) \/ CheckRecovery(p) \/ BackOff(p)
    \/ WriteOwner(p) \/ WriteOwnerFailed(p) \/ GetIdentity(p)
    \/ CreateRecovery(p) \/ RecoveryBusy(p) \/ WriteRecoveryOwner(p)
    \/ RecoveryOwnerFailed(p) \/ GetRecoveryIdentity(p)

Quarantine(p) ==
    \/ SnapIdentity(p) \/ SnapOwner(p) \/ RecheckIdentity(p) \/ RecheckOwner(p)
    \/ Claim(p) \/ ClaimStat(p) \/ ClaimRead(p) \/ ClaimRename(p) \/ ClaimRestore(p)
    \/ Validate(p) \/ ValidateClaim(p) \/ Rename(p) \/ Unclaim(p) \/ UnclaimRemove(p)

Patch(p) == ReadMeta(p) \/ WriteMeta(p) \/ Decline(p) \/ CheckRelease(p) \/ Release(p)

Step(p) == Acquire(p) \/ Quarantine(p) \/ Patch(p)

Next ==
    \/ \E p \in Procs : Start(p) \/ Step(p) \/ TimeOut(p) \/ Crash(p)
    \/ \E x \in Paths : AgeDir(x)
    \/ \E t \in Tokens : Expire(t)

Spec == Init /\ [][Next]_vars

\* Nobody was recovering when the behaviour starts.
CleanInit == Init /\ dir["reclaim"] = NoDir

CleanSpec == CleanInit /\ [][Next]_vars

\* Running processes keep taking steps, and time passes.
Fairness ==
    /\ \A p \in Procs : WF_vars(Start(p) \/ Step(p))
    /\ \A x \in Paths : WF_vars(AgeDir(x))
    /\ \A t \in Tokens : WF_vars(Expire(t))

FairSpec == Spec /\ Fairness

----------------------------------------------------------------------------
(* Properties *)

Labels ==
    {"idle", "createLock", "checkRecovery", "backOff", "writeOwner", "removeLock",
     "getId", "read", "write", "release", "releaseRename", "createRecovery",
     "writeRecoveryOwner", "removeRecovery", "getRecoveryId", "snapId", "snapOwner",
     "recheckId", "recheckOwner", "claim", "claimStat", "claimRead", "claimRename",
     "claimRestore", "validate", "validateClaim", "rename", "unclaim",
     "unclaimRemove", "done", "failed"}

Calls == {"none", "active", "recover", "main", "error", "held", "declined"}

\* The type of every variable; in particular a path that names no directory
\* carries no owner and no claim, whoever wrote into it last.
TypeOK ==
    /\ dir \in [Paths -> Dirs]
    /\ leaked \subseteq Inodes
    /\ alive \subseteq Procs
    /\ expired \subseteq Tokens
    /\ pc \in [Procs -> Labels]
    /\ call \in [Procs -> Calls]
    /\ snap \in [Procs -> Snaps]
    /\ seen \in [Procs -> Tokens \cup {None}]
    /\ inst \in [Procs -> Inodes \cup {None}]
    /\ meta \subseteq Procs
    /\ copy \in [Procs -> SUBSET Procs]

(* Mutual exclusion of the critical section *)

Holding(p) == p \in alive /\ pc[p] \in {"read", "write"}

\* At most one running process is between reading the metadata file and
\* writing it back (the section acquire_patch_lock guards in patch_queued).
MutualExclusion ==
    \A p, q \in Procs : Holding(p) /\ Holding(q) => p = q

\* A patch whose caller got its answer is in the metadata: no later patch
\* wrote back a copy that was read before it.
NoLostUpdate ==
    \A p \in Procs : pc[p] = "done" => p \in meta

\* Seen from outside, every patch is one atomic step: PatchLock implements
\* MetaStore.
Store == INSTANCE MetaStore WITH
            applied <- meta, returned <- {p \in Procs : pc[p] = "done"}

ImplementsMetaStore == Store!Spec

(* The recovery lock *)

InRecovery(p) ==
    \/ pc[p] \in {"writeRecoveryOwner", "getRecoveryId", "removeRecovery"}
    \/ call[p] \in {"main", "error"}

\* A running process that took the recovery lock and has not yet come to
\* give it back.
Recovering(p) ==
    p \in alive /\ call[p] = "main" /\ pc[p] \notin {"release", "releaseRename"}

\* The recovery lock serialises the processes that quarantine a stale lock:
\* at most one of them is inside quarantine_stale_lock for the main lock.
RecoveryExclusive ==
    \A p, q \in Procs : Recovering(p) /\ Recovering(q) => p = q

\* Both locks are exclusive, over any debris and whoever dies, between two processes
\* and where a removed directory's inode number is not given out again
\* (acquire_patch_lock, acquire_recovery_lock, quarantine_stale_lock).  With three,
\* one that moves aside the claim of another lets the third in: RecoveryExclusive
\* fails.
LocksExclusive == MutualExclusion /\ RecoveryExclusive

\* No process died while it held, or was creating, the recovery lock.
NoRecovererDied == \A p \in Procs \ alive : ~InRecovery(p)

\* However many holders of the lock itself die, and even if the file system
\* gives the number of a removed directory out again, the lock is exclusive
\* and no update is lost, as long as no process dies while it recovers.
SafeUnlessRecovererDied ==
    NoRecovererDied => MutualExclusion /\ NoLostUpdate /\ RecoveryExclusive

(* Progress *)

\* The lock names an owner that no longer runs.
LockDead == dir["lock"].owner \in Tokens \ alive

Waiting(p) == p \in alive /\ pc[p] \notin {"idle", "done", "failed"}

\* A lock whose owner is dead does not stay there while somebody waits for
\* it: recover_stale_if_recovery_owner gets through in the end.
StaleLockReclaimed ==
    (LockDead /\ \E p \in Procs : Waiting(p))
        ~> (~LockDead \/ \A p \in Procs : ~Waiting(p))

\* That holds at least when nobody was recovering at the start, whoever dies
\* with the lock or with the recovery lock later.
ReclaimedFromClean == dir["reclaim"] = NoDir => StaleLockReclaimed

=============================================================================
