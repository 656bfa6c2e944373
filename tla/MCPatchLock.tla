---------------------------- MODULE MCPatchLock ----------------------------
(* Instances of PatchLock for TLC. *)
EXTENDS PatchLock, TLC

CONSTANTS p1

\* Every process sees the pids of every other one.
OneScope == [t \in Tokens |-> "host"]

\* One process lives in a pid scope of its own (a container, the other side of
\* a shared home directory): its locks, and theirs for it, go stale by age.
TwoScopes == [t \in Tokens |-> IF t = p1 THEN "container" ELSE "host"]

ProcSymmetry == Permutations(Procs)
OtherSymmetry == Permutations(Procs \ {p1})
=============================================================================
