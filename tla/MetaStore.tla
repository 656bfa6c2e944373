----------------------------- MODULE MetaStore -----------------------------
(***************************************************************************)
(* What patch_session_meta promises its callers: a patch is applied to the  *)
(* current metadata in one step, a patch that has been applied is never     *)
(* undone by another one, and a call returns only after its patch was       *)
(* applied.  PatchLock, with its lock directories and its crashes, is shown *)
(* to implement this.                                                       *)
(***************************************************************************)
CONSTANT Procs

VARIABLES
    applied,   \* the patches contained in the metadata
    returned   \* the callers whose patch was acknowledged

vars == <<applied, returned>>

Init == applied = {} /\ returned = {}

Apply(p) ==
    /\ p \notin applied
    /\ applied' = applied \cup {p}
    /\ UNCHANGED returned

Return(p) ==
    /\ p \in applied
    /\ returned' = returned \cup {p}
    /\ UNCHANGED applied

Next == \E p \in Procs : Apply(p) \/ Return(p)

Spec == Init /\ [][Next]_vars
=============================================================================
