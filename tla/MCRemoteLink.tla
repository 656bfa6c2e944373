---------------------------- MODULE MCRemoteLink ----------------------------
(***************************************************************************)
(* The remote link for TLC.  Connections and sessions are interchangeable   *)
(* in the safety run.                                                       *)
(***************************************************************************)
EXTENDS RemoteLink, TLC

Symmetry == Permutations(Conns) \cup Permutations(Sessions)
=============================================================================
