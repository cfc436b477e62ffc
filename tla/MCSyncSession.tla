--------------------------- MODULE MCSyncSession ---------------------------
(***************************************************************************)
(* Small instances of SyncSession for TLC.                                 *)
(***************************************************************************)
EXTENDS SyncSession, TLC

Symmetry == Permutations(Users) \cup Permutations(Clients) \cup Permutations(Projects)
=============================================================================
