----------------------------- MODULE MCFriends -----------------------------
(***************************************************************************)
(* Small instances of Friends for TLC.                                     *)
(***************************************************************************)
EXTENDS Friends, TLC

Symmetry == Permutations(Users) \cup Permutations(Slots) \cup Permutations(Sockets)
=============================================================================
