---------------------------- MODULE MCMembership ----------------------------
(***************************************************************************)
(* A small instance of Membership for TLC.                                 *)
(***************************************************************************)
EXTENDS Membership, TLC

MCNameOf == [p \in Projects |-> "song"]

Symmetry == Permutations(Users) \cup Permutations(Slots) \cup Permutations(Projects)
=============================================================================
