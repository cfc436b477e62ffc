-------------------------- MODULE MCPatternComments --------------------------
(***************************************************************************)
(* Small instances of PatternComments, and of the requests of Membership   *)
(* within it, for TLC.                                                     *)
(***************************************************************************)
EXTENDS PatternComments, TLC

\* Every project is to have the same name.
MCNameOf == [p \in Projects |-> "song"]

Symmetry == Permutations(Users) \cup Permutations(Slots) \cup Permutations(Projects)
=============================================================================
