---------------------------- MODULE MCLockQueue ----------------------------
(***************************************************************************)
(* Small instances of LockQueue for TLC: two users, one of them with two   *)
(* browser tabs where a run has three clients.                             *)
(***************************************************************************)
EXTENDS LockQueue

CONSTANTS u1, u2, c1, c2, c3

TwoClients   == (c1 :> u1) @@ (c2 :> u2)
ThreeClients == TwoClients @@ (c3 :> u1)

Symmetry == Permutations(Items) \cup Permutations(Slots)

\* With three clients the two tabs of u1 are interchangeable too.
SymmetryOfTabs == Symmetry \cup Permutations({c1, c3})

\* The room matters only to queued edits: a run without any lets it be empty
\* or not.
OneInRoom == room \subseteq {c2}
=============================================================================
