-------------------------- MODULE MCProjectContent --------------------------
(***************************************************************************)
(* Small instances of ProjectContent for TLC.                              *)
(***************************************************************************)
EXTENDS ProjectContent, TLC

CONSTANTS u1, u2

E(a, u) == [action |-> a, uuid |-> u]

\* Messages about one note, and one that exchanges a note for another.
MCBatches == {<<E("ADD", u1)>>, <<E("UPDATE", u1)>>, <<E("DELETE", u1)>>,
              <<E("ADD", u2), E("DELETE", u1)>>}

\* Messages that differ in their number only.
MCUpdates == {<<E("UPDATE", u1)>>}

Symmetry == Permutations(Clients) \cup Permutations(Slots)
=============================================================================
