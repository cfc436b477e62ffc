------------------------------- MODULE MCChat -------------------------------
(***************************************************************************)
(* Small instances of Chat for TLC.                                        *)
(***************************************************************************)
EXTENDS Chat, TLC

\* The room of users 1 and 2.
MCRooms == {<<1, 2>>}

\* Bounds: messages are marked as read in behaviours without connections and
\* readers (neither looks at the state of the other); in those with a reader one
\* user sends all messages (to the reader they are all alike).
Connected == {k \in Sockets : clientUsers[k] # None \/ \E r \in Rooms : k \in joined[r]}
Apart ==
  \/ receipts = {} /\ \A s \in Slots : task[s].kind \in {"none", "send"}
  \/ gone \cup Connected = {} /\ reader = NoReader
OneReads ==
  \/ reader = NoReader
  \/ /\ Cardinality(Connected) <= 1
     /\ \A m \in DOMAIN messages : messages[m].sender = 1
     /\ \A s \in Slots : task[s].user \in {1, None}

Symmetry == Permutations(Sockets) \cup Permutations(Slots)
=============================================================================
