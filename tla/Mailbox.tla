------------------------------ MODULE Mailbox ------------------------------
(***************************************************************************)
(* What project sharing promises a recipient: every message posted to a    *)
(* user is taken for that user once, and messages are taken in the order   *)
(* in which they were posted.  SyncSession implements it.                  *)
(***************************************************************************)
EXTENDS Naturals, Sequences

CONSTANTS Users, MaxShares

VARIABLES
  posted,   \* number of messages posted; the next one gets the next number
  waiting,  \* user -> numbers of the messages that wait for the user
  taken     \* user -> numbers of the messages taken for the user, in order

vars == <<posted, waiting, taken>>

Init ==
  /\ posted = 0
  /\ waiting = [u \in Users |-> <<>>]
  /\ taken = [u \in Users |-> <<>>]

\* A message is posted and waits behind the others.
Post(u) ==
  /\ posted < MaxShares
  /\ posted' = posted + 1
  /\ waiting' = [waiting EXCEPT ![u] = Append(@, posted + 1)]
  /\ UNCHANGED taken

\* A message is posted and taken at once, which may not overtake any other.
PostThrough(u) ==
  /\ posted < MaxShares
  /\ waiting[u] = <<>>
  /\ posted' = posted + 1
  /\ taken' = [taken EXCEPT ![u] = Append(@, posted + 1)]
  /\ UNCHANGED waiting

\* Everything that waits for a user is taken.
TakeAll(u) ==
  /\ taken' = [taken EXCEPT ![u] = @ \o waiting[u]]
  /\ waiting' = [waiting EXCEPT ![u] = <<>>]
  /\ UNCHANGED posted

Next == \E u \in Users : Post(u) \/ PostThrough(u) \/ TakeAll(u)

Spec == Init /\ [][Next]_vars
=============================================================================
