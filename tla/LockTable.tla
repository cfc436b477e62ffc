----------------------------- MODULE LockTable -----------------------------
(***************************************************************************)
(* What the lock service promises until a lock expires for the first time: *)
(* an item has at most one holder, who has it until it is given back on    *)
(* his behalf.  Nothing is promised afterwards.  LockQueue implements it.  *)
(***************************************************************************)
CONSTANTS Users, NoUser, Items

VARIABLES
  holder,    \* item -> its holder, or NoUser
  leaving,   \* user and item of each return that is under way
  lapsed     \* TRUE once a lock has expired

vars == <<holder, leaving, lapsed>>

Init ==
  /\ holder = [i \in Items |-> NoUser]
  /\ leaving = {}
  /\ lapsed = FALSE

\* Only a free item is given out.
Acquire(u, i) ==
  /\ holder[i] = NoUser
  /\ holder' = [holder EXCEPT ![i] = u]
  /\ UNCHANGED <<leaving, lapsed>>

\* Only its holder gives it back.
Release(u, i) ==
  /\ holder[i] = u
  /\ holder' = [holder EXCEPT ![i] = NoUser]
  /\ leaving' = leaving \cup {<<u, i>>}
  /\ UNCHANGED lapsed

\* A return has been recorded, or given up.
Finish ==
  /\ leaving' \subseteq leaving
  /\ UNCHANGED <<holder, lapsed>>

\* A lock expires.
Lapse ==
  /\ lapsed' = TRUE
  /\ UNCHANGED <<holder, leaving>>

Next ==
  \/ /\ ~lapsed
     /\ Finish \/ Lapse \/ \E u \in Users, i \in Items : Acquire(u, i) \/ Release(u, i)
  \/ lapsed /\ lapsed'

Spec == Init /\ [][Next]_vars
=============================================================================
