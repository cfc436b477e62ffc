------------------------------ MODULE Friends ------------------------------
(***************************************************************************)
(* Friendships and friend requests (src/src/friend/friend.service.ts) and  *)
(* the notifications about them.                                           *)
(*                                                                         *)
(* A call is a sequence of database queries with an await after each and   *)
(* no transaction around them; a query is one action, together with the    *)
(* code up to the next one.  Queries for the names of users are left out,  *)
(* except that one which delays a notification is a step of its own.  Rows *)
(* are identified by the number of the call that inserted them.            *)
(***************************************************************************)
EXTENDS NotificationGateway

CONSTANTS
  Slots,        \* places for calls in flight
  MaxCalls,     \* bound: calls
  MaxFailures   \* bound: failing writes

ASSUME FriendsConstants == MaxCalls \in Nat /\ MaxFailures \in Nat

VARIABLES
  friends,         \* table friend
  friendRequests,  \* table friend_request
  task,            \* slot -> the call it holds
  calls,           \* number of calls so far
  befriended,      \* requests through which a friend row was inserted
  told,            \* notifications: to which socket, about which request, what
  overlapped,      \* TRUE once a call has started while another was running
  crossed,         \* TRUE once a friend was added past a pending request
  failures         \* number of failed writes

tables == <<friends, friendRequests>>
vars   == <<gateway, tables, task, calls, befriended, told, overlapped, crossed, failures>>

---------------------------------------------------------------------------
\* Rows and calls

Ids      == 1..MaxCalls
Statuses == {"pending", "accepted", "rejected"}
Events   == {"received", "accepted", "rejected", "cancelled"}

Friend        == [id : Ids, user1 : Users, user2 : Users]
FriendRequest == [id : Ids, sender : Users, receiver : Users, status : Statuses]

Pair(u, v)     == {u, v}
Directed(u, v) == {f \in friends : f.user1 = u /\ f.user2 = v}
HasPending(u, v) ==
  \E r \in friendRequests : Pair(r.sender, r.receiver) = Pair(u, v) /\ r.status = "pending"

Kinds == {"none", "add", "remove", "send", "accept", "reject", "cancel"}
PCs   == {"idle", "findFriend", "findReverse", "findPending", "insertFriend", "insertRequest",
          "deleteFriend", "deleteReverse", "findRequest", "mark", "deleteRequest", "tell"}

\* A call of the given kind at query pc, with its number, its caller, the users
\* it is about (from and to), and the request it is about.
CallAt(pc, k, id, c, from, to, r) ==
  [pc |-> pc, kind |-> k, id |-> id, caller |-> c, from |-> from, to |-> to, request |-> r]
NoCall    == CallAt("idle", "none", 0, None, None, None, 0)
At(t, pc) == CallAt(pc, t.kind, t.id, t.caller, t.from, t.to, t.request)

\* Mutant of Found: the users of the request are not taken over.
Found_Bare(t, r) == CallAt(t.pc, t.kind, t.id, t.caller, t.from, t.to, r.id)

\* t, knowing what it needs of the request r it has found.
Found(t, r) == CallAt(t.pc, t.kind, t.id, t.caller, r.sender, r.receiver, r.id)

FreeSlots == {s \in Slots : task[s].pc = "idle"}

Init ==
  /\ GatewayInit
  /\ friends = {}
  /\ friendRequests = {}
  /\ task = [s \in Slots |-> NoCall]
  /\ calls = 0
  /\ befriended = {}
  /\ told = {}
  /\ overlapped = FALSE
  /\ crossed = FALSE
  /\ failures = 0

---------------------------------------------------------------------------
\* Calls arrive

Begin(k, pc, c, from, to, r) ==
  /\ calls < MaxCalls
  /\ calls' = calls + 1
  /\ \E s \in FreeSlots : task' = [task EXCEPT ![s] = CallAt(pc, k, calls + 1, c, from, to, r)]
  /\ overlapped' = (overlapped \/ FreeSlots # Slots)
  /\ UNCHANGED <<gateway, tables, befriended, told, crossed, failures>>

AddFriend(c, v)         == c # v /\ Begin("add", "findFriend", c, c, v, 0)
RemoveFriend(c, v)      == Begin("remove", "deleteFriend", c, c, v, 0)
SendFriendRequest(c, v) == c # v /\ Begin("send", "findFriend", c, c, v, 0)

\* Callers know the ids of the requests they sent or received.
AcceptFriendRequest(c, r) == Begin("accept", "findRequest", c, None, None, r)
RejectFriendRequest(c, r) == Begin("reject", "findRequest", c, None, None, r)
CancelFriendRequest(c, r) == Begin("cancel", "findRequest", c, None, None, r)

---------------------------------------------------------------------------
\* Queries

\* Mutant of After: the request is answered before the friend is saved.
After_MarkFirst(t) ==
  CASE t.pc = "findFriend"    -> "findReverse"
    [] t.pc = "findReverse"   -> IF t.kind = "add" THEN "insertFriend" ELSE "findPending"
    [] t.pc = "findPending"   -> "insertRequest"
    [] t.pc = "deleteFriend"  -> "deleteReverse"
    [] t.pc = "findRequest"   -> IF t.kind = "cancel" THEN "deleteRequest" ELSE "mark"
    [] t.pc = "mark"          -> IF t.kind = "accept" THEN "insertFriend" ELSE "tell"
    [] t.pc = "insertFriend"  -> IF t.kind = "accept" THEN "tell" ELSE "idle"
    [] t.pc = "insertRequest" -> "tell"
    [] OTHER -> "idle"

\* The query that follows when the present one found what it should.
After(t) ==
  CASE t.pc = "findFriend"    -> "findReverse"
    [] t.pc = "findReverse"   -> IF t.kind = "add" THEN "insertFriend" ELSE "findPending"
    [] t.pc = "findPending"   -> "insertRequest"
    [] t.pc = "deleteFriend"  -> "deleteReverse"
    [] t.pc = "findRequest"   -> (CASE t.kind = "accept" -> "insertFriend"
                                    [] t.kind = "reject" -> "mark"
                                    [] t.kind = "cancel" -> "deleteRequest")
    [] t.pc = "insertFriend"  -> IF t.kind = "accept" THEN "mark" ELSE "idle"
    [] t.pc \in {"mark", "insertRequest"} -> "tell"
    [] OTHER -> "idle"

Ended(s) == task' = [task EXCEPT ![s] = NoCall]
GoOn(s)  == IF After(task[s]) = "idle" THEN Ended(s)
            ELSE task' = [task EXCEPT ![s] = At(@, After(@))]

\* A read-only query: the call goes on if ok, and ends with an error if not.
Check(s, pc, ok) ==
  /\ task[s].pc = pc
  /\ IF ok THEN GoOn(s) ELSE Ended(s)
  /\ UNCHANGED <<gateway, tables, calls, befriended, told, overlapped, crossed, failures>>

FindFriend(s)  == Check(s, "findFriend", Directed(task[s].from, task[s].to) = {})

\* Mutant of Reverse: the same direction is looked up twice.
Reverse_Same(t) == Directed(t.from, t.to)
Reverse(t)      == Directed(t.to, t.from)
FindReverse(s)  == Check(s, "findReverse", Reverse(task[s]) = {})
FindPending(s)  == Check(s, "findPending", ~HasPending(task[s].from, task[s].to))

\* Mutant of Answerable: an answered request may be answered again.
Answerable_Again(r, t) == r.id = t.request /\ t.caller = IF t.kind = "cancel" THEN r.sender ELSE r.receiver

\* The pending request a call may answer or cancel.
Answerable(r, t) ==
  /\ r.id = t.request
  /\ r.status = "pending"
  /\ t.caller = IF t.kind = "cancel" THEN r.sender ELSE r.receiver

FindRequest(s) ==
  /\ task[s].pc = "findRequest"
  /\ IF \E r \in friendRequests : Answerable(r, task[s])
       THEN \E r \in friendRequests :
              /\ Answerable(r, task[s])
              /\ task' = [task EXCEPT ![s] = At(Found(@, r), After(@))]
       ELSE Ended(s)
  /\ UNCHANGED <<gateway, tables, calls, befriended, told, overlapped, crossed, failures>>

\* addFriend, or acceptFriendRequest, which does not look whether the two are
\* friends already.
InsertFriend(s) ==
  LET t == task[s] IN
  /\ t.pc = "insertFriend"
  /\ friends' = friends \cup {[id |-> t.id, user1 |-> t.from, user2 |-> t.to]}
  /\ befriended' = IF t.kind = "accept" THEN befriended \cup {t.request} ELSE befriended
  /\ crossed' = (crossed \/ (t.kind = "add" /\ HasPending(t.from, t.to)))
  /\ GoOn(s)
  /\ UNCHANGED <<gateway, friendRequests, calls, told, overlapped, failures>>

DeleteFriend(s) ==
  /\ task[s].pc \in {"deleteFriend", "deleteReverse"}
  /\ friends' = friends \ IF task[s].pc = "deleteFriend" THEN Directed(task[s].from, task[s].to)
                                                         ELSE Reverse(task[s])
  /\ GoOn(s)
  /\ UNCHANGED <<gateway, friendRequests, calls, befriended, told, overlapped, crossed, failures>>

InsertRequest(s) ==
  LET t == task[s] IN
  /\ t.pc = "insertRequest"
  /\ friendRequests' = friendRequests \cup
       {[id |-> t.id, sender |-> t.from, receiver |-> t.to, status |-> "pending"]}
  /\ task' = [task EXCEPT ![s] = CallAt("tell", t.kind, t.id, t.caller, t.from, t.to, t.id)]
  /\ UNCHANGED <<gateway, friends, calls, befriended, told, overlapped, crossed, failures>>

\* Mutant of Marked: the status is not set.
Copy(t, status) == [id |-> t.request, sender |-> t.from, receiver |-> t.to, status |-> status]
Marked_Not(t)   == Copy(t, "pending")

\* save() of the copy of the request with its new status, which inserts the
\* row anew if it was deleted meanwhile.
Marked(t) == Copy(t, IF t.kind = "accept" THEN "accepted" ELSE "rejected")
Mark(s) ==
  /\ task[s].pc = "mark"
  /\ friendRequests' = {r \in friendRequests : r.id # task[s].request} \cup {Marked(task[s])}
  /\ GoOn(s)
  /\ UNCHANGED <<gateway, friends, calls, befriended, told, overlapped, crossed, failures>>

\* Who is told, and what; by now the sockets may be others than when the call
\* came in.
Notified(t) == IF t.kind = "send" THEN {t.to} ELSE {t.from, t.to}
Event(t)    == CASE t.kind = "send"   -> "received"
                 [] t.kind = "accept" -> "accepted"
                 [] t.kind = "reject" -> "rejected"
                 [] t.kind = "cancel" -> "cancelled"
Notifications(t) ==
  UNION {{[socket |-> k, user |-> u, request |-> t.request, event |-> Event(t)] :
            k \in Listeners(u, "friendRequests")} : u \in Notified(t)}

Tell(s) ==
  /\ task[s].pc = "tell"
  /\ told' = told \cup Notifications(task[s])
  /\ Ended(s)
  /\ UNCHANGED <<gateway, tables, calls, befriended, overlapped, crossed, failures>>

\* cancelFriendRequest tells both users as soon as the row is deleted.
DeleteRequest(s) ==
  /\ task[s].pc = "deleteRequest"
  /\ friendRequests' = {r \in friendRequests : r.id # task[s].request}
  /\ told' = told \cup Notifications(task[s])
  /\ Ended(s)
  /\ UNCHANGED <<gateway, friends, calls, befriended, overlapped, crossed, failures>>

\* A write fails, or the process ends before it: what was written before stays.
WriteFails(s) ==
  /\ task[s].pc \in {"insertFriend", "insertRequest", "deleteFriend", "deleteReverse",
                     "mark", "deleteRequest"}
  /\ failures < MaxFailures
  /\ failures' = failures + 1
  /\ Ended(s)
  /\ UNCHANGED <<gateway, tables, calls, befriended, told, overlapped, crossed>>

Call ==
  \E c \in Users :
    \/ \E v \in Users : AddFriend(c, v) \/ RemoveFriend(c, v) \/ SendFriendRequest(c, v)
    \/ \E r \in Ids :
         AcceptFriendRequest(c, r) \/ RejectFriendRequest(c, r) \/ CancelFriendRequest(c, r)

Query(s) ==
  \/ FindFriend(s) \/ FindReverse(s) \/ FindPending(s) \/ FindRequest(s) \/ InsertFriend(s)
  \/ DeleteFriend(s) \/ InsertRequest(s) \/ Mark(s) \/ Tell(s) \/ DeleteRequest(s)

Gateway ==
  /\ GatewayNext
  /\ UNCHANGED <<tables, task, calls, befriended, told, overlapped, crossed, failures>>

Next == Call \/ Gateway \/ \E s \in Slots : Query(s) \/ WriteFails(s)

Spec == Init /\ [][Next]_vars

---------------------------------------------------------------------------
\* Properties

\* Types of the state.
TypeOK ==
  /\ GatewayTypeOK
  /\ friends \subseteq Friend
  /\ friendRequests \subseteq FriendRequest
  /\ \A s \in Slots :
       /\ task[s].pc \in PCs
       /\ task[s].kind \in Kinds
       /\ task[s].id \in 0..calls
       /\ task[s].pc = "idle" <=> task[s].kind = "none"
       /\ task[s].pc \notin {"idle", "findRequest"} => {task[s].from, task[s].to} \subseteq Users
  /\ calls \in 0..MaxCalls
  /\ befriended \subseteq Ids
  /\ told \subseteq [socket : Sockets, user : Users, request : Ids, event : Events]
  /\ failures \in 0..MaxFailures

\* Whoever is told, or can read, that a request is accepted has a friend row
\* that came of it first, whatever fails or interferes.
AcceptedBefriended ==
  /\ \A r \in friendRequests : r.status = "accepted" => r.id \in befriended
  /\ \A n \in told : n.event = "accepted" => n.request \in befriended

\* Both users are told one story: as long as calls do not overlap, a request
\* is announced with one answer - accepted, rejected or cancelled - and it is
\* the one in the table.  (What is told is a set: a repetition is not seen.)
AloneOneAnswer ==
  ~overlapped =>
    \A n \in told : n.event # "received" =>
      /\ \A m \in told : m.request = n.request /\ m.event # "received" => m.event = n.event
      /\ \A r \in friendRequests : r.id = n.request => r.status = n.event

\* As long as calls do not overlap, a pair has one pending request at most,
\* whoever sent it, and one friend row at most, in either direction, unless a
\* friend was added past a pending request that was then accepted, or an
\* accepted request could not be marked.
AloneOnePerPair ==
  ~overlapped =>
    /\ \A q, r \in friendRequests :
         q.status = "pending" /\ r.status = "pending"
           /\ Pair(q.sender, q.receiver) = Pair(r.sender, r.receiver) => q = r
    /\ ~crossed /\ failures = 0 =>
         \A f, g \in friends : Pair(f.user1, f.user2) = Pair(g.user1, g.user2) => f = g

=============================================================================
