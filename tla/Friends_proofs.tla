---------------------------- MODULE Friends_proofs ----------------------------
(***************************************************************************)
(* Theorems about Friends for every number of users, sockets, slots and    *)
(* calls, and their proofs.                                                *)
(*                                                                         *)
(* Inv: types, the order of a call's queries, and acceptances that are     *)
(* told of after the friend was inserted.  Alone: as long as calls do not  *)
(* overlap, what the queries of the running call have found still holds.   *)
(***************************************************************************)
EXTENDS Friends, NotificationGateway_proofs

\* The calls that can be at query pc.
KindsAt(pc) ==
  CASE pc = "idle"                            -> {"none"}
    [] pc \in {"findFriend", "findReverse"}   -> {"add", "send"}
    [] pc \in {"findPending", "insertRequest"} -> {"send"}
    [] pc \in {"deleteFriend", "deleteReverse"} -> {"remove"}
    [] pc = "findRequest"                     -> {"accept", "reject", "cancel"}
    [] pc = "insertFriend"                    -> {"add", "accept"}
    [] pc = "mark"                            -> {"accept", "reject"}
    [] pc = "deleteRequest"                   -> {"cancel"}
    [] pc = "tell"                            -> {"send", "accept", "reject"}

CallRecord == [pc : PCs, kind : Kinds, id : 0..MaxCalls, caller : Users \cup {None},
               from : Users \cup {None}, to : Users \cup {None}, request : 0..MaxCalls]

\* What a call knows at query pc: its number, the users it is about, and the
\* request, if it is about one.
CallTyped(t) ==
  /\ t \in CallRecord
  /\ t.kind \in KindsAt(t.pc)
  /\ t.pc # "idle" => t.id \in Ids
  /\ t.pc \notin {"idle", "findRequest"} => t.from \in Users /\ t.to \in Users
  /\ t.pc \in {"findRequest", "mark", "deleteRequest", "tell"} \/ t.kind = "accept"
       => t.request \in Ids

CallsTyped ==
  /\ task \in [Slots -> CallRecord]
  /\ \A s \in Slots : CallTyped(task[s])

\* The call that accepts a request, once it is past the insertion.
Accepting(t) == t.kind = "accept" /\ t.pc \in {"mark", "tell"}

\* The inductive invariant: the queries of a call come in the order of its
\* kind, so that nobody is told of an acceptance, or marks one, who has not
\* inserted the friend.
RowsTyped ==
  /\ friends \subseteq Friend
  /\ friendRequests \subseteq FriendRequest
  /\ befriended \subseteq Ids
  /\ told \subseteq [socket : Sockets, user : Users, request : Ids, event : Events]
NumbersTyped ==
  /\ calls \in 0..MaxCalls
  /\ failures \in 0..MaxFailures
  /\ \A s \in Slots : task[s].id <= calls
AcceptingBefriended == \A s \in Slots : Accepting(task[s]) => task[s].request \in befriended

Inv ==
  /\ GatewayInv /\ CallsTyped /\ RowsTyped /\ NumbersTyped
  /\ AcceptedBefriended /\ AcceptingBefriended

LEMMA InvImpliesTypeOK == Inv => TypeOK
<1> SUFFICES ASSUME Inv, NEW s \in Slots
             PROVE  /\ task[s].pc \in PCs
                    /\ task[s].kind \in Kinds
                    /\ task[s].id \in 0..calls
                    /\ task[s].pc = "idle" <=> task[s].kind = "none"
                    /\ task[s].pc \notin {"idle", "findRequest"}
                         => {task[s].from, task[s].to} \subseteq Users
  BY DEF Inv, GatewayInv, RowsTyped, NumbersTyped, TypeOK
<1>1. CallTyped(task[s]) /\ task[s].id <= calls /\ calls \in Nat
  BY FriendsConstants DEF Inv, CallsTyped, NumbersTyped
<1>2. task[s].pc = "idle" <=> task[s].kind = "none"
  BY <1>1 DEF CallTyped, CallRecord, KindsAt, PCs
<1> QED BY <1>1, <1>2 DEF CallTyped, CallRecord

LEMMA InvInit == Init => Inv
<1> SUFFICES ASSUME Init PROVE Inv
  OBVIOUS
<1>1. GatewayInv
  BY GatewayInvInit DEF Init
<1>2. CallTyped(NoCall) /\ NoCall \in CallRecord /\ NoCall.id = 0
  BY FriendsConstants DEF CallTyped, CallRecord, NoCall, CallAt, KindsAt, PCs, Kinds
<1>3. CallsTyped /\ NumbersTyped
  BY <1>2, FriendsConstants DEF Init, CallsTyped, NumbersTyped
<1>4. RowsTyped /\ AcceptedBefriended /\ AcceptingBefriended
  BY DEF Init, RowsTyped, AcceptedBefriended, AcceptingBefriended, Accepting, NoCall, CallAt
<1> QED BY <1>1, <1>3, <1>4 DEF Inv

---------------------------------------------------------------------------
\* Steps of a call

\* A call in slot s becomes t; what else a step may need to change is left to
\* it.
LEMMA CallReplaced ==
  ASSUME CallsTyped, NEW s \in Slots, NEW t, CallTyped(t),
         task' = [task EXCEPT ![s] = t]
  PROVE  CallsTyped' /\ \A x \in Slots : task'[x] = IF x = s THEN t ELSE task[x]
<1>1. t \in CallRecord
  BY DEF CallTyped
<1>2. task' \in [Slots -> CallRecord] /\ \A x \in Slots : task'[x] = IF x = s THEN t ELSE task[x]
  BY <1>1 DEF CallsTyped
<1>3. \A x \in Slots : CallTyped(task'[x])
  BY <1>2 DEF CallsTyped
<1>4. CallsTyped' <=> task' \in [Slots -> CallRecord] /\ \A x \in Slots : CallTyped(task'[x])
  BY DEF CallsTyped, CallTyped
<1> QED BY <1>2, <1>3, <1>4

LEMMA NoCallTyped == CallTyped(NoCall) /\ NoCall.id = 0 /\ ~Accepting(NoCall)
BY FriendsConstants DEF CallTyped, CallRecord, NoCall, CallAt, KindsAt, PCs, Kinds, Accepting

LEMMA AtTyped ==
  ASSUME NEW t, CallTyped(t), t.pc \notin {"idle", "findRequest", "insertRequest"}, After(t) # "idle"
  PROVE  /\ CallTyped(At(t, After(t)))
         /\ At(t, After(t)).id = t.id /\ At(t, After(t)).kind = t.kind
         /\ At(t, After(t)).request = t.request
         /\ Accepting(At(t, After(t))) => Accepting(t) \/ (t.pc = "insertFriend" /\ t.kind = "accept")
<1>1. /\ At(t, After(t)).id = t.id /\ At(t, After(t)).kind = t.kind
      /\ At(t, After(t)).request = t.request /\ At(t, After(t)).pc = After(t)
      /\ At(t, After(t)).from = t.from /\ At(t, After(t)).to = t.to
      /\ At(t, After(t)).caller = t.caller
  BY DEF At, CallAt
<1>2. /\ t.pc = "findFriend" => After(t) = "findReverse"
      /\ t.pc = "findReverse" => After(t) = IF t.kind = "add" THEN "insertFriend" ELSE "findPending"
      /\ t.pc = "findPending" => After(t) = "insertRequest"
      /\ t.pc = "deleteFriend" => After(t) = "deleteReverse"
      /\ t.pc = "insertFriend" => After(t) = IF t.kind = "accept" THEN "mark" ELSE "idle"
      /\ t.pc = "mark" => After(t) = "tell"
      /\ t.pc \in {"deleteReverse", "deleteRequest", "tell"} => After(t) = "idle"
  BY DEF After
<1>3. After(t) \in PCs /\ t.kind \in KindsAt(After(t))
  BY <1>2 DEF CallTyped, CallRecord, KindsAt, PCs
<1>4. At(t, After(t)) \in CallRecord
  BY <1>3 DEF At, CallAt, CallTyped, CallRecord
<1>5. /\ t.id \in Ids
      /\ t.from \in Users /\ t.to \in Users
      /\ After(t) \in {"findRequest", "mark", "deleteRequest", "tell"} \/ t.kind = "accept"
           => t.request \in Ids
  BY <1>2 DEF CallTyped, CallRecord, KindsAt, PCs
<1>6. CallTyped(At(t, After(t)))
  BY <1>1, <1>3, <1>4, <1>5 DEF CallTyped
<1>7. After(t) \in {"mark", "tell"} => t.pc \in {"insertFriend", "mark"}
  BY <1>2 DEF CallTyped, CallRecord, PCs
<1> QED BY <1>1, <1>6, <1>7 DEF Accepting, CallTyped, CallRecord, KindsAt

\* A call ends, or goes on to its next query.
LEMMA GoOnOrEnd ==
  ASSUME Inv, NEW s \in Slots, task[s].pc \notin {"idle", "findRequest", "insertRequest"},
         GoOn(s) \/ Ended(s)
  PROVE  /\ CallsTyped'
         /\ \A x \in Slots : task'[x].id <= task[x].id
         /\ \A x \in Slots : Accepting(task'[x]) =>
              /\ task'[x].request = task[x].request
              /\ \/ Accepting(task[x])
                 \/ x = s /\ task[s].pc = "insertFriend" /\ task[s].kind = "accept"
<1>0. CallsTyped /\ CallTyped(task[s]) /\ \A x \in Slots : task[x].id \in Nat
  BY FriendsConstants DEF Inv, CallsTyped, CallTyped, CallRecord
<1>1. CASE Ended(s)
  <2>1. task' = [task EXCEPT ![s] = NoCall]
    BY <1>1 DEF Ended
  <2>2. CallsTyped' /\ \A x \in Slots : task'[x] = IF x = s THEN NoCall ELSE task[x]
    BY <1>0, <2>1, NoCallTyped, CallReplaced
  <2> QED BY <1>0, <2>2, NoCallTyped
<1>2. CASE GoOn(s) /\ ~Ended(s)
  <2> DEFINE t == At(task[s], After(task[s]))
  <2>1. After(task[s]) # "idle" /\ task' = [task EXCEPT ![s] = t]
    BY <1>2 DEF GoOn
  <2>2. /\ CallTyped(t) /\ t.id = task[s].id /\ t.kind = task[s].kind
        /\ t.request = task[s].request
        /\ Accepting(t) => \/ Accepting(task[s])
                           \/ (task[s].pc = "insertFriend" /\ task[s].kind = "accept")
    BY <1>0, <2>1, AtTyped
  <2> HIDE DEF t
  <2>3. CallsTyped' /\ \A x \in Slots : task'[x] = IF x = s THEN t ELSE task[x]
    BY <1>0, <2>1, <2>2, CallReplaced
  <2> QED BY <1>0, <2>2, <2>3
<1> QED BY <1>1, <1>2

\* What a step of a call leaves to show, when the other parts are unchanged.
LEMMA NumbersKept ==
  ASSUME Inv, calls' = calls, failures' \in 0..MaxFailures,
         \A x \in Slots : task'[x].id <= task[x].id,
         CallsTyped'
  PROVE  NumbersTyped'
<1>1. \A x \in Slots : task'[x].id \in Nat /\ task[x].id \in Nat
  BY FriendsConstants DEF Inv, CallsTyped, CallRecord
<1>2. calls \in Nat
  BY FriendsConstants DEF Inv, NumbersTyped
<1> QED BY <1>1, <1>2 DEF Inv, NumbersTyped

LEMMA NotificationsTyped ==
  ASSUME Inv, NEW s \in Slots, task[s].pc \in {"tell", "deleteRequest"}
  PROVE  /\ Notifications(task[s]) \subseteq
              [socket : Sockets, user : Users, request : Ids, event : Events]
         /\ \A n \in Notifications(task[s]) :
              n.request = task[s].request
                /\ (n.event = "accepted" => Accepting(task[s]))
<1> DEFINE t == task[s]
<1>1. CallTyped(t)
  BY DEF Inv, CallsTyped
<1>2. t.from \in Users /\ t.to \in Users /\ t.request \in Ids
  BY <1>1 DEF CallTyped
<1>3. t.kind \in {"send", "accept", "reject", "cancel"} /\ (t.pc = "deleteRequest" => t.kind = "cancel")
  BY <1>1 DEF CallTyped, KindsAt
<1>4. Event(t) \in Events /\ (Event(t) = "accepted" => Accepting(t))
  BY <1>3 DEF Event, Events, Accepting
<1>5. Notified(t) \subseteq Users
  BY <1>2 DEF Notified
<1> HIDE DEF t
<1>6. ASSUME NEW n \in Notifications(t)
      PROVE  /\ n \in [socket : Sockets, user : Users, request : Ids, event : Events]
             /\ n.request = t.request /\ n.event = Event(t)
  <2>1. PICK u \in Notified(t) : \E k \in Listeners(u, "friendRequests") :
          n = [socket |-> k, user |-> u, request |-> t.request, event |-> Event(t)]
    BY <1>6 DEF Notifications
  <2>2. u \in Users /\ Listeners(u, "friendRequests") \subseteq Sockets
    BY <1>5, <2>1 DEF Listeners, Inv, GatewayInv, GatewayTypeOK
  <2> QED BY <1>2, <1>4, <2>1, <2>2
<1> QED BY <1>4, <1>6 DEF t

LEMMA InvStep == Inv /\ [Next]_vars => Inv'
<1> SUFFICES ASSUME Inv, [Next]_vars PROVE Inv'
  OBVIOUS
<1> USE FriendsConstants
<1>0. /\ CallsTyped /\ RowsTyped /\ NumbersTyped /\ AcceptedBefriended /\ AcceptingBefriended
      /\ \A x \in Slots : CallTyped(task[x])
      /\ calls \in Nat /\ failures \in Nat
  BY DEF Inv, CallsTyped, NumbersTyped
<1>1. UNCHANGED gateway => GatewayInv'
  BY GatewayInvKept DEF Inv
<1>2. ASSUME UNCHANGED <<friends, friendRequests, task, calls, befriended, told, failures>>
      PROVE  CallsTyped' /\ RowsTyped' /\ NumbersTyped' /\ AcceptedBefriended' /\ AcceptingBefriended'
  BY <1>0, <1>2 DEF CallsTyped, CallTyped, RowsTyped, NumbersTyped, AcceptedBefriended,
                    AcceptingBefriended, Accepting
<1>3. CASE Gateway
  BY <1>2, <1>3, GatewayInvStep DEF Gateway, tables, Inv
<1>4. CASE Call
  <2>1. ASSUME NEW k \in Kinds, NEW pc \in PCs, NEW c \in Users,
               NEW from \in Users \cup {None}, NEW to \in Users \cup {None}, NEW r \in 0..MaxCalls,
               Begin(k, pc, c, from, to, r),
               k \in KindsAt(pc), pc \in {"findFriend", "deleteFriend", "findRequest"},
               pc # "findRequest" => from \in Users /\ to \in Users,
               k = "accept" \/ pc = "findRequest" => r \in Ids
        PROVE  Inv'
    <3> DEFINE t == CallAt(pc, k, calls + 1, c, from, to, r)
    <3>1. PICK s \in FreeSlots : task' = [task EXCEPT ![s] = t]
      BY <2>1 DEF Begin
    <3>2. s \in Slots /\ calls < MaxCalls /\ calls' = calls + 1 /\ calls + 1 \in Ids
      BY <1>0, <2>1, <3>1 DEF FreeSlots, Begin, Ids
    <3>3. CallTyped(t) /\ t.id = calls + 1 /\ ~Accepting(t)
      BY <2>1, <3>2 DEF CallTyped, CallRecord, CallAt, Accepting, Ids
    <3> HIDE DEF t
    <3>4. CallsTyped' /\ \A x \in Slots : task'[x] = IF x = s THEN t ELSE task[x]
      BY <1>0, <3>1, <3>2, <3>3, CallReplaced
    <3>5. \A x \in Slots : task[x].id \in Nat
      BY <1>0 DEF CallsTyped, CallRecord
    <3>6. NumbersTyped'
      BY <1>0, <2>1, <3>2, <3>3, <3>4, <3>5 DEF NumbersTyped, Begin
    <3>7. UNCHANGED <<gateway, friends, friendRequests, befriended, told>>
      BY <2>1 DEF Begin, tables
    <3>8. RowsTyped' /\ AcceptedBefriended' /\ AcceptingBefriended'
      BY <1>0, <3>3, <3>4, <3>7 DEF RowsTyped, AcceptedBefriended, AcceptingBefriended, Accepting
    <3> QED BY <1>1, <3>4, <3>6, <3>7, <3>8 DEF Inv
  <2>2. ASSUME NEW c \in Users, NEW v \in Users,
               AddFriend(c, v) \/ RemoveFriend(c, v) \/ SendFriendRequest(c, v)
        PROVE  Inv'
    <3>1. 0 \in 0..MaxCalls
      OBVIOUS
    <3> QED BY <2>1, <2>2, <3>1 DEF AddFriend, RemoveFriend, SendFriendRequest, KindsAt, PCs, Kinds
  <2>3. ASSUME NEW c \in Users, NEW r \in Ids,
               AcceptFriendRequest(c, r) \/ RejectFriendRequest(c, r) \/ CancelFriendRequest(c, r)
        PROVE  Inv'
    <3>1. r \in 0..MaxCalls
      BY DEF Ids
    <3> QED BY <2>1, <2>3, <3>1 DEF AcceptFriendRequest, RejectFriendRequest, CancelFriendRequest,
                                    KindsAt, PCs, Kinds
  <2> QED BY <1>4, <2>2, <2>3 DEF Call
<1>5. ASSUME NEW s \in Slots, FindFriend(s) \/ FindReverse(s) \/ FindPending(s)
      PROVE  Inv'
  <2>1. /\ task[s].pc \in {"findFriend", "findReverse", "findPending"} /\ (GoOn(s) \/ Ended(s))
        /\ UNCHANGED <<gateway, friends, friendRequests, calls, befriended, told, failures>>
    BY <1>5 DEF FindFriend, FindReverse, FindPending, Check, tables
  <2>2. /\ CallsTyped' /\ \A x \in Slots : task'[x].id <= task[x].id
        /\ \A x \in Slots : Accepting(task'[x]) =>
             task'[x].request = task[x].request /\ Accepting(task[x])
    BY <2>1, GoOnOrEnd
  <2>3. NumbersTyped'
    BY <1>0, <2>1, <2>2, NumbersKept DEF NumbersTyped
  <2>4. RowsTyped' /\ AcceptedBefriended' /\ AcceptingBefriended'
    BY <1>0, <2>1, <2>2 DEF RowsTyped, AcceptedBefriended, AcceptingBefriended, Accepting
  <2> QED BY <1>1, <2>1, <2>2, <2>3, <2>4 DEF Inv
<1>6. ASSUME NEW s \in Slots, FindRequest(s)
      PROVE  Inv'
  <2>1. /\ task[s].pc = "findRequest"
        /\ UNCHANGED <<gateway, friends, friendRequests, calls, befriended, told, failures>>
    BY <1>6 DEF FindRequest, tables
  <2>2. PICK t : /\ task' = [task EXCEPT ![s] = t] /\ CallTyped(t) /\ t.id <= task[s].id
                 /\ ~Accepting(t)
    <3>1. task[s].id \in Nat
      BY <1>0 DEF CallTyped, CallRecord
    <3>2. CASE Ended(s)
      <4>1. /\ task' = [task EXCEPT ![s] = NoCall] /\ CallTyped(NoCall) /\ NoCall.id <= task[s].id
            /\ ~Accepting(NoCall)
        BY <3>1, <3>2, NoCallTyped DEF Ended
      <4> QED BY <4>1, Zenon
    <3>3. CASE ~Ended(s)
      <4>1. PICK r \in friendRequests :
              task' = [task EXCEPT ![s] = At(Found(task[s], r), After(task[s]))]
        BY <1>6, <3>3 DEF FindRequest
      <4> DEFINE t == At(Found(task[s], r), After(task[s]))
      <4>2. r.sender \in Users /\ r.receiver \in Users /\ r.id \in Ids
        BY <1>0 DEF RowsTyped, FriendRequest
      <4>3. task[s] \in CallRecord /\ task[s].kind \in {"accept", "reject", "cancel"} /\ task[s].id \in Ids
        BY <1>0, <2>1 DEF CallTyped, KindsAt
      <4>4. After(task[s]) = CASE task[s].kind = "accept" -> "insertFriend"
                               [] task[s].kind = "reject" -> "mark"
                               [] task[s].kind = "cancel" -> "deleteRequest"
        BY <2>1 DEF After
      <4>5. After(task[s]) \in {"insertFriend", "mark", "deleteRequest"}
            /\ task[s].kind \in KindsAt(After(task[s]))
            /\ (task[s].kind = "accept" => After(task[s]) = "insertFriend")
        BY <4>3, <4>4 DEF KindsAt
      <4>6. /\ t.pc = After(task[s]) /\ t.kind = task[s].kind /\ t.id = task[s].id
            /\ t.from = r.sender /\ t.to = r.receiver /\ t.request = r.id
        BY DEF At, Found, CallAt
      <4>7. t \in CallRecord
        BY <4>2, <4>3, <4>5 DEF At, Found, CallAt, CallRecord, PCs, Ids
      <4> HIDE DEF t
      <4>8. CallTyped(t) /\ ~Accepting(t)
        BY <4>2, <4>3, <4>5, <4>6, <4>7 DEF CallTyped, Accepting
      <4>9. task' = [task EXCEPT ![s] = t] /\ t.id <= task[s].id
        BY <3>1, <4>1, <4>6 DEF t
      <4> QED BY <4>8, <4>9, Zenon
    <3> QED BY <3>2, <3>3
  <2>3. CallsTyped' /\ \A x \in Slots : task'[x] = IF x = s THEN t ELSE task[x]
    BY <1>0, <2>2, CallReplaced
  <2>4. \A x \in Slots : task[x].id \in Nat
    BY <1>0 DEF CallsTyped, CallRecord
  <2>5. NumbersTyped'
    BY <1>0, <2>1, <2>2, <2>3, <2>4, NumbersKept DEF NumbersTyped
  <2>6. RowsTyped' /\ AcceptedBefriended' /\ AcceptingBefriended'
    BY <1>0, <2>1, <2>2, <2>3 DEF RowsTyped, AcceptedBefriended, AcceptingBefriended, Accepting
  <2> QED BY <1>1, <2>1, <2>3, <2>5, <2>6 DEF Inv
<1>7. ASSUME NEW s \in Slots, InsertFriend(s)
      PROVE  Inv'
  <2> DEFINE t == task[s]
             f == [id |-> t.id, user1 |-> t.from, user2 |-> t.to]
  <2>1. /\ t.pc = "insertFriend" /\ GoOn(s) /\ friends' = friends \cup {f}
        /\ befriended' = IF t.kind = "accept" THEN befriended \cup {t.request} ELSE befriended
        /\ UNCHANGED <<gateway, friendRequests, calls, told, failures>>
    BY <1>7 DEF InsertFriend
  <2>2. /\ CallsTyped' /\ \A x \in Slots : task'[x].id <= task[x].id
        /\ \A x \in Slots : Accepting(task'[x]) =>
             /\ task'[x].request = task[x].request
             /\ Accepting(task[x]) \/ (x = s /\ t.kind = "accept")
    BY <2>1, GoOnOrEnd
  <2>3. NumbersTyped'
    BY <1>0, <2>1, <2>2, NumbersKept DEF NumbersTyped
  <2>4. t.id \in Ids /\ t.from \in Users /\ t.to \in Users /\ (t.kind = "accept" => t.request \in Ids)
    BY <1>0, <2>1 DEF CallTyped
  <2>5. f \in Friend
    BY <2>4 DEF Friend
  <2> HIDE DEF f
  <2>6. RowsTyped'
    BY <1>0, <2>1, <2>4, <2>5 DEF RowsTyped
  <2>7. befriended \subseteq befriended' /\ (t.kind = "accept" => t.request \in befriended')
    BY <2>1
  <2>8. AcceptedBefriended' /\ AcceptingBefriended'
    <3> HIDE DEF t
    <3>1. friendRequests' = friendRequests /\ told' = told
      BY <2>1
    <3>2. AcceptedBefriended'
      BY <1>0, <2>7, <3>1 DEF AcceptedBefriended
    <3>3. ASSUME NEW x \in Slots, Accepting(task'[x])
          PROVE  task'[x].request \in befriended'
      BY <1>0, <2>2, <2>7, <3>3 DEF AcceptingBefriended, t
    <3> QED BY <3>2, <3>3 DEF AcceptingBefriended, Accepting
  <2> QED BY <1>1, <2>1, <2>2, <2>3, <2>6, <2>8 DEF Inv
<1>8. ASSUME NEW s \in Slots, DeleteFriend(s)
      PROVE  Inv'
  <2>1. /\ task[s].pc \in {"deleteFriend", "deleteReverse"} /\ GoOn(s) /\ friends' \subseteq friends
        /\ UNCHANGED <<gateway, friendRequests, calls, befriended, told, failures>>
    BY <1>8 DEF DeleteFriend
  <2>2. /\ CallsTyped' /\ \A x \in Slots : task'[x].id <= task[x].id
        /\ \A x \in Slots : Accepting(task'[x]) =>
             task'[x].request = task[x].request /\ Accepting(task[x])
    BY <2>1, GoOnOrEnd
  <2>3. NumbersTyped'
    BY <1>0, <2>1, <2>2, NumbersKept DEF NumbersTyped
  <2>4. RowsTyped' /\ AcceptedBefriended' /\ AcceptingBefriended'
    BY <1>0, <2>1, <2>2 DEF RowsTyped, AcceptedBefriended, AcceptingBefriended, Accepting
  <2> QED BY <1>1, <2>1, <2>2, <2>3, <2>4 DEF Inv
<1>9. ASSUME NEW s \in Slots, InsertRequest(s)
      PROVE  Inv'
  <2> DEFINE t == task[s]
             q == CallAt("tell", t.kind, t.id, t.caller, t.from, t.to, t.id)
             r == [id |-> t.id, sender |-> t.from, receiver |-> t.to, status |-> "pending"]
  <2>1. /\ t.pc = "insertRequest" /\ task' = [task EXCEPT ![s] = q]
        /\ friendRequests' = friendRequests \cup {r}
        /\ UNCHANGED <<gateway, friends, calls, befriended, told, failures>>
    BY <1>9 DEF InsertRequest
  <2>2. t \in CallRecord /\ t.kind = "send" /\ t.id \in Ids /\ t.from \in Users /\ t.to \in Users
    BY <1>0, <2>1 DEF CallTyped, KindsAt
  <2>3. /\ q.pc = "tell" /\ q.kind = t.kind /\ q.id = t.id /\ q.from = t.from /\ q.to = t.to
        /\ q.request = t.id /\ q \in CallRecord
    BY <2>2 DEF CallAt, CallRecord, PCs, Ids
  <2>4. r \in FriendRequest /\ r.status = "pending"
    BY <2>2 DEF FriendRequest, Statuses
  <2> HIDE DEF q, r, t
  <2>5. CallTyped(q) /\ ~Accepting(q)
    BY <2>2, <2>3 DEF CallTyped, KindsAt, Accepting
  <2>6. CallsTyped' /\ \A x \in Slots : task'[x] = IF x = s THEN q ELSE task[x]
    BY <1>0, <2>1, <2>5, CallReplaced
  <2>7. \A x \in Slots : task[x].id \in Nat
    BY <1>0 DEF CallsTyped, CallRecord
  <2>8. NumbersTyped'
    BY <1>0, <2>1, <2>3, <2>6, <2>7, NumbersKept DEF NumbersTyped, t
  <2>9. RowsTyped' /\ AcceptedBefriended' /\ AcceptingBefriended'
    BY <1>0, <2>1, <2>4, <2>5, <2>6 DEF RowsTyped, AcceptedBefriended, AcceptingBefriended, Accepting
  <2> QED BY <1>1, <2>1, <2>6, <2>8, <2>9 DEF Inv
<1>10. ASSUME NEW s \in Slots, Mark(s)
       PROVE  Inv'
  <2> DEFINE t == task[s]
             r == Marked(t)
  <2>1. /\ t.pc = "mark" /\ GoOn(s)
        /\ friendRequests' = {q \in friendRequests : q.id # t.request} \cup {r}
        /\ UNCHANGED <<gateway, friends, calls, befriended, told, failures>>
    BY <1>10 DEF Mark
  <2>2. /\ CallsTyped' /\ \A x \in Slots : task'[x].id <= task[x].id
        /\ \A x \in Slots : Accepting(task'[x]) =>
             task'[x].request = task[x].request /\ Accepting(task[x])
    BY <2>1, GoOnOrEnd
  <2>3. NumbersTyped'
    BY <1>0, <2>1, <2>2, NumbersKept DEF NumbersTyped
  <2>4. t.request \in Ids /\ t.from \in Users /\ t.to \in Users
    BY <1>0, <2>1 DEF CallTyped
  <2>5. /\ r \in FriendRequest /\ r.id = t.request
        /\ r.status = "accepted" => t.kind = "accept"
    BY <2>4 DEF Marked, Copy, FriendRequest, Statuses
  <2>6. r.status = "accepted" => r.id \in befriended
    BY <1>0, <2>1, <2>5 DEF AcceptingBefriended, Accepting
  <2> HIDE DEF t, r
  <2>7. RowsTyped' /\ AcceptedBefriended' /\ AcceptingBefriended'
    BY <1>0, <2>1, <2>2, <2>5, <2>6 DEF RowsTyped, AcceptedBefriended, AcceptingBefriended, Accepting
  <2> QED BY <1>1, <2>1, <2>2, <2>3, <2>7 DEF Inv
<1>11. ASSUME NEW s \in Slots, Tell(s) \/ DeleteRequest(s)
       PROVE  Inv'
  <2>1. /\ task[s].pc \in {"tell", "deleteRequest"} /\ Ended(s)
        /\ told' = told \cup Notifications(task[s])
        /\ friendRequests' \subseteq friendRequests
        /\ UNCHANGED <<gateway, friends, calls, befriended, failures>>
    BY <1>11 DEF Tell, DeleteRequest, tables
  <2>2. /\ CallsTyped' /\ \A x \in Slots : task'[x].id <= task[x].id
        /\ \A x \in Slots : Accepting(task'[x]) =>
             task'[x].request = task[x].request /\ Accepting(task[x])
    BY <2>1, GoOnOrEnd
  <2>3. NumbersTyped'
    BY <1>0, <2>1, <2>2, NumbersKept DEF NumbersTyped
  <2>4. /\ Notifications(task[s]) \subseteq
             [socket : Sockets, user : Users, request : Ids, event : Events]
        /\ \A n \in Notifications(task[s]) :
             n.request = task[s].request /\ (n.event = "accepted" => Accepting(task[s]))
    BY <2>1, NotificationsTyped
  <2>5. RowsTyped'
    BY <1>0, <2>1, <2>4 DEF RowsTyped
  <2>6. AcceptedBefriended' /\ AcceptingBefriended'
    BY <1>0, <2>1, <2>2, <2>4 DEF AcceptedBefriended, AcceptingBefriended, Accepting
  <2> QED BY <1>1, <2>1, <2>2, <2>3, <2>5, <2>6 DEF Inv
<1>12. ASSUME NEW s \in Slots, WriteFails(s)
       PROVE  Inv'
  <2>1. /\ task' = [task EXCEPT ![s] = NoCall] /\ failures' \in 0..MaxFailures
        /\ UNCHANGED <<gateway, friends, friendRequests, calls, befriended, told>>
    BY <1>0, <1>12 DEF WriteFails, Ended, tables
  <2>2. CallsTyped' /\ \A x \in Slots : task'[x] = IF x = s THEN NoCall ELSE task[x]
    BY <1>0, <2>1, NoCallTyped, CallReplaced
  <2>3. \A x \in Slots : task[x].id \in Nat
    BY <1>0 DEF CallsTyped, CallRecord
  <2>4. NumbersTyped'
    BY <1>0, <2>1, <2>2, <2>3, NoCallTyped, NumbersKept
  <2>5. RowsTyped' /\ AcceptedBefriended' /\ AcceptingBefriended'
    BY <1>0, <2>1, <2>2, NoCallTyped DEF RowsTyped, AcceptedBefriended, AcceptingBefriended, Accepting
  <2> QED BY <1>1, <2>1, <2>2, <2>4, <2>5 DEF Inv
<1>13. CASE UNCHANGED vars
  BY <1>1, <1>2, <1>13 DEF vars, tables, Inv
<1> QED BY <1>3, <1>4, <1>5, <1>6, <1>7, <1>8, <1>9, <1>10, <1>11, <1>12, <1>13 DEF Next, Query

---------------------------------------------------------------------------
\* One call at a time: both users are told one story, and a pair has one row

\* What the queries of call t have found so far, in friends F and requests R,
\* still holds when no other call runs.  The call's own number is not in use
\* before it inserts its request: not in R, and not in answers told in N.
FoundFriends(t, F) ==
  /\ t.pc = "findReverse" => \A f \in F : ~(f.user1 = t.from /\ f.user2 = t.to)
  /\ t.pc \in {"findPending", "insertRequest"} \/ (t.pc = "insertFriend" /\ t.kind = "add")
       => \A f \in F : Pair(f.user1, f.user2) # Pair(t.from, t.to)
FoundRequests(t, R) ==
  /\ t.pc = "insertRequest" =>
       \A r \in R : r.status = "pending" => Pair(r.sender, r.receiver) # Pair(t.from, t.to)
  /\ t.pc \in {"mark", "deleteRequest"} \/ (t.pc = "insertFriend" /\ t.kind = "accept")
       => Copy(t, "pending") \in R
  /\ t.pc = "tell" /\ t.kind # "send" => Copy(t, Event(t)) \in R
Unused(t, R, N) ==
  t.kind = "send" /\ t.pc # "tell" =>
    /\ \A r \in R : r.id # t.id
    /\ \A n \in N : n.event # "received" => n.request # t.id
Knows(t, F, R, N) == FoundFriends(t, F) /\ FoundRequests(t, R) /\ Unused(t, R, N)

OneBusy == \A s, x \in Slots : task[s].pc # "idle" /\ task[x].pc # "idle" => s = x

\* Numbers of requests are given out once.
Given(R, N, c) ==
  /\ \A r \in R : r.id <= c
  /\ \A n \in N : n.event # "received" => n.request <= c
  /\ \A q, r \in R : q.id = r.id => q = r

\* What AloneOneAnswer and AloneOnePerPair say of the tables.
OneAnswer(R, N) ==
  \A n \in N : n.event # "received" =>
    /\ \A m \in N : m.request = n.request /\ m.event # "received" => m.event = n.event
    /\ \A r \in R : r.id = n.request => r.status = n.event
OnePending(R) ==
  \A q, r \in R :
    q.status = "pending" /\ r.status = "pending"
      /\ Pair(q.sender, q.receiver) = Pair(r.sender, r.receiver) => q = r
OneFriend(F) == \A f, g \in F : Pair(f.user1, f.user2) = Pair(g.user1, g.user2) => f = g

\* Two friends have no pending request, except the one that a call has inserted
\* the friend for, and is about to mark.
Marking(t, r) == t.pc = "mark" /\ t.kind = "accept" /\ t.request = r.id
Apart(F, R, t) ==
  \A r \in R : \A f \in F :
    r.status = "pending" /\ Pair(r.sender, r.receiver) = Pair(f.user1, f.user2) => Marking(t, r)
\* The busy call if there is one; any idle one if there is not.
AllApart == \A s \in Slots : (\A x \in Slots : x # s => task[x].pc = "idle")
                               => Apart(friends, friendRequests, task[s])

Alone ==
  ~overlapped =>
    /\ OneBusy
    /\ \A s \in Slots : Knows(task[s], friends, friendRequests, told)
    /\ Given(friendRequests, told, calls)
    /\ OneAnswer(friendRequests, told)
    /\ OnePending(friendRequests)
    /\ ~crossed /\ failures = 0 => OneFriend(friends) /\ AllApart

LEMMA SamePair ==
  ASSUME NEW u, NEW v, NEW x, NEW y
  PROVE  Pair(u, v) = Pair(x, y) <=> (u = x /\ v = y) \/ (u = y /\ v = x)
BY DEF Pair

LEMMA IdleKnows ==
  ASSUME NEW t, CallTyped(t), t.pc = "idle", NEW F, NEW R, NEW N
  PROVE  Knows(t, F, R, N)
<1>1. t.kind = "none"
  BY DEF CallTyped, KindsAt
<1> QED BY <1>1 DEF Knows, FoundFriends, FoundRequests, Unused

\* The only call, in slot s, becomes t.
Becomes(s, t) ==
  /\ \A x \in Slots : x # s => task[x].pc = "idle"
  /\ \A x \in Slots : task'[x] = IF x = s THEN t ELSE task[x]

LEMMA AloneBecomes ==
  ASSUME Inv, NEW s \in Slots, NEW t, Becomes(s, t),
         Knows(t, friends', friendRequests', told'),
         Given(friendRequests', told', calls'),
         OneAnswer(friendRequests', told'),
         OnePending(friendRequests'),
         ~crossed' /\ failures' = 0 => OneFriend(friends') /\ Apart(friends', friendRequests', t)
  PROVE  Alone'
<1>1. OneBusy'
  BY DEF OneBusy, Becomes
<1>2. ASSUME NEW x \in Slots
      PROVE  Knows(task'[x], friends', friendRequests', told')
  <2>1. CASE x = s
    BY <2>1 DEF Becomes
  <2>2. CASE x # s
    <3>1. task'[x] = task[x] /\ task[x].pc = "idle" /\ CallTyped(task[x])
      BY <2>2 DEF Becomes, Inv, CallsTyped
    <3>2. Knows(task[x], friends', friendRequests', told')
      BY <3>1, IdleKnows
    <3> QED BY <3>1, <3>2
  <2> QED BY <2>1, <2>2
<1>3. ASSUME Apart(friends', friendRequests', t)
      PROVE  AllApart'
  <2> SUFFICES ASSUME NEW x \in Slots, \A y \in Slots : y # x => task'[y].pc = "idle"
               PROVE  Apart(friends', friendRequests', task'[x])
    BY DEF AllApart
  <2>1. CASE x = s
    BY <1>3, <2>1 DEF Becomes
  <2>2. CASE x # s
    <3>1. task'[s] = t /\ t.pc = "idle"
      BY <2>2 DEF Becomes
    <3> QED BY <1>3, <3>1 DEF Apart, Marking
  <2> QED BY <2>1, <2>2
<1> QED BY <1>1, <1>2, <1>3 DEF Alone

\* The call in slot s is the only one, and becomes t.
LEMMA TaskReplaced ==
  ASSUME Inv, OneBusy, NEW s \in Slots, task[s].pc # "idle",
         NEW t, task' = [task EXCEPT ![s] = t]
  PROVE  Becomes(s, t)
BY DEF Becomes, OneBusy, Inv, CallsTyped

\* t, at its next query.
Goes(a, t) ==
  /\ a.pc = After(t) /\ a.pc # "idle"
  /\ a.kind = t.kind /\ a.id = t.id /\ a.from = t.from /\ a.to = t.to /\ a.request = t.request

LEMMA CallGoesOn ==
  ASSUME Inv, OneBusy, NEW s \in Slots, task[s].pc # "idle", GoOn(s) \/ Ended(s)
  PROVE  \E t : Becomes(s, t) /\ (t = NoCall \/ (GoOn(s) /\ Goes(t, task[s])))
<1>1. CASE Ended(s)
  <2>1. Becomes(s, NoCall)
    BY <1>1, TaskReplaced DEF Ended
  <2> QED BY <2>1
<1>2. CASE GoOn(s) /\ ~Ended(s)
  <2>1. After(task[s]) # "idle" /\ task' = [task EXCEPT ![s] = At(task[s], After(task[s]))]
    BY <1>2 DEF GoOn
  <2>2. Becomes(s, At(task[s], After(task[s])))
    BY <2>1, TaskReplaced
  <2>3. Goes(At(task[s], After(task[s])), task[s])
    BY <2>1 DEF Goes, At, CallAt
  <2> QED BY <1>2, <2>2, <2>3
<1> QED BY <1>1, <1>2

LEMMA NoCallKnows == \A F, R, N : Knows(NoCall, F, R, N)
BY NoCallTyped, IdleKnows DEF NoCall, CallAt

\* What is known of the tables, and of the call in slot s, when it makes a step.
Before(s) ==
  /\ ~overlapped /\ OneBusy
  /\ CallTyped(task[s])
  /\ Knows(task[s], friends, friendRequests, told)
  /\ Given(friendRequests, told, calls)
  /\ OneAnswer(friendRequests, told)
  /\ OnePending(friendRequests)
  /\ ~crossed /\ failures = 0 => OneFriend(friends) /\ Apart(friends, friendRequests, task[s])

LEMMA BeforeStep ==
  ASSUME Inv, Alone, ~overlapped, NEW s \in Slots, task[s].pc # "idle"
  PROVE  Before(s)
<1>1. \A x \in Slots : x # s => task[x].pc = "idle"
  BY DEF Alone, OneBusy
<1>2. AllApart => Apart(friends, friendRequests, task[s])
  BY <1>1 DEF AllApart
<1>3. CallTyped(task[s])
  BY DEF Inv, CallsTyped
<1> QED BY <1>2, <1>3 DEF Alone, Before

LEMMA AloneCheck ==
  ASSUME Inv, NEW s \in Slots, Before(s),
         FindFriend(s) \/ FindReverse(s) \/ FindPending(s)
  PROVE  Alone'
<1> DEFINE c == task[s]
<1>1. /\ c.pc \in {"findFriend", "findReverse", "findPending"}
      /\ GoOn(s) \/ Ended(s)
      /\ UNCHANGED <<friends, friendRequests, calls, told, crossed, failures>>
  BY DEF FindFriend, FindReverse, FindPending, Check, tables
<1>2. PICK t : Becomes(s, t) /\ (t = NoCall \/ (GoOn(s) /\ Goes(t, c)))
  BY <1>1, CallGoesOn DEF Before
<1>3. Apart(friends, friendRequests, c) => Apart(friends, friendRequests, t)
  BY <1>1 DEF Apart, Marking
<1>4. Knows(t, friends, friendRequests, told)
  <2>1. CASE t = NoCall
    BY <2>1, NoCallKnows
  <2>2. CASE Goes(t, c) /\ t # NoCall
    <3>1. c.kind \in {"add", "send"}
      BY <1>1 DEF Before, CallTyped, KindsAt
    <3>2. ~Ended(s)
      <4>1. task'[s] = t
        BY <1>2 DEF Becomes
      <4>2. Ended(s) => task'[s] = NoCall
        BY DEF Ended, Inv, CallsTyped
      <4> QED BY <2>2, <4>1, <4>2
    <3>3. Unused(t, friendRequests, told)
      BY <1>1, <2>2 DEF Before, Knows, Unused, Goes
    <3>4. CASE c.pc = "findFriend"
      <4>1. t.pc = "findReverse"
        BY <2>2, <3>4 DEF Goes, After
      <4>2. Directed(c.from, c.to) = {}
        BY <3>2, <3>4 DEF FindFriend, FindReverse, FindPending, Check
      <4>3. FoundFriends(t, friends)
        BY <2>2, <4>1, <4>2 DEF FoundFriends, Goes, Directed
      <4>4. FoundRequests(t, friendRequests)
        BY <4>1 DEF FoundRequests
      <4> QED BY <3>3, <4>3, <4>4 DEF Knows
    <3>5. CASE c.pc = "findReverse"
      <4>1. t.pc = IF t.kind = "add" THEN "insertFriend" ELSE "findPending"
        BY <2>2, <3>5 DEF Goes, After
      <4>2. Directed(c.to, c.from) = {}
        BY <3>2, <3>5 DEF FindFriend, FindReverse, FindPending, Check, Reverse
      <4>3. \A f \in friends : ~(f.user1 = c.from /\ f.user2 = c.to)
        BY <3>5 DEF Before, Knows, FoundFriends
      <4>4. \A f \in friends : Pair(f.user1, f.user2) # Pair(c.from, c.to)
        BY <4>2, <4>3, SamePair DEF Directed
      <4>5. FoundFriends(t, friends)
        BY <2>2, <4>1, <4>4 DEF FoundFriends, Goes
      <4>6. FoundRequests(t, friendRequests)
        BY <2>2, <3>1, <4>1 DEF FoundRequests, Goes
      <4> QED BY <3>3, <4>5, <4>6 DEF Knows
    <3>6. CASE c.pc = "findPending"
      <4>1. t.pc = "insertRequest"
        BY <2>2, <3>6 DEF Goes, After
      <4>2. ~HasPending(c.from, c.to)
        BY <3>2, <3>6 DEF FindFriend, FindReverse, FindPending, Check
      <4>3. FoundRequests(t, friendRequests)
        BY <2>2, <4>1, <4>2 DEF FoundRequests, Goes, HasPending
      <4>4. FoundFriends(t, friends)
        BY <2>2, <3>6, <4>1 DEF Before, Knows, FoundFriends, Goes
      <4> QED BY <3>3, <4>3, <4>4 DEF Knows
    <3> QED BY <1>1, <3>4, <3>5, <3>6
  <2> QED BY <1>2, <2>1, <2>2
<1>5. ~crossed' /\ failures' = 0 => OneFriend(friends') /\ Apart(friends', friendRequests', t)
  BY <1>1, <1>3 DEF Before
<1> QED BY <1>1, <1>2, <1>4, <1>5, AloneBecomes DEF Before

LEMMA AloneFindRequest ==
  ASSUME Inv, NEW s \in Slots, Before(s), FindRequest(s)
  PROVE  Alone'
<1> DEFINE c == task[s]
<1>1. /\ c.pc = "findRequest"
      /\ UNCHANGED <<friends, friendRequests, calls, told, crossed, failures>>
  BY DEF FindRequest, tables
<1>2. c.kind \in {"accept", "reject", "cancel"}
  BY <1>1 DEF Before, CallTyped, KindsAt
<1>3. PICK t : Becomes(s, t) /\ Knows(t, friends, friendRequests, told)
  <2>1. CASE Ended(s)
    <3>1. Becomes(s, NoCall)
      BY <1>1, <2>1, TaskReplaced DEF Ended, Before
    <3> QED BY <3>1, NoCallKnows
  <2>2. CASE ~Ended(s)
    <3>1. PICK r \in friendRequests :
            Answerable(r, c) /\ task' = [task EXCEPT ![s] = At(Found(c, r), After(c))]
      BY <2>2 DEF FindRequest
    <3> DEFINE t == At(Found(c, r), After(c))
    <3>2. /\ t.pc = After(c) /\ t.kind = c.kind /\ t.from = r.sender /\ t.to = r.receiver
          /\ t.request = r.id
      BY DEF At, Found, CallAt
    <3>3. Becomes(s, t)
      BY <1>1, <3>1, TaskReplaced DEF Before
    <3> HIDE DEF t
    <3>4. After(c) = CASE c.kind = "accept" -> "insertFriend"
                       [] c.kind = "reject" -> "mark"
                       [] c.kind = "cancel" -> "deleteRequest"
      BY <1>1 DEF After
    <3>5. t.pc \in {"insertFriend", "mark", "deleteRequest"} /\ (t.pc = "insertFriend" => t.kind = "accept")
      BY <1>2, <3>2, <3>4
    <3>6. Copy(t, "pending") = r
      <4>1. r \in FriendRequest /\ r.status = "pending"
        BY <3>1 DEF Inv, RowsTyped, Answerable
      <4>2. r = [id |-> r.id, sender |-> r.sender, receiver |-> r.receiver, status |-> r.status]
        BY <4>1 DEF FriendRequest
      <4> QED BY <3>2, <4>1, <4>2 DEF Copy
    <3>7. Copy(t, "pending") \in friendRequests
      BY <3>1, <3>6
    <3>8. Knows(t, friends, friendRequests, told)
      BY <1>2, <3>2, <3>5, <3>7 DEF Knows, FoundFriends, FoundRequests, Unused
    <3> QED BY <3>3, <3>8
  <2> QED BY <2>1, <2>2
<1>4. Apart(friends, friendRequests, c) => Apart(friends, friendRequests, t)
  BY <1>1 DEF Apart, Marking
<1>5. ~crossed' /\ failures' = 0 => OneFriend(friends') /\ Apart(friends', friendRequests', t)
  BY <1>1, <1>4 DEF Before
<1> QED BY <1>1, <1>3, <1>5, AloneBecomes DEF Before

LEMMA AloneInsertFriend ==
  ASSUME Inv, NEW s \in Slots, Before(s), InsertFriend(s)
  PROVE  Alone'
<1> DEFINE c == task[s]
           f == [id |-> c.id, user1 |-> c.from, user2 |-> c.to]
<1>1. /\ c.pc = "insertFriend" /\ friends' = friends \cup {f}
      /\ crossed' = (crossed \/ (c.kind = "add" /\ HasPending(c.from, c.to)))
      /\ GoOn(s)
      /\ UNCHANGED <<friendRequests, calls, told, failures>>
  BY DEF InsertFriend
<1>2. PICK t : Becomes(s, t) /\ (t = NoCall \/ Goes(t, c))
  BY <1>1, CallGoesOn DEF Before
<1>3. f.user1 = c.from /\ f.user2 = c.to
  OBVIOUS
<1> HIDE DEF f
<1>4. c.kind \in {"add", "accept"} /\ After(c) = IF c.kind = "accept" THEN "mark" ELSE "idle"
  BY <1>1 DEF Before, CallTyped, KindsAt, After
<1>5. /\ t # NoCall => t.pc = "mark" /\ t.kind = "accept" /\ t.request = c.request
                       /\ Copy(t, "pending") \in friendRequests
      /\ c.kind = "accept" => t # NoCall /\ Copy(c, "pending") \in friendRequests
  <2>1. Copy(c, "pending") \in friendRequests \/ c.kind # "accept"
    BY <1>1 DEF Before, Knows, FoundRequests
  <2>2. t # NoCall => t.pc = "mark" /\ t.kind = "accept" /\ t.request = c.request
                      /\ t.from = c.from /\ t.to = c.to /\ c.kind = "accept"
    BY <1>2, <1>4 DEF Goes
  <2>3. t # NoCall => Copy(t, "pending") \in friendRequests
    BY <2>1, <2>2 DEF Copy
  <2>4. c.kind = "accept" => t # NoCall
    <3>1. ASSUME c.kind = "accept" PROVE task'[s].pc = "mark"
      <4>1. task' = [task EXCEPT ![s] = At(c, "mark")]
        BY <1>1, <1>4, <3>1 DEF GoOn
      <4>2. task'[s] = At(c, "mark")
        BY <4>1 DEF Inv, CallsTyped
      <4> QED BY <4>2 DEF At, CallAt
    <3>2. task'[s] = t /\ NoCall.pc = "idle"
      BY <1>2 DEF Becomes, NoCall, CallAt
    <3> QED BY <3>1, <3>2
  <2> QED BY <2>1, <2>2, <2>3, <2>4
<1>6. Knows(t, friends', friendRequests', told')
  <2>1. CASE t = NoCall
    BY <2>1, NoCallKnows
  <2>2. CASE t # NoCall
    BY <1>1, <1>5, <2>2 DEF Knows, FoundFriends, FoundRequests, Unused
  <2> QED BY <2>1, <2>2
<1>7. ASSUME ~crossed', failures' = 0
      PROVE  OneFriend(friends') /\ Apart(friends', friendRequests', t)
  <2>1. ~crossed /\ failures = 0 /\ (c.kind = "add" => ~HasPending(c.from, c.to))
    BY <1>1, <1>7
  <2>2. OneFriend(friends) /\ Apart(friends, friendRequests, c)
    BY <2>1 DEF Before
  <2>3. \A r \in friendRequests, g \in friends :
          r.status = "pending" => Pair(r.sender, r.receiver) # Pair(g.user1, g.user2)
    BY <1>1, <2>2 DEF Apart, Marking
  <2>4. \A g \in friends : Pair(g.user1, g.user2) # Pair(c.from, c.to)
    <3>1. CASE c.kind = "add"
      BY <1>1, <3>1 DEF Before, Knows, FoundFriends
    <3>2. CASE c.kind = "accept"
      <4> DEFINE r == Copy(c, "pending")
      <4>1. r \in friendRequests /\ r.status = "pending" /\ r.sender = c.from /\ r.receiver = c.to
        BY <1>5, <3>2 DEF Copy
      <4> QED BY <2>3, <4>1
    <3> QED BY <1>4, <3>1, <3>2
  <2>5. OneFriend(friends')
    BY <1>1, <1>3, <2>2, <2>4 DEF OneFriend
  <2>6. ASSUME NEW r \in friendRequests, r.status = "pending",
               Pair(r.sender, r.receiver) = Pair(c.from, c.to)
        PROVE  Marking(t, r)
    <3>1. c.kind = "accept"
      BY <1>4, <2>1, <2>6 DEF HasPending
    <3> DEFINE q == Copy(c, "pending")
    <3>2. q \in friendRequests /\ q.status = "pending" /\ q.sender = c.from /\ q.receiver = c.to
          /\ q.id = c.request
      BY <1>5, <3>1 DEF Copy
    <3>3. q = r
      BY <2>6, <3>2 DEF Before, OnePending
    <3> QED BY <1>5, <3>1, <3>2, <3>3 DEF Marking
  <2>7. Apart(friends', friendRequests', t)
    BY <1>1, <1>3, <2>3, <2>6 DEF Apart
  <2> QED BY <2>5, <2>7
<1> QED BY <1>1, <1>2, <1>6, <1>7, AloneBecomes DEF Before

LEMMA AloneDeleteFriend ==
  ASSUME Inv, NEW s \in Slots, Before(s), DeleteFriend(s)
  PROVE  Alone'
<1> DEFINE c == task[s]
<1>1. /\ c.pc \in {"deleteFriend", "deleteReverse"} /\ friends' \subseteq friends /\ GoOn(s)
      /\ UNCHANGED <<friendRequests, calls, told, crossed, failures>>
  BY DEF DeleteFriend
<1>2. PICK t : Becomes(s, t) /\ (t = NoCall \/ Goes(t, c))
  BY <1>1, CallGoesOn DEF Before
<1>3. Knows(t, friends', friendRequests', told')
  <2>1. CASE t = NoCall
    BY <2>1, NoCallKnows
  <2>2. CASE Goes(t, c)
    <3>1. t.kind = "remove" /\ t.pc = "deleteReverse"
      BY <1>1, <2>2 DEF Before, CallTyped, KindsAt, Goes, After
    <3> QED BY <3>1 DEF Knows, FoundFriends, FoundRequests, Unused
  <2> QED BY <1>2, <2>1, <2>2
<1>4. OneFriend(friends) => OneFriend(friends')
  BY <1>1 DEF OneFriend
<1>5. Apart(friends, friendRequests, c) => Apart(friends', friendRequests', t)
  BY <1>1 DEF Apart, Marking
<1> QED BY <1>1, <1>2, <1>3, <1>4, <1>5, AloneBecomes DEF Before

LEMMA AloneInsertRequest ==
  ASSUME Inv, NEW s \in Slots, Before(s), InsertRequest(s)
  PROVE  Alone'
<1> DEFINE c == task[s]
           t == CallAt("tell", c.kind, c.id, c.caller, c.from, c.to, c.id)
           r == [id |-> c.id, sender |-> c.from, receiver |-> c.to, status |-> "pending"]
<1>1. /\ c.pc = "insertRequest" /\ task' = [task EXCEPT ![s] = t]
      /\ friendRequests' = friendRequests \cup {r}
      /\ UNCHANGED <<friends, calls, told, crossed, failures>>
  BY DEF InsertRequest
<1>2. t.pc = "tell" /\ t.kind = c.kind
  BY DEF CallAt
<1>3. r.id = c.id /\ r.sender = c.from /\ r.receiver = c.to /\ r.status = "pending"
  OBVIOUS
<1>4. c.kind = "send" /\ c.id <= calls
  BY <1>1 DEF Before, CallTyped, KindsAt, Inv, NumbersTyped
<1> HIDE DEF t, r
<1>5. Becomes(s, t)
  BY <1>1, TaskReplaced DEF Before
<1>6. /\ \A q \in friendRequests : q.id # c.id
      /\ \A n \in told : n.event # "received" => n.request # c.id
      /\ \A q \in friendRequests : q.status = "pending" => Pair(q.sender, q.receiver) # Pair(c.from, c.to)
      /\ \A f \in friends : Pair(f.user1, f.user2) # Pair(c.from, c.to)
  BY <1>1, <1>4 DEF Before, Knows, Unused, FoundRequests, FoundFriends
<1>7. Knows(t, friends', friendRequests', told')
  BY <1>2, <1>4 DEF Knows, FoundFriends, FoundRequests, Unused
<1>8. Given(friendRequests', told', calls')
  BY <1>1, <1>3, <1>4, <1>6 DEF Before, Given
<1>9. OneAnswer(friendRequests', told')
  BY <1>1, <1>3, <1>6 DEF Before, OneAnswer
<1>10. OnePending(friendRequests')
  BY <1>1, <1>3, <1>6 DEF Before, OnePending
<1>11. Apart(friends, friendRequests, c) => Apart(friends', friendRequests', t)
  BY <1>1, <1>3, <1>6 DEF Apart, Marking
<1>12. ~crossed' /\ failures' = 0 => OneFriend(friends') /\ Apart(friends', friendRequests', t)
  BY <1>1, <1>11 DEF Before
<1> QED BY <1>5, <1>7, <1>8, <1>9, <1>10, <1>12, AloneBecomes

LEMMA AloneMark ==
  ASSUME Inv, NEW s \in Slots, Before(s), Mark(s)
  PROVE  Alone'
<1> DEFINE c == task[s]
           m == Marked(c)
           p == Copy(c, "pending")
<1>1. /\ c.pc = "mark" /\ GoOn(s)
      /\ friendRequests' = {r \in friendRequests : r.id # c.request} \cup {m}
      /\ UNCHANGED <<friends, calls, told, crossed, failures>>
  BY DEF Mark
<1>2. PICK t : Becomes(s, t) /\ (t = NoCall \/ Goes(t, c))
  BY <1>1, CallGoesOn DEF Before
<1>3. c.kind \in {"accept", "reject"} /\ After(c) = "tell"
  BY <1>1 DEF Before, CallTyped, KindsAt, After
<1>4. /\ m.id = c.request /\ m.status \in {"accepted", "rejected"}
      /\ m = Copy(c, Event(c))
  BY <1>3 DEF Marked, Copy, Event
<1>5. p \in friendRequests /\ p.id = c.request /\ p.status = "pending"
  BY <1>1 DEF Before, Knows, FoundRequests, Copy
<1>6. \A n \in told : n.event # "received" => n.request # c.request
  <2> SUFFICES ASSUME NEW n \in told, n.event # "received", n.request = c.request PROVE FALSE
    OBVIOUS
  <2>1. n.event = "pending"
    BY <1>5 DEF Before, OneAnswer
  <2>2. n.event \in Events
    BY DEF Inv, RowsTyped
  <2> QED BY <2>1, <2>2 DEF Events
<1> HIDE DEF m, p
<1>7. Knows(t, friends', friendRequests', told')
  <2>1. CASE t = NoCall
    BY <2>1, NoCallKnows
  <2>2. CASE Goes(t, c)
    <3>1. t.pc = "tell" /\ t.kind = c.kind /\ Copy(t, Event(t)) = m
      BY <1>3, <1>4, <2>2 DEF Goes, Copy, Event
    <3> QED BY <1>1, <3>1 DEF Knows, FoundFriends, FoundRequests, Unused
  <2> QED BY <1>2, <2>1, <2>2
<1>8. Given(friendRequests', told', calls')
  <2>1. m.id <= calls
    BY <1>4, <1>5 DEF Before, Given
  <2> QED BY <1>1, <1>4, <2>1 DEF Before, Given
<1>9. OneAnswer(friendRequests', told')
  BY <1>1, <1>4, <1>6 DEF Before, OneAnswer
<1>10. OnePending(friendRequests')
  BY <1>1, <1>4 DEF Before, OnePending
<1>11. Apart(friends, friendRequests, c) => Apart(friends', friendRequests', t)
  BY <1>1, <1>4 DEF Apart, Marking
<1>12. ~crossed' /\ failures' = 0 => OneFriend(friends') /\ Apart(friends', friendRequests', t)
  BY <1>1, <1>11 DEF Before
<1> QED BY <1>2, <1>7, <1>8, <1>9, <1>10, <1>12, AloneBecomes

LEMMA AloneTell ==
  ASSUME Inv, NEW s \in Slots, Before(s), Tell(s) \/ DeleteRequest(s)
  PROVE  Alone'
<1> DEFINE c == task[s]
           N == Notifications(c)
<1>1. /\ c.pc \in {"tell", "deleteRequest"} /\ Ended(s) /\ told' = told \cup N
      /\ friendRequests' = {r \in friendRequests : c.pc = "tell" \/ r.id # c.request}
      /\ UNCHANGED <<friends, calls, crossed, failures>>
  BY DEF Tell, DeleteRequest, tables
<1>2. Becomes(s, NoCall)
  BY <1>1, TaskReplaced DEF Before, Ended
<1>3. c.kind \in {"send", "accept", "reject", "cancel"} /\ (c.pc = "deleteRequest" <=> c.kind = "cancel")
  BY <1>1 DEF Before, CallTyped, KindsAt
<1>4. \A n \in N : n.request = c.request /\ n.event = Event(c)
  BY DEF Notifications
<1>5. Event(c) = "received" <=> c.kind = "send"
  BY <1>3 DEF Event
<1> HIDE DEF N
<1>6. Knows(NoCall, friends', friendRequests', told')
  BY NoCallKnows
<1>7. c.kind # "send" => \E r \in friendRequests : r.id = c.request /\ r.status \in {"pending", Event(c)}
  <2>1. c.pc = "deleteRequest" => Copy(c, "pending") \in friendRequests
    BY DEF Before, Knows, FoundRequests
  <2>2. c.pc = "tell" /\ c.kind # "send" => Copy(c, Event(c)) \in friendRequests
    BY DEF Before, Knows, FoundRequests
  <2> QED BY <1>1, <2>1, <2>2 DEF Copy
<1>8. Given(friendRequests', told', calls')
  <2>1. \A n \in N : n.event # "received" => n.request <= calls
    BY <1>4, <1>5, <1>7 DEF Before, Given
  <2> QED BY <1>1, <2>1 DEF Before, Given
<1>9. ASSUME c.kind # "send"
      PROVE  \A n \in told : n.event # "received" /\ n.request = c.request => n.event = Event(c)
  <2> SUFFICES ASSUME NEW n \in told, n.event # "received", n.request = c.request
               PROVE  n.event = Event(c)
    OBVIOUS
  <2>1. n.event \in {"pending", Event(c)}
    BY <1>7, <1>9 DEF Before, OneAnswer
  <2>2. n.event \in Events
    BY DEF Inv, RowsTyped
  <2> QED BY <2>1, <2>2 DEF Events
<1>10. \A r \in friendRequests' : c.kind # "send" /\ r.id = c.request => r.status = Event(c)
  <2> SUFFICES ASSUME NEW r \in friendRequests', c.kind # "send", r.id = c.request
               PROVE  r.status = Event(c)
    OBVIOUS
  <2>1. r \in friendRequests /\ c.pc = "tell"
    BY <1>1
  <2>2. Copy(c, Event(c)) \in friendRequests
    BY <2>1 DEF Before, Knows, FoundRequests
  <2>3. Copy(c, Event(c)).id = r.id /\ Copy(c, Event(c)).status = Event(c)
    BY DEF Copy
  <2> QED BY <2>1, <2>2, <2>3 DEF Before, Given
<1>11. OneAnswer(friendRequests', told')
  <2> SUFFICES ASSUME NEW n \in told', n.event # "received"
               PROVE  /\ \A m \in told' : m.request = n.request /\ m.event # "received" => m.event = n.event
                      /\ \A r \in friendRequests' : r.id = n.request => r.status = n.event
    BY DEF OneAnswer
  <2>1. \A m \in told' : m \in told \/ (m.request = c.request /\ m.event = Event(c))
    BY <1>1, <1>4
  <2>2. \A r \in friendRequests' : r \in friendRequests
    BY <1>1
  <2>3. CASE c.kind = "send"
    <3>1. \A m \in told' : m.event # "received" => m \in told
      BY <1>5, <2>1, <2>3
    <3> QED BY <2>2, <3>1 DEF Before, OneAnswer
  <2>4. CASE c.kind # "send" /\ n.request = c.request
    <3>1. \A m \in told' : m.event # "received" /\ m.request = c.request => m.event = Event(c)
      BY <1>9, <2>1, <2>4
    <3> QED BY <1>10, <2>4, <3>1
  <2>5. CASE n.request # c.request
    <3>1. n \in told /\ \A m \in told' : m.request = n.request => m \in told
      BY <2>1, <2>5
    <3> QED BY <2>2, <3>1 DEF Before, OneAnswer
  <2> QED BY <2>3, <2>4, <2>5
<1>12. OnePending(friendRequests')
  BY <1>1 DEF Before, OnePending
<1>13. Apart(friends, friendRequests, c) => Apart(friends', friendRequests', NoCall)
  BY <1>1 DEF Apart, Marking
<1>14. ~crossed' /\ failures' = 0 => OneFriend(friends') /\ Apart(friends', friendRequests', NoCall)
  BY <1>1, <1>13 DEF Before
<1> QED BY <1>2, <1>6, <1>8, <1>11, <1>12, <1>14, AloneBecomes

LEMMA AloneFails ==
  ASSUME Inv, NEW s \in Slots, Before(s), WriteFails(s)
  PROVE  Alone'
<1>1. /\ task[s].pc # "idle" /\ Ended(s) /\ failures' = failures + 1 /\ failures \in Nat
      /\ UNCHANGED <<friends, friendRequests, calls, told, crossed>>
  BY FriendsConstants DEF WriteFails, tables, Inv, NumbersTyped
<1>2. Becomes(s, NoCall)
  BY <1>1, TaskReplaced DEF Before, Ended
<1>3. failures' # 0
  BY <1>1
<1>4. Knows(NoCall, friends', friendRequests', told')
  BY NoCallKnows
<1> QED BY <1>1, <1>2, <1>3, <1>4, AloneBecomes DEF Before

LEMMA AloneBegin ==
  ASSUME Inv, Alone, ~overlapped',
         NEW k, NEW pc, NEW c, NEW from, NEW to, NEW r, Begin(k, pc, c, from, to, r),
         pc \in {"findFriend", "deleteFriend", "findRequest"}, pc = "findRequest" => k # "send"
  PROVE  Alone'
<1> DEFINE t == CallAt(pc, k, calls + 1, c, from, to, r)
<1>1. PICK s \in FreeSlots : task' = [task EXCEPT ![s] = t]
  BY DEF Begin
<1>2. FreeSlots = Slots /\ ~overlapped
  BY DEF Begin
<1>3. /\ UNCHANGED <<friends, friendRequests, told, crossed, failures>>
      /\ calls' = calls + 1 /\ calls \in Nat
  BY FriendsConstants DEF Begin, tables, Inv, NumbersTyped
<1>4. \A x \in Slots : task[x].pc = "idle"
  BY <1>2 DEF FreeSlots
<1>5. t.pc = pc /\ t.kind = k /\ t.id = calls + 1
  BY DEF CallAt
<1> HIDE DEF t
<1>6. s \in Slots /\ Becomes(s, t)
  BY <1>1, <1>2, <1>4 DEF Becomes, Inv, CallsTyped
<1>7. Given(friendRequests, told, calls)
  BY <1>2 DEF Alone
<1>8. \A q \in friendRequests : q.id \in Nat
  BY FriendsConstants DEF Inv, RowsTyped, FriendRequest, Ids
<1>9. \A n \in told : n.request \in Nat
  BY FriendsConstants DEF Inv, RowsTyped, Ids
<1>10. Given(friendRequests', told', calls')
  BY <1>3, <1>7, <1>8, <1>9 DEF Given
<1>11. Unused(t, friendRequests', told')
  BY <1>3, <1>5, <1>7, <1>8, <1>9 DEF Given, Unused
<1>12. Knows(t, friends', friendRequests', told')
  BY <1>5, <1>11 DEF Knows, FoundFriends, FoundRequests
<1>13. ~crossed' /\ failures' = 0 => OneFriend(friends') /\ Apart(friends', friendRequests', t)
  <2>1. ~crossed /\ failures = 0 => OneFriend(friends) /\ Apart(friends, friendRequests, task[s])
    BY <1>2, <1>4, <1>6 DEF Alone, AllApart
  <2> QED BY <1>3, <1>4, <1>6, <2>1 DEF Apart, Marking
<1>14. OneAnswer(friendRequests', told') /\ OnePending(friendRequests')
  BY <1>2, <1>3 DEF Alone
<1> QED BY <1>6, <1>10, <1>12, <1>13, <1>14, AloneBecomes

LEMMA AloneKept ==
  ASSUME Alone, UNCHANGED <<friends, friendRequests, task, calls, told, overlapped, crossed, failures>>
  PROVE  Alone'
BY DEF Alone, OneBusy, AllApart

LEMMA AloneInit == Init => Alone
<1> SUFFICES ASSUME Init PROVE Alone
  OBVIOUS
<1>1. \A s \in Slots : task[s] = NoCall /\ task[s].pc = "idle"
  BY DEF Init, NoCall, CallAt
<1>2. \A s \in Slots : Knows(task[s], friends, friendRequests, told)
  BY <1>1, NoCallKnows
<1> QED BY <1>1, <1>2 DEF Init, Alone, OneBusy, Given, OneAnswer, OnePending, OneFriend, AllApart, Apart

LEMMA AloneStep == Inv /\ Alone /\ [Next]_vars => Alone'
<1> SUFFICES ASSUME Inv, Alone, [Next]_vars, ~overlapped' PROVE Alone'
  BY DEF Alone
<1>1. CASE UNCHANGED vars \/ Gateway
  BY <1>1, AloneKept DEF vars, Gateway, tables
<1>2. CASE Call
  <2>1. ASSUME NEW c \in Users, NEW v \in Users,
               AddFriend(c, v) \/ RemoveFriend(c, v) \/ SendFriendRequest(c, v)
        PROVE  Alone'
    BY <2>1, AloneBegin DEF AddFriend, RemoveFriend, SendFriendRequest
  <2>2. ASSUME NEW c \in Users, NEW r \in Ids,
               AcceptFriendRequest(c, r) \/ RejectFriendRequest(c, r) \/ CancelFriendRequest(c, r)
        PROVE  Alone'
    BY <2>2, AloneBegin DEF AcceptFriendRequest, RejectFriendRequest, CancelFriendRequest
  <2> QED BY <1>2, <2>1, <2>2 DEF Call
<1>3. ASSUME NEW s \in Slots, Query(s) \/ WriteFails(s)
      PROVE  Alone'
  <2>1. task[s].pc # "idle" /\ UNCHANGED overlapped
    <3>1. Query(s) => task[s].pc # "idle" /\ UNCHANGED overlapped
      BY DEF Query, FindFriend, FindReverse, FindPending, Check, FindRequest, InsertFriend,
             DeleteFriend, InsertRequest, Mark, Tell, DeleteRequest
    <3>2. WriteFails(s) => task[s].pc # "idle" /\ UNCHANGED overlapped
      BY DEF WriteFails
    <3> QED BY <1>3, <3>1, <3>2
  <2>2. Before(s)
    BY <2>1, BeforeStep
  <2> QED BY <1>3, <2>2, AloneCheck, AloneFindRequest, AloneInsertFriend, AloneDeleteFriend,
             AloneInsertRequest, AloneMark, AloneTell, AloneFails DEF Query
<1> QED BY <1>1, <1>2, <1>3 DEF Next

LEMMA AloneImplies == Alone => AloneOneAnswer /\ AloneOnePerPair
<1>1. Alone => AloneOneAnswer
  BY DEF Alone, AloneOneAnswer, OneAnswer
<1>2. Alone => AloneOnePerPair
  BY DEF Alone, AloneOnePerPair, OnePending, OneFriend
<1> QED BY <1>1, <1>2

\* As long as calls do not overlap, both users of a request are told one story,
\* which the table tells too.
THEOREM OneStory == Spec => []AloneOneAnswer
BY InvInit, InvStep, AloneInit, AloneStep, AloneImplies, PTL DEF Spec

\* As long as calls do not overlap, a pair of users has one pending request at
\* most; and one friend row at most, unless a friend was added past a pending
\* request, or a write failed.
THEOREM OnePerPair == Spec => []AloneOnePerPair
BY InvInit, InvStep, AloneInit, AloneStep, AloneImplies, PTL DEF Spec

\* Types, with the shape of every call and every row.
THEOREM TypeCorrect == Spec => []TypeOK
BY InvInit, InvStep, InvImpliesTypeOK, PTL DEF Spec

\* Whoever is told, or can read, that a request is accepted has a friend row
\* that came of it first, whatever fails, overlaps or comes twice.
THEOREM BefriendedFirst == Spec => []AcceptedBefriended
BY InvInit, InvStep, PTL DEF Spec, Inv

\* The maps of subscriptions agree, in whatever order sockets subscribe for
\* one user and another and disconnect.
THEOREM SubscriptionsConsistent == Spec => []SubscriptionsAgree
BY InvInit, InvStep, PTL DEF Spec, Inv, GatewayInv

=============================================================================
