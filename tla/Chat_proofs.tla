----------------------------- MODULE Chat_proofs -----------------------------
(***************************************************************************)
(* Theorems about Chat for every number of users, rooms, sockets, slots    *)
(* and calls, and their proofs.                                            *)
(*                                                                         *)
(* Inv: registrations, calls and what the last step gave out.  Reads: what *)
(* a reader does not show is still ahead of it, and it shows what its      *)
(* socket hears.  Typed: types, with the bounds of what is counted.               *)
(***************************************************************************)
EXTENDS Chat, FiniteSetTheorems, SequenceTheorems, TLAPS

---------------------------------------------------------------------------
(***************************************************************************)
(* Registrations.                                                          *)
(***************************************************************************)

\* A socket that is registered is among those of its user, and not gone.
\* (Those of a user it registered for earlier may have it as well.)
Registrations ==
  /\ clientUsers \in [Sockets -> Users \cup {None}]
  /\ userClients \in [Users -> SUBSET Sockets]
  /\ \A k \in Sockets : clientUsers[k] # None =>
       k \in userClients[clientUsers[k]] /\ k \notin gone

LEMMA RegistrationsStep ==
  ASSUME Registrations, [Next]_vars
  PROVE  Registrations'
<1> USE ChatConstants
<1>1. ASSUME UNCHANGED <<gone, clientUsers, userClients>>
      PROVE  Registrations'
  BY <1>1 DEF Registrations
<1>2. ASSUME NEW k \in Sockets, NEW u \in Users, HandleRegisterUser(k, u)
      PROVE  Registrations'
  <2>1. /\ \A j \in Sockets : clientUsers'[j] = IF j = k THEN u ELSE clientUsers[j]
        /\ \A v \in Users : userClients'[v] = IF v = u THEN userClients[v] \cup {k} ELSE userClients[v]
        /\ gone' = gone /\ k \notin gone
    BY <1>2 DEF HandleRegisterUser, Registered, Registrations
  <2>2. /\ clientUsers' \in [Sockets -> Users \cup {None}]
        /\ userClients' \in [Users -> SUBSET Sockets]
    BY <1>2 DEF HandleRegisterUser, Registered, Registrations
  <2> QED BY <2>1, <2>2 DEF Registrations
<1>3. ASSUME NEW k \in Sockets, HandleDisconnect(k)
      PROVE  Registrations'
  <2>1. /\ \A j \in Sockets : clientUsers'[j] = IF j = k THEN None ELSE clientUsers[j]
        /\ \A v \in Users : userClients'[v] = IF v = clientUsers[k] THEN userClients[v] \ {k}
                                                                    ELSE userClients[v]
        /\ gone' = gone \cup {k}
    BY <1>3 DEF HandleDisconnect, Registrations
  <2>2. /\ clientUsers' \in [Sockets -> Users \cup {None}]
        /\ userClients' \in [Users -> SUBSET Sockets]
    BY <1>3 DEF HandleDisconnect, Registrations
  <2> QED BY <2>1, <2>2 DEF Registrations
<1>4. CASE Connection
  <2>1. ASSUME NEW k \in Sockets, NEW r, HandleJoinRoom(k, r) \/ HandleLeaveRoom(k, r)
        PROVE  Registrations'
    BY <1>1, <2>1 DEF HandleJoinRoom, Join, HandleLeaveRoom
  <2>2. ASSUME NEW k \in Sockets, NEW p \in Pairs, HandleJoinRoomBetweenUsers(k, p[1], p[2])
        PROVE  Registrations'
    BY <1>1, <2>2 DEF HandleJoinRoomBetweenUsers, Join
  <2> QED BY <1>2, <1>3, <1>4, <2>1, <2>2 DEF Connection
<1>5. CASE Restart
  BY <1>5 DEF Restart, Registrations
<1>6. CASE Arrival
  BY <1>1, <1>6 DEF Arrival, HandleMessage, MarkRoomAsRead, MarkMessageAsRead, MarkMessagesAsRead,
                    Begin, connections
<1>7. CASE Reading \/ LoadFails \/ UNCHANGED vars
  BY <1>1, <1>7 DEF Reading, LoadFails, vars, connections
<1>8. ASSUME NEW s \in Slots, Query(s) \/ WriteFails(s)
      PROVE  Registrations'
  BY <1>1, <1>8 DEF Query, InsertMessage, Announce, FindReceipt, InsertReceipt, FindUnread,
                    InsertReceipts, WriteFails, connections
<1> QED BY <1>4, <1>5, <1>6, <1>7, <1>8 DEF Next

---------------------------------------------------------------------------
(***************************************************************************)
(* Calls.                                                                  *)
(***************************************************************************)

\* The receipts in R that call c made, and whether R has one of user u for m.
Made(R, c)      == {x \in R : x.by = c}
ReadIn(R, m, u) == \E x \in R : x.message = m /\ x.user = u

CallRecord == [pc : PCs, kind : Kinds, id : Nat, user : Users \cup {None},
               room : Rooms \cup {None}, ids : SUBSET Nat, at : Nat, marked : Nat, upto : Nat]

\* What a call t has in hand at its query, when there have been c calls.
Shape(t, c) ==
  /\ t \in CallRecord
  /\ t.pc # "idle" => t.id \in 1..c /\ t.user \in Users
  /\ t.pc \in {"insertMessage", "readBack"} => t.room \in Rooms
  /\ t.pc \in {"findReceipt", "insertReceipt"} => t.room = None /\ t.kind \in {"markOne", "markMany"}
  /\ t.pc \in {"findUnread", "insertReceipts"} => t.marked = 0

\* The message that a call has stored in M is the one it will announce.
Stored(t, M) ==
  /\ t.upto <= Len(M)
  /\ t.pc = "readBack" => t.at \in 1..Len(M) /\ M[t.at] = [room |-> t.room, sender |-> t.user]

\* Of what was there when the call came in, all that is unread will be marked.
Covered(t, M, R) ==
  t.pc = "insertReceipts" =>
    /\ t.ids \subseteq 1..Len(M)
    /\ \A m \in 1..t.upto :
         M[m].room = t.room /\ M[m].sender # t.user => m \in t.ids \/ ReadIn(R, m, t.user)

\* A call knows how many receipts it has made.
Counted(t, R) ==
  t.pc # "idle" => IsFiniteSet(Made(R, t.id)) /\ Cardinality(Made(R, t.id)) = t.marked

CallInv(t, M, R, c) == Shape(t, c) /\ Stored(t, M) /\ Covered(t, M, R) /\ Counted(t, R)

CallsInv ==
  /\ task \in [Slots -> CallRecord]
  /\ \A s \in Slots : CallInv(task[s], messages, receipts, calls)
  /\ \A s, x \in Slots : s # x /\ task[s].pc # "idle" /\ task[x].pc # "idle"
                           => task[s].id # task[x].id

TablesInv ==
  /\ messages \in Seq(Message)
  /\ \A x, y \in receipts : x.message = y.message /\ x.user = y.user => x = y
  /\ \A x \in receipts : x.by \in 1..calls
  /\ calls \in Nat

\* What the last step gave out was true.
EmittedTrue == RecipientNotified /\ AllRead /\ MarkedOnce

Inv == Registrations /\ CallsInv /\ TablesInv /\ EmittedTrue

LEMMA NothingEmitted ==
  ASSUME emitted' = Nothing, TablesInv'
  PROVE  EmittedTrue'
<1>1. "message" \notin DOMAIN Nothing /\ "marked" \notin DOMAIN Nothing
  BY DEF Nothing
<1>2. ~IsAnnounced' /\ ~IsAnswered'
  BY <1>1 DEF IsAnnounced, IsAnswered
<1> QED BY <1>2 DEF EmittedTrue, RecipientNotified, AllRead, MarkedOnce, TablesInv

\* An answer is true if what it counts was made by the call, and, for a room,
\* nothing unread is left.
LEMMA AnswerEmitted ==
  ASSUME NEW t, NEW n, emitted' = Answered(t, n), TablesInv',
         Cardinality(Made(receipts', t.id)) = n,
         t.room # None => \A m \in 1..t.upto :
           messages'[m].room = t.room /\ messages'[m].sender # t.user => ReadIn(receipts', m, t.user)
  PROVE  EmittedTrue'
<1>1. /\ DOMAIN emitted' = {"call", "kind", "user", "room", "marked", "upto"}
      /\ emitted'.call = t.id /\ emitted'.user = t.user /\ emitted'.room = t.room
      /\ emitted'.marked = n /\ emitted'.upto = t.upto
  BY DEF Answered
<1>2. ~IsAnnounced' /\ IsAnswered'
  BY <1>1 DEF IsAnnounced, IsAnswered
<1>3. AllRead'
  BY <1>1 DEF AllRead, IsRead, ReadIn
<1>4. MarkedOnce'
  BY <1>1 DEF MarkedOnce, TablesInv, Made
<1> QED BY <1>2, <1>3, <1>4 DEF EmittedTrue, RecipientNotified

\* The tables grow: messages at the end, receipts of call c only.
Grown(c) ==
  /\ \A m \in 1..Len(messages) : messages'[m] = messages[m]
  /\ Len(messages') >= Len(messages) /\ Len(messages') \in Nat
  /\ receipts \subseteq receipts'
  /\ \A x \in receipts' \ receipts : x.by = c
  /\ calls' >= calls /\ calls' \in Nat

LEMMA LenType == ASSUME TablesInv PROVE Len(messages) \in Nat /\ calls \in Nat
BY DEF TablesInv

\* The other calls keep what they have when the tables grow.
LEMMA CallKept ==
  ASSUME TablesInv, NEW c, Grown(c),
         NEW t, CallInv(t, messages, receipts, calls), t.pc # "idle" => t.id # c
  PROVE  CallInv(t, messages', receipts', calls')
<1>0. Len(messages) \in Nat /\ calls \in Nat /\ t.upto \in Nat
  BY LenType DEF CallInv, Shape, CallRecord
<1>1. Shape(t, calls')
  BY <1>0 DEF Grown, CallInv, Shape
<1>2. Stored(t, messages')
  BY <1>0 DEF Grown, CallInv, Stored
<1>3. Covered(t, messages', receipts')
  <2> SUFFICES ASSUME t.pc = "insertReceipts"
               PROVE  /\ t.ids \subseteq 1..Len(messages')
                      /\ \A m \in 1..t.upto :
                           messages'[m].room = t.room /\ messages'[m].sender # t.user
                             => m \in t.ids \/ ReadIn(receipts', m, t.user)
    BY DEF Covered
  <2>1. t.ids \subseteq 1..Len(messages')
    BY <1>0 DEF Grown, CallInv, Covered
  <2>2. ASSUME NEW m \in 1..t.upto,
               messages'[m].room = t.room, messages'[m].sender # t.user
        PROVE  m \in t.ids \/ ReadIn(receipts', m, t.user)
    <3>1. m \in 1..Len(messages)
      BY <1>0 DEF CallInv, Stored
    <3>2. m \in t.ids \/ ReadIn(receipts, m, t.user)
      BY <2>2, <3>1 DEF Grown, CallInv, Covered
    <3> QED BY <3>2 DEF ReadIn, Grown
  <2> QED BY <2>1, <2>2
<1>4. Counted(t, receipts')
  <2>1. t.pc # "idle" => Made(receipts', t.id) = Made(receipts, t.id)
    BY DEF Made, Grown
  <2> QED BY <2>1 DEF CallInv, Counted
<1> QED BY <1>1, <1>2, <1>3, <1>4 DEF CallInv

\* The call in slot s becomes t, and the tables grow by what it wrote.
LEMMA CallReplaced ==
  ASSUME CallsInv, TablesInv, NEW s \in Slots, Grown(task[s].id), task[s].pc # "idle",
         NEW t, CallInv(t, messages', receipts', calls'),
         t.pc # "idle" => t.id = task[s].id,
         task' = [task EXCEPT ![s] = t]
  PROVE  CallsInv'
<1> DEFINE c == task[s].id
<1>1. t \in CallRecord
  BY DEF CallInv, Shape
<1>2. task' \in [Slots -> CallRecord] /\ \A x \in Slots : task'[x] = IF x = s THEN t ELSE task[x]
  BY <1>1 DEF CallsInv
<1>3. ASSUME NEW x \in Slots, x # s
      PROVE  CallInv(task[x], messages', receipts', calls')
  <2>1. CallInv(task[x], messages, receipts, calls) /\ (task[x].pc # "idle" => task[x].id # c)
    BY <1>3 DEF CallsInv
  <2>2. Grown(c)
    OBVIOUS
  <2> HIDE DEF c
  <2> QED BY <2>1, <2>2, CallKept
<1>4. \A x \in Slots : CallInv(task'[x], messages', receipts', calls')
  BY <1>2, <1>3
<1>5. \A x, y \in Slots : x # y /\ task'[x].pc # "idle" /\ task'[y].pc # "idle"
                           => task'[x].id # task'[y].id
  BY <1>2 DEF CallsInv
<1> QED BY <1>2, <1>4, <1>5 DEF CallsInv

LEMMA NoCallInv ==
  ASSUME NEW M \in Seq(Message), NEW R, NEW c
  PROVE  CallInv(NoCall, M, R, c) /\ NoCall.pc = "idle"
<1>1. NoCall \in CallRecord /\ NoCall.pc = "idle" /\ NoCall.upto = 0
  BY DEF NoCall, CallRecord, PCs, Kinds
<1>2. Len(M) \in Nat
  OBVIOUS
<1> QED BY <1>1, <1>2 DEF CallInv, Shape, Stored, Covered, Counted

\* A step that writes nothing leaves the tables as they are.
LEMMA TablesUntouched ==
  ASSUME TablesInv, UNCHANGED <<messages, receipts, calls>>
  PROVE  TablesInv' /\ \A c : Grown(c)
BY LenType DEF TablesInv, Grown

LEMMA InvInit == Init => Inv
<1> SUFFICES ASSUME Init PROVE Inv
  OBVIOUS
<1>1. PICK n \in 0..MaxOld : messages \in [1..n -> Message]
  BY DEF Init
<1>2. messages \in Seq(Message)
  BY <1>1, ChatConstants
<1>3. Registrations
  BY DEF Init, Registrations
<1>4. TablesInv
  BY <1>2 DEF Init, TablesInv
<1>5. CallInv(NoCall, messages, receipts, calls) /\ NoCall.pc = "idle" /\ NoCall \in CallRecord
  <2>1. CallInv(NoCall, messages, receipts, calls) /\ NoCall.pc = "idle"
    BY <1>2, NoCallInv
  <2> QED BY <2>1 DEF CallInv, Shape
<1>6. CallsInv
  BY <1>5 DEF Init, CallsInv
<1>7. EmittedTrue
  <2>1. "message" \notin DOMAIN Nothing /\ "marked" \notin DOMAIN Nothing
    BY DEF Nothing
  <2>2. ~IsAnnounced /\ ~IsAnswered
    BY <2>1 DEF Init, IsAnnounced, IsAnswered
  <2> QED BY <2>2 DEF Init, EmittedTrue, RecipientNotified, AllRead, MarkedOnce
<1> QED BY <1>3, <1>4, <1>6, <1>7 DEF Inv

\* Steps that no call takes part in.
LEMMA QuietStep ==
  ASSUME Inv, UNCHANGED <<messages, receipts, task, calls>>, Silent
  PROVE  CallsInv' /\ TablesInv' /\ EmittedTrue'
<1>1. TablesInv'
  BY TablesUntouched DEF Inv
<1>2. CallsInv'
  BY DEF Inv, CallsInv
<1> QED BY <1>1, <1>2, NothingEmitted DEF Silent

LEMMA BeginStep ==
  ASSUME Inv, NEW pc, NEW k, NEW u \in Users, NEW r \in Rooms \cup {None}, NEW ids \in SUBSET Nat,
         \/ pc = "insertMessage" /\ k = "send" /\ r \in Rooms
         \/ pc = "findUnread" /\ k = "markRoom"
         \/ pc = "findReceipt" /\ k \in {"markOne", "markMany"} /\ r = None,
         Begin(pc, k, u, r, ids)
  PROVE  CallsInv' /\ TablesInv' /\ EmittedTrue'
<1> DEFINE t == NewCall(pc, k, u, r, ids)
<1>0. /\ CallsInv /\ TablesInv /\ Len(messages) \in Nat /\ calls \in Nat
      /\ calls' = calls + 1 /\ messages' = messages /\ receipts' = receipts /\ emitted' = Nothing
  BY LenType DEF Inv, Begin, tables, Silent
<1>1. PICK s \in FreeSlots : task' = [task EXCEPT ![s] = t]
  BY DEF Begin
<1>2. /\ t.pc = pc /\ t.kind = k /\ t.id = calls + 1 /\ t.user = u /\ t.room = r /\ t.ids = ids
      /\ t.marked = 0 /\ t.upto = Len(messages) /\ t \in CallRecord
  <2>1. NoCall \in CallRecord /\ NoCall.marked = 0
    BY DEF NoCall, CallRecord, PCs, Kinds
  <2>2. pc \in PCs /\ k \in Kinds
    BY DEF PCs, Kinds
  <2>3. calls + 1 \in Nat /\ Len(messages) \in Nat /\ 0 \in Nat
    BY <1>0
  <2> QED BY <2>1, <2>2, <2>3 DEF NewCall, CallRecord
<1> HIDE DEF t
<1>3. Shape(t, calls')
  BY <1>0, <1>2 DEF Shape
<1>4. Stored(t, messages') /\ Covered(t, messages', receipts')
  BY <1>0, <1>2 DEF Stored, Covered
<1>5. Made(receipts', calls + 1) = {}
  BY <1>0 DEF TablesInv, Made
<1>6. Counted(t, receipts')
  BY <1>2, <1>5, FS_EmptySet DEF Counted
<1>7. Grown(calls + 1)
  BY <1>0 DEF Grown
<1>8. s \in Slots /\ task[s].pc = "idle"
  BY <1>1 DEF FreeSlots
<1>9. task' \in [Slots -> CallRecord] /\ \A x \in Slots : task'[x] = IF x = s THEN t ELSE task[x]
  BY <1>0, <1>1, <1>2, <1>8 DEF CallsInv
<1>10. \A x \in Slots : task[x].pc # "idle" => task[x].id \in 1..calls
  BY <1>0 DEF CallsInv, CallInv, Shape
<1>11. ASSUME NEW x \in Slots, x # s
       PROVE  CallInv(task[x], messages', receipts', calls')
  <2>1. CallInv(task[x], messages, receipts, calls) /\ (task[x].pc # "idle" => task[x].id # calls + 1)
    BY <1>0, <1>10 DEF CallsInv
  <2> QED BY <1>0, <1>7, <2>1, CallKept
<1>12. CallsInv'
  <2>1. \A x \in Slots : CallInv(task'[x], messages', receipts', calls')
    BY <1>3, <1>4, <1>6, <1>9, <1>11 DEF CallInv
  <2>2. \A x, y \in Slots : x # y /\ task'[x].pc # "idle" /\ task'[y].pc # "idle"
                             => task'[x].id # task'[y].id
    BY <1>0, <1>2, <1>9, <1>10 DEF CallsInv
  <2> QED BY <1>9, <2>1, <2>2 DEF CallsInv
<1>13. TablesInv'
  BY <1>0 DEF TablesInv
<1> QED BY <1>0, <1>12, <1>13, NothingEmitted

LEMMA InsertMessageStep ==
  ASSUME Inv, NEW s \in Slots, InsertMessage(s)
  PROVE  CallsInv' /\ TablesInv' /\ EmittedTrue'
<1> DEFINE c == task[s]
           t == [c EXCEPT !.pc = "readBack", !.at = Len(messages) + 1]
           m == [room |-> c.room, sender |-> c.user]
<1>0. /\ CallsInv /\ TablesInv /\ Len(messages) \in Nat /\ calls \in Nat /\ c.pc = "insertMessage"
      /\ task' = [task EXCEPT ![s] = t] /\ messages' = Append(messages, m)
      /\ receipts' = receipts /\ calls' = calls /\ emitted' = Nothing
  <2>1. [task EXCEPT ![s].pc = "readBack", ![s].at = Len(messages) + 1] = [task EXCEPT ![s] = t]
    BY DEF Inv, CallsInv
  <2> QED BY <2>1, LenType DEF Inv, InsertMessage, Silent
<1>1. CallInv(c, messages, receipts, calls) /\ c \in CallRecord
  BY <1>0 DEF CallsInv
<1>2. m \in Message
  BY <1>0, <1>1 DEF CallInv, Shape, Message
<1> HIDE DEF m
<1>3. /\ messages' \in Seq(Message) /\ Len(messages') = Len(messages) + 1
      /\ \A j \in 1..Len(messages) : messages'[j] = messages[j]
      /\ messages'[Len(messages) + 1] = m
  BY <1>0, <1>2, AppendProperties DEF TablesInv
<1>4. Grown(c.id)
  BY <1>0, <1>3 DEF Grown
<1>5. TablesInv'
  BY <1>0, <1>3 DEF TablesInv
<1>6. /\ t.pc = "readBack" /\ t.at = Len(messages) + 1 /\ t.kind = c.kind /\ t.id = c.id
      /\ t.user = c.user /\ t.room = c.room /\ t.marked = c.marked /\ t.upto = c.upto
      /\ t.ids = c.ids /\ t \in CallRecord
  <2>1. Len(messages) + 1 \in Nat /\ "readBack" \in PCs
    BY <1>0 DEF PCs
  <2> HIDE DEF c
  <2> QED BY <1>1, <2>1 DEF CallRecord
<1> HIDE DEF t, c
<1>7. CallInv(t, messages', receipts', calls')
  <2>1. Shape(t, calls')
    BY <1>0, <1>1, <1>6 DEF CallInv, Shape
  <2>2. c.upto \in Nat
    BY <1>1 DEF CallRecord
  <2>3. Stored(t, messages')
    BY <1>0, <1>1, <1>3, <1>6, <2>2 DEF CallInv, Stored, m
  <2>4. Covered(t, messages', receipts') /\ Counted(t, receipts')
    BY <1>0, <1>1, <1>6 DEF CallInv, Covered, Counted
  <2> QED BY <2>1, <2>3, <2>4 DEF CallInv
<1>8. CallsInv'
  <2>1. Grown(task[s].id) /\ task[s].pc # "idle" /\ t.id = task[s].id
    BY <1>0, <1>4, <1>6 DEF c
  <2> QED BY <1>0, <1>7, <2>1, CallReplaced
<1> QED BY <1>0, <1>5, <1>8, NothingEmitted

\* A call ends without having written anything.
LEMMA EndedStep ==
  ASSUME Inv, NEW s \in Slots, task[s].pc # "idle", Ended(s),
         UNCHANGED <<messages, receipts, calls>>
  PROVE  CallsInv' /\ TablesInv'
<1>0. CallsInv /\ TablesInv /\ task' = [task EXCEPT ![s] = NoCall]
  BY DEF Inv, Ended
<1>1. TablesInv' /\ Grown(task[s].id)
  BY <1>0, TablesUntouched
<1>2. CallInv(NoCall, messages', receipts', calls') /\ NoCall.pc = "idle"
  BY <1>1, NoCallInv DEF TablesInv
<1> QED BY <1>0, <1>1, <1>2, CallReplaced

LEMMA AnnounceStep ==
  ASSUME Inv, NEW s \in Slots, Announce(s)
  PROVE  CallsInv' /\ TablesInv' /\ EmittedTrue'
<1> DEFINE t == task[s]
           a == [message |-> t.at, hearers |-> Hearers(t.room, t.user) \ gone,
                 direct |-> Notified(t.room, t.user) \ gone]
<1>0. /\ t.pc = "readBack" /\ Ended(s) /\ emitted' = a
      /\ UNCHANGED <<messages, receipts, calls, gone, clientUsers, userClients>>
  BY DEF Announce, connections, tables
<1>1. CallsInv' /\ TablesInv'
  BY <1>0, EndedStep
<1>2. /\ DOMAIN a = {"message", "hearers", "direct"} /\ a.message = t.at
      /\ a.direct = Notified(t.room, t.user) \ gone
  OBVIOUS
<1>3. messages[t.at] = [room |-> t.room, sender |-> t.user]
  BY <1>0 DEF Inv, CallsInv, CallInv, Stored
<1> HIDE DEF a, t
<1>4. ~IsAnswered'
  BY <1>0, <1>2 DEF IsAnswered
<1>5. ASSUME NEW k \in Sockets, clientUsers[k] # None, clientUsers[k] = Recipient(t.room, t.user)
      PROVE  k \in a.direct
  <2>1. clientUsers[k] \in Users /\ k \in userClients[clientUsers[k]] /\ k \notin gone
    BY <1>5 DEF Inv, Registrations
  <2> QED BY <1>2, <1>5, <2>1 DEF Notified
<1>6. RecipientNotified'
  <2>1. messages'[emitted'.message].room = t.room /\ messages'[emitted'.message].sender = t.user
    BY <1>0, <1>2, <1>3
  <2> QED BY <1>0, <1>5, <2>1 DEF RecipientNotified, Recipient
<1>7. MarkedOnce' /\ AllRead'
  BY <1>1, <1>4 DEF MarkedOnce, AllRead, TablesInv
<1> QED BY <1>1, <1>6, <1>7 DEF EmittedTrue

\* The call in slot s, which is t by now, and has made n receipts, goes on to
\* its next message, or answers.
LEMMA GoOnStep ==
  ASSUME Inv, TablesInv', NEW s \in Slots, task[s].pc \in {"findReceipt", "insertReceipt"},
         Grown(task[s].id), messages' = messages, calls' = calls,
         NEW m \in Nat, NEW n \in Nat,
         IsFiniteSet(Made(receipts', task[s].id)), Cardinality(Made(receipts', task[s].id)) = n,
         NEW t, t = [task[s] EXCEPT !.at = m],
         GoOn(s, t, n)
  PROVE  CallsInv' /\ EmittedTrue'
<1> DEFINE c == task[s]
<1>0. CallsInv /\ TablesInv /\ CallInv(c, messages, receipts, calls) /\ c \in CallRecord
  BY DEF Inv, CallsInv
<1>1. /\ t.at = m /\ t.pc = c.pc /\ t.id = c.id /\ t.user = c.user /\ t.room = None
      /\ t.upto = c.upto /\ t.ids = c.ids /\ t.kind = c.kind /\ t \in CallRecord
  BY <1>0 DEF CallRecord, CallInv, Shape
<1>2. CASE t.ids \ {t.at} = {}
  <2>1. Ended(s) /\ emitted' = IF t.kind = "markOne" THEN Nothing ELSE Answered(t, n)
    BY <1>2 DEF GoOn
  <2>2. CallInv(NoCall, messages', receipts', calls') /\ NoCall.pc = "idle"
    BY NoCallInv DEF TablesInv
  <2>3. CallsInv'
    BY <1>0, <2>1, <2>2, CallReplaced DEF Ended
  <2>4. EmittedTrue'
    <3>1. CASE emitted' = Nothing
      BY <3>1, NothingEmitted
    <3>2. CASE emitted' = Answered(t, n)
      <4>1. t.id = task[s].id
        BY <1>1
      <4>2. Cardinality(Made(receipts', t.id)) = n
        BY <4>1
      <4> QED BY <1>1, <3>2, <4>2, AnswerEmitted
    <3> QED BY <2>1, <3>1, <3>2
  <2> QED BY <2>3, <2>4
<1>3. CASE t.ids \ {t.at} # {}
  <2> DEFINE x == [t EXCEPT !.pc = "findReceipt", !.ids = @ \ {t.at}, !.at = 0, !.marked = n]
  <2>1. task' = [task EXCEPT ![s] = x] /\ emitted' = Nothing
    BY <1>3 DEF GoOn, Silent
  <2>2. /\ x.pc = "findReceipt" /\ x.id = c.id /\ x.user = c.user /\ x.room = None
        /\ x.upto = c.upto /\ x.kind = c.kind /\ x.marked = n /\ x \in CallRecord
    <3>1. /\ x.pc = "findReceipt" /\ x.id = t.id /\ x.user = t.user /\ x.room = t.room
          /\ x.upto = t.upto /\ x.kind = t.kind /\ x.marked = n
      BY <1>1 DEF CallRecord
    <3>2. t.ids \ {t.at} \in SUBSET Nat /\ "findReceipt" \in PCs /\ 0 \in Nat
      BY <1>1 DEF CallRecord, PCs
    <3>3. x \in CallRecord
      <4>1. t \in CallRecord
        BY <1>1
      <4>2. \A S \in SUBSET Nat : \A pc \in PCs :
              [t EXCEPT !.pc = pc, !.ids = S, !.at = 0, !.marked = n] \in CallRecord
        BY <4>1 DEF CallRecord
      <4>3. x = [t EXCEPT !.pc = "findReceipt", !.ids = t.ids \ {t.at}, !.at = 0, !.marked = n]
        BY <4>1 DEF CallRecord
      <4> HIDE DEF x
      <4> QED BY <3>2, <4>2, <4>3
    <3> QED BY <1>1, <3>1, <3>3
  <2> HIDE DEF x
  <2>3. Shape(x, calls')
    BY <1>0, <2>2 DEF CallInv, Shape
  <2>4. Stored(x, messages') /\ Covered(x, messages', receipts') /\ Counted(x, receipts')
    BY <1>0, <2>2 DEF CallInv, Stored, Covered, Counted
  <2>5. CallInv(x, messages', receipts', calls')
    BY <2>3, <2>4 DEF CallInv
  <2>6. CallsInv'
    BY <1>0, <2>1, <2>2, <2>5, CallReplaced
  <2> QED BY <2>1, <2>6, NothingEmitted
<1> QED BY <1>2, <1>3

LEMMA FindReceiptStep ==
  ASSUME Inv, NEW s \in Slots, FindReceipt(s)
  PROVE  CallsInv' /\ TablesInv' /\ EmittedTrue'
<1> DEFINE c == task[s]
<1>0. /\ CallsInv /\ TablesInv /\ CallInv(c, messages, receipts, calls) /\ c \in CallRecord
      /\ c.pc = "findReceipt" /\ UNCHANGED <<messages, receipts, calls>>
  BY DEF Inv, CallsInv, FindReceipt, tables
<1>1. TablesInv' /\ Grown(c.id)
  BY <1>0, TablesUntouched
<1>2. PICK m \in c.ids :
        LET t == [c EXCEPT !.at = m] IN
        IF IsRead(m, t.user) THEN GoOn(s, t, t.marked)
        ELSE /\ task' = [task EXCEPT ![s] = [t EXCEPT !.pc = "insertReceipt"]]
             /\ Silent
  BY DEF FindReceipt
<1>3. m \in Nat /\ c.marked \in Nat
  BY <1>0 DEF CallRecord
<1> DEFINE t == [c EXCEPT !.at = m]
           x == [t EXCEPT !.pc = "insertReceipt"]
<1>4. IsFiniteSet(Made(receipts', c.id)) /\ Cardinality(Made(receipts', c.id)) = c.marked
  BY <1>0 DEF CallInv, Counted
<1>5. t.marked = c.marked
  BY <1>0 DEF CallRecord
<1>6. CASE IsRead(m, t.user)
  <2>1. GoOn(s, t, c.marked)
    BY <1>2, <1>5, <1>6
  <2> HIDE DEF t
  <2> QED BY <1>0, <1>1, <1>3, <1>4, <2>1, GoOnStep DEF t
<1>7. CASE ~IsRead(m, t.user)
  <2>1. task' = [task EXCEPT ![s] = x] /\ emitted' = Nothing
    BY <1>2, <1>7 DEF Silent
  <2>2. /\ x.pc = "insertReceipt" /\ x.id = c.id /\ x.user = c.user /\ x.room = c.room
        /\ x.upto = c.upto /\ x.kind = c.kind /\ x.marked = c.marked /\ x \in CallRecord
    BY <1>0, <1>3 DEF CallRecord, PCs
  <2> HIDE DEF x
  <2>3. Shape(x, calls')
    BY <1>0, <2>2 DEF CallInv, Shape
  <2>4. Stored(x, messages') /\ Covered(x, messages', receipts') /\ Counted(x, receipts')
    BY <1>0, <2>2 DEF CallInv, Stored, Covered, Counted
  <2>5. CallInv(x, messages', receipts', calls')
    BY <2>3, <2>4 DEF CallInv
  <2>6. CallsInv'
    BY <1>0, <1>1, <2>1, <2>2, <2>5, CallReplaced
  <2> QED BY <1>1, <2>1, <2>6, NothingEmitted
<1> QED BY <1>6, <1>7

\* A call inserts receipts for messages that its user has not read: they are as
\* many as the messages, and are new.
LEMMA ReceiptsAdded ==
  ASSUME TablesInv, NEW t \in CallRecord, t.id \in 1..calls, NEW ids \in SUBSET Nat,
         IsFiniteSet(ids), ~Collides(ids, t.user), Counted(t, receipts), t.pc # "idle",
         receipts' = receipts \cup Receipts(t, ids), messages' = messages, calls' = calls
  PROVE  /\ TablesInv' /\ Grown(t.id)
         /\ IsFiniteSet(Made(receipts', t.id))
         /\ Cardinality(Made(receipts', t.id)) = t.marked + Cardinality(ids)
         /\ \A m \in ids : ReadIn(receipts', m, t.user)
<1> DEFINE New == Receipts(t, ids)
           f == [m \in ids |-> [message |-> m, user |-> t.user, by |-> t.id]]
<1>1. \A x \in New : x.message \in ids /\ x.user = t.user /\ x.by = t.id
  BY DEF Receipts
<1>2. \A x, y \in New : x.message = y.message => x = y
  BY DEF Receipts
<1>3. \A m \in ids : \E x \in New : x.message = m /\ x.user = t.user
  <2> SUFFICES ASSUME NEW m \in ids PROVE \E x \in New : x.message = m /\ x.user = t.user
    OBVIOUS
  <2> DEFINE x == [message |-> m, user |-> t.user, by |-> t.id]
  <2>1. x \in New /\ x.message = m /\ x.user = t.user
    BY DEF Receipts
  <2> HIDE DEF x
  <2> QED BY <2>1
<1>4. f \in Surjection(ids, New) /\ f \in Injection(ids, New)
  <2>1. f \in [ids -> New] /\ \A m \in ids : f[m].message = m
    BY DEF Receipts
  <2>2. \A x \in New : \E m \in ids : f[m] = x
    BY DEF Receipts
  <2> HIDE DEF f, New
  <2> QED BY <2>1, <2>2 DEF Surjection, Injection, IsInjective
<1>5. IsFiniteSet(New) /\ Cardinality(New) = Cardinality(ids)
  <2> HIDE DEF f, New
  <2> QED BY <1>4, FS_Surjection
<1>6. \A x \in receipts, y \in New : ~(x.message = y.message /\ x.user = y.user)
  BY <1>1 DEF Collides, IsRead
<1>7. receipts' = receipts \cup New
  OBVIOUS
<1> HIDE DEF New
<1>8. TablesInv'
  BY <1>1, <1>2, <1>6, <1>7 DEF TablesInv
<1>9. Grown(t.id)
  BY <1>1, <1>7, LenType DEF Grown
<1>10. Made(receipts', t.id) = Made(receipts, t.id) \cup New
       /\ Made(receipts, t.id) \cap New = {}
  BY <1>1, <1>6, <1>7 DEF Made
<1>11. IsFiniteSet(Made(receipts, t.id)) /\ Cardinality(Made(receipts, t.id)) = t.marked
  BY DEF Counted
<1>12. /\ IsFiniteSet(Made(receipts', t.id))
       /\ Cardinality(Made(receipts', t.id)) = t.marked + Cardinality(ids)
  <2>1. Cardinality(ids) \in Nat /\ t.marked \in Nat
    BY FS_CardinalityType DEF CallRecord
  <2>2. /\ IsFiniteSet(Made(receipts, t.id) \cup New)
        /\ Cardinality(Made(receipts, t.id) \cup New) = t.marked + Cardinality(ids) - 0
    BY <1>5, <1>10, <1>11, FS_Union, FS_EmptySet
  <2>3. t.marked + Cardinality(ids) - 0 = t.marked + Cardinality(ids)
    BY <2>1
  <2>4. Made(receipts', t.id) = Made(receipts, t.id) \cup New
    BY <1>10
  <2> QED BY <2>2, <2>3, <2>4, Zenon
<1>13. \A m \in ids : ReadIn(receipts', m, t.user)
  BY <1>3, <1>7 DEF ReadIn
<1> QED BY <1>8, <1>9, <1>12, <1>13

LEMMA InsertReceiptStep ==
  ASSUME Inv, NEW s \in Slots, InsertReceipt(s)
  PROVE  CallsInv' /\ TablesInv' /\ EmittedTrue'
<1> DEFINE c == task[s]
<1>0. /\ CallsInv /\ TablesInv /\ CallInv(c, messages, receipts, calls) /\ c \in CallRecord
      /\ c.pc = "insertReceipt" /\ messages' = messages /\ calls' = calls
  BY DEF Inv, CallsInv, InsertReceipt
<1>1. CASE Collides({c.at}, c.user)
  <2>1. Ended(s) /\ Silent /\ UNCHANGED receipts
    BY <1>1 DEF InsertReceipt
  <2> QED BY <1>0, <2>1, EndedStep, NothingEmitted DEF Silent
<1>2. CASE ~Collides({c.at}, c.user)
  <2>1. receipts' = receipts \cup Receipts(c, {c.at}) /\ GoOn(s, c, c.marked + 1)
    BY <1>2 DEF InsertReceipt
  <2>2. /\ c.at \in Nat /\ c.marked \in Nat /\ c.id \in 1..calls /\ Counted(c, receipts)
        /\ c = [c EXCEPT !.at = c.at]
    BY <1>0 DEF CallRecord, CallInv, Shape
  <2>3. IsFiniteSet({c.at}) /\ Cardinality({c.at}) = 1 /\ {c.at} \in SUBSET Nat
    BY <2>2, FS_Singleton
  <2>4. /\ TablesInv' /\ Grown(c.id) /\ IsFiniteSet(Made(receipts', c.id))
        /\ Cardinality(Made(receipts', c.id)) = c.marked + 1
    <3> HIDE DEF c
    <3> QED BY <1>0, <1>2, <2>1, <2>2, <2>3, ReceiptsAdded
  <2>5. c.marked + 1 \in Nat
    BY <2>2
  <2>6. c = [task[s] EXCEPT !.at = c.at] /\ c.id = task[s].id /\ task[s].pc \in {"findReceipt", "insertReceipt"}
    BY <1>0, <2>2
  <2> HIDE DEF c
  <2> QED BY <1>0, <2>1, <2>2, <2>4, <2>5, <2>6, GoOnStep
<1> QED BY <1>1, <1>2

LEMMA FindUnreadStep ==
  ASSUME Inv, NEW s \in Slots, FindUnread(s)
  PROVE  CallsInv' /\ TablesInv' /\ EmittedTrue'
<1> DEFINE c == task[s]
           ms == Unread(c.room, c.user)
<1>0. /\ CallsInv /\ TablesInv /\ CallInv(c, messages, receipts, calls) /\ c \in CallRecord
      /\ c.pc = "findUnread" /\ UNCHANGED <<messages, receipts, calls>>
  BY DEF Inv, CallsInv, FindUnread, tables
<1>1. TablesInv' /\ Grown(c.id)
  BY <1>0, TablesUntouched
<1>2. Len(messages) \in Nat /\ DOMAIN messages = 1..Len(messages) /\ c.upto \in Nat /\ c.upto <= Len(messages)
  BY <1>0, LenType DEF TablesInv, CallInv, Stored, CallRecord
<1>3. ms \subseteq 1..Len(messages) /\ ms \in SUBSET Nat
  BY <1>2 DEF Unread
<1>4. \A m \in 1..c.upto : messages[m].room = c.room /\ messages[m].sender # c.user
                             => m \in ms \/ ReadIn(receipts, m, c.user)
  BY <1>2 DEF Unread, IsRead, ReadIn
<1>5. Cardinality(Made(receipts, c.id)) = 0 /\ c.marked = 0
  BY <1>0 DEF CallInv, Counted, Shape
<1>6. CASE ms = {}
  <2>1. Ended(s) /\ emitted' = Answered(c, 0)
    BY <1>6 DEF FindUnread
  <2>2. CallsInv'
    BY <1>0, <2>1, EndedStep
  <2>3. \A m \in 1..c.upto : messages'[m].room = c.room /\ messages'[m].sender # c.user
                               => ReadIn(receipts', m, c.user)
    BY <1>0, <1>4, <1>6
  <2>4. Cardinality(Made(receipts', c.id)) = 0
    BY <1>0, <1>5
  <2> HIDE DEF c
  <2> QED BY <1>1, <2>1, <2>2, <2>3, <2>4, AnswerEmitted
<1>7. CASE ms # {}
  <2> DEFINE t == [c EXCEPT !.pc = "insertReceipts", !.ids = ms]
  <2>1. task' = [task EXCEPT ![s] = t] /\ emitted' = Nothing
    <3>1. [task EXCEPT ![s].pc = "insertReceipts", ![s].ids = ms] = [task EXCEPT ![s] = t]
      BY <1>0 DEF CallsInv
    <3> QED BY <1>7, <3>1 DEF FindUnread, Silent
  <2> HIDE DEF ms
  <2>2. /\ t.pc = "insertReceipts" /\ t.id = c.id /\ t.user = c.user /\ t.room = c.room /\ t.ids = ms
        /\ t.upto = c.upto /\ t.kind = c.kind /\ t.marked = c.marked /\ t \in CallRecord
    <3>1. "insertReceipts" \in PCs
      BY DEF PCs
    <3> HIDE DEF c
    <3> QED BY <1>0, <1>3, <3>1 DEF CallRecord
  <2> HIDE DEF t
  <2>3. Shape(t, calls')
    BY <1>0, <2>2 DEF CallInv, Shape
  <2>4. Stored(t, messages') /\ Counted(t, receipts')
    BY <1>0, <2>2 DEF CallInv, Stored, Counted
  <2>5. Covered(t, messages', receipts')
    BY <1>0, <1>3, <1>4, <2>2 DEF Covered
  <2>6. CallInv(t, messages', receipts', calls')
    BY <2>3, <2>4, <2>5 DEF CallInv
  <2>7. CallsInv'
    BY <1>0, <1>1, <2>1, <2>2, <2>6, CallReplaced
  <2> QED BY <1>1, <2>1, <2>7, NothingEmitted
<1> QED BY <1>6, <1>7

LEMMA InsertReceiptsStep ==
  ASSUME Inv, NEW s \in Slots, InsertReceipts(s)
  PROVE  CallsInv' /\ TablesInv' /\ EmittedTrue'
<1> DEFINE c == task[s]
<1>0. /\ CallsInv /\ TablesInv /\ CallInv(c, messages, receipts, calls) /\ c \in CallRecord
      /\ c.pc = "insertReceipts" /\ messages' = messages /\ calls' = calls /\ Ended(s)
  BY DEF Inv, CallsInv, InsertReceipts
<1>1. CASE Collides(c.ids, c.user)
  <2>1. Silent /\ UNCHANGED receipts
    BY <1>1 DEF InsertReceipts
  <2> QED BY <1>0, <2>1, EndedStep, NothingEmitted DEF Silent
<1>2. CASE ~Collides(c.ids, c.user)
  <2>1. receipts' = receipts \cup Receipts(c, c.ids) /\ emitted' = Answered(c, Cardinality(c.ids))
    BY <1>2 DEF InsertReceipts
  <2>2. /\ c.ids \in SUBSET Nat /\ c.ids \subseteq 1..Len(messages) /\ c.id \in 1..calls
        /\ Counted(c, receipts) /\ c.marked = 0
    BY <1>0 DEF CallRecord, CallInv, Shape, Covered
  <2>3. IsFiniteSet(c.ids)
    <3>1. Len(messages) \in Nat
      BY <1>0, LenType
    <3>2. IsFiniteSet(1..Len(messages))
      BY <3>1, FS_Interval
    <3> QED BY <2>2, <3>2, FS_Subset
  <2>4. /\ TablesInv' /\ Grown(c.id)
        /\ Cardinality(Made(receipts', c.id)) = c.marked + Cardinality(c.ids)
        /\ \A m \in c.ids : ReadIn(receipts', m, c.user)
    <3> HIDE DEF c
    <3> QED BY <1>0, <1>2, <2>1, <2>2, <2>3, ReceiptsAdded
  <2>5. Cardinality(Made(receipts', c.id)) = Cardinality(c.ids)
    BY <2>2, <2>3, <2>4, FS_CardinalityType
  <2>6. \A m \in 1..c.upto : messages'[m].room = c.room /\ messages'[m].sender # c.user
                               => ReadIn(receipts', m, c.user)
    <3>1. \A m \in 1..c.upto : messages[m].room = c.room /\ messages[m].sender # c.user
                                 => m \in c.ids \/ ReadIn(receipts, m, c.user)
      BY <1>0 DEF CallInv, Covered
    <3>2. \A m : ReadIn(receipts, m, c.user) => ReadIn(receipts', m, c.user)
      BY <2>4 DEF ReadIn, Grown
    <3> QED BY <1>0, <2>4, <3>1, <3>2
  <2>7. CallsInv'
    <3>1. CallInv(NoCall, messages', receipts', calls') /\ NoCall.pc = "idle"
      BY <2>4, NoCallInv DEF TablesInv
    <3> QED BY <1>0, <2>4, <3>1, CallReplaced DEF Ended
  <2>8. EmittedTrue'
    <3> HIDE DEF c
    <3> QED BY <2>1, <2>4, <2>5, <2>6, AnswerEmitted
  <2> QED BY <2>4, <2>7, <2>8
<1> QED BY <1>1, <1>2

LEMMA RestartStep ==
  ASSUME Inv, Restart
  PROVE  CallsInv' /\ TablesInv' /\ EmittedTrue'
<1>0. /\ task' = [s \in Slots |-> NoCall] /\ emitted' = Nothing
      /\ UNCHANGED <<messages, receipts, calls>> /\ TablesInv
  BY DEF Inv, Restart, Silent, tables
<1>1. TablesInv'
  BY <1>0, TablesUntouched
<1>2. CallInv(NoCall, messages', receipts', calls') /\ NoCall.pc = "idle"
  BY <1>1, NoCallInv DEF TablesInv
<1>3. NoCall \in CallRecord
  BY <1>2 DEF CallInv, Shape
<1>4. CallsInv'
  BY <1>0, <1>2, <1>3 DEF CallsInv
<1> QED BY <1>0, <1>1, <1>4, NothingEmitted

LEMMA InvStep == Inv /\ [Next]_vars => Inv'
<1> SUFFICES ASSUME Inv, [Next]_vars PROVE Inv'
  OBVIOUS
<1>1. Registrations'
  BY RegistrationsStep DEF Inv
<1>2. CallsInv' /\ TablesInv' /\ EmittedTrue'
  <2>1. CASE Connection \/ Reading \/ LoadFails
    <3>1. UNCHANGED <<messages, receipts, task, calls>> /\ Silent
      BY <2>1 DEF Connection, Reading, LoadFails, tables
    <3> QED BY <3>1, QuietStep
  <2>2. CASE Arrival
    <3>1. PICK u \in Users :
            \/ \E r \in Rooms : HandleMessage(u, r) \/ MarkRoomAsRead(u, r)
            \/ \E m \in DOMAIN messages : MarkMessageAsRead(u, m)
            \/ \E ms \in SUBSET DOMAIN messages \ {{}} : MarkMessagesAsRead(u, ms)
      BY <2>2 DEF Arrival
    <3>2. \A ms : ms \subseteq DOMAIN messages => ms \in SUBSET Nat
      BY DEF Inv, TablesInv
    <3>3. CASE \E r \in Rooms : HandleMessage(u, r)
      <4>1. PICK r \in Rooms : Begin("insertMessage", "send", u, r, {})
        BY <3>3 DEF HandleMessage
      <4> QED BY <4>1, BeginStep
    <3>4. CASE \E r \in Rooms : MarkRoomAsRead(u, r)
      <4>1. PICK r \in Rooms : Begin("findUnread", "markRoom", u, r, {})
        BY <3>4 DEF MarkRoomAsRead
      <4> QED BY <4>1, BeginStep
    <3>5. CASE \E m \in DOMAIN messages : MarkMessageAsRead(u, m)
      <4>1. PICK m \in DOMAIN messages : Begin("findReceipt", "markOne", u, None, {m})
        BY <3>5 DEF MarkMessageAsRead
      <4>2. {m} \in SUBSET Nat
        BY <3>2
      <4> QED BY <4>1, <4>2, BeginStep
    <3>6. CASE \E ms \in SUBSET DOMAIN messages \ {{}} : MarkMessagesAsRead(u, ms)
      <4>1. PICK ms \in SUBSET DOMAIN messages : Begin("findReceipt", "markMany", u, None, ms)
        BY <3>6 DEF MarkMessagesAsRead
      <4>2. ms \in SUBSET Nat
        BY <3>2
      <4> QED BY <4>1, <4>2, BeginStep
    <3> QED BY <3>1, <3>3, <3>4, <3>5, <3>6
  <2>3. CASE Restart
    BY <2>3, RestartStep
  <2>4. ASSUME NEW s \in Slots, Query(s)
        PROVE  CallsInv' /\ TablesInv' /\ EmittedTrue'
    BY <2>4, InsertMessageStep, AnnounceStep, FindReceiptStep, InsertReceiptStep, FindUnreadStep,
       InsertReceiptsStep DEF Query
  <2>5. ASSUME NEW s \in Slots, WriteFails(s)
        PROVE  CallsInv' /\ TablesInv' /\ EmittedTrue'
    <3>1. task[s].pc # "idle" /\ Ended(s) /\ UNCHANGED <<messages, receipts, calls>> /\ emitted' = Nothing
      BY <2>5 DEF WriteFails, tables, Silent
    <3> QED BY <3>1, EndedStep, NothingEmitted
  <2>6. CASE UNCHANGED vars
    <3>1. UNCHANGED <<connections, messages, receipts, task, calls, emitted>>
      BY <2>6 DEF vars, tables
    <3>2. CallsInv' /\ TablesInv'
      BY <3>1 DEF Inv, CallsInv, TablesInv
    <3>3. EmittedTrue'
      BY <3>1 DEF Inv, EmittedTrue, RecipientNotified, AllRead, MarkedOnce, IsAnnounced, IsAnswered,
                  IsRead, connections
    <3> QED BY <3>2, <3>3
  <2> QED BY <2>1, <2>2, <2>3, <2>4, <2>5, <2>6 DEF Next
<1> QED BY <1>1, <1>2 DEF Inv

---------------------------------------------------------------------------
(***************************************************************************)
(* The reader of a history.                                                *)
(***************************************************************************)

\* History and Newer of a table M.
HistoryIn(M, r)  == {m \in 1..Len(M) : M[m].room = r}
NewerIn(M, r, m) == {n \in HistoryIn(M, r) : n > m}

ReaderRecord ==
  [pc : {"idle", "rows", "count", "answeredMore", "answeredLast", "more", "done"},
   room : Rooms \cup {None}, page : Nat, shown : SUBSET Nat, fetched : SUBSET Nat, upto : Nat,
   told : SUBSET Nat, socket : Sockets \cup {None}]

\* What the page will show of the history once the response it waits for is in.
Loaded(d) == IF d.page = 1 THEN d.fetched ELSE d.shown \cup d.fetched

\* What was there at the first query and is not in S comes after the n newest
\* messages, or: there is no such message.
Beyond(d, M, S, n) ==
  \A m \in HistoryIn(M, d.room) : m <= d.upto /\ m \notin S => Cardinality(NewerIn(M, d.room, m)) >= n
Whole(d, M, S) == \A m \in HistoryIn(M, d.room) : m <= d.upto => m \in S

\* How many messages the pages have gone past that a reader shows, and those up
\* to the page that it is answered.
Past(d)  == IF d.pc = "more" THEN Skip(d.page) + Limit ELSE Skip(d.page)
Being(d) == Skip(d.page) + Limit

\* Messages move away from a reader, never past it: of what was there at its
\* first query, what it does not show comes after the pages it has gone past.
Ahead(d, M) ==
  /\ d.pc \in {"rows", "count", "answeredMore", "answeredLast", "more"} => Beyond(d, M, d.shown, Past(d))
  /\ d.pc \in {"count", "answeredMore"} => Beyond(d, M, Loaded(d), Being(d))
  /\ d.pc = "answeredLast" => Whole(d, M, Loaded(d))
  /\ d.pc = "done" => Whole(d, M, d.shown)

ReaderTyped(d, M) ==
  /\ d \in ReaderRecord
  /\ d.pc # "idle" => d.room \in Rooms /\ d.page >= 1
  /\ d.upto <= Len(M)
  /\ d.pc = "count" => Cardinality(d.fetched) \in Nat /\ Cardinality(d.fetched) <= Limit

\* Its socket is still in the room.
Present(d, J) == d.socket # None => d.room \in Rooms /\ d.socket \in J[d.room]

\* What is stored was announced before its socket listened, or is shown, or is
\* about to be announced.
AboutToAnnounce(T, m) == \E s \in Slots : T[s].pc = "readBack" /\ T[s].at = m
Followed(d, M, T) ==
  d.socket # None =>
    \A m \in HistoryIn(M, d.room) : m \in d.shown \/ m \in d.told \/ AboutToAnnounce(T, m)

\* Sockets in rooms are connected.
RoomsTyped ==
  /\ joined \in [Rooms -> SUBSET Sockets]
  /\ gone \subseteq Sockets
  /\ \A r \in Rooms : joined[r] \cap gone = {}

Reads ==
  /\ RoomsTyped
  /\ ReaderTyped(reader, messages)
  /\ Ahead(reader, messages)
  /\ Present(reader, joined)
  /\ Followed(reader, messages, task)

LEMMA SkipTyped ==
  ASSUME NEW p \in Nat, p >= 1
  PROVE  /\ Skip(p) \in Nat /\ Skip(1) = 0
         /\ Skip(p + 1) = Skip(p) + Limit
<1>1. Limit \in Nat
  BY ChatConstants
<1>2. p - 1 \in Nat /\ (p + 1) - 1 = (p - 1) + 1 /\ 1 - 1 = 0
  OBVIOUS
<1>3. \A n \in Nat : n * Limit \in Nat /\ (n + 1) * Limit = n * Limit + Limit /\ 0 * Limit = 0
  BY <1>1
<1> QED BY <1>2, <1>3 DEF Skip

LEMMA HistoryFinite ==
  ASSUME NEW M \in Seq(Message), NEW r, NEW m
  PROVE  /\ HistoryIn(M, r) \subseteq Nat /\ IsFiniteSet(HistoryIn(M, r))
         /\ Cardinality(HistoryIn(M, r)) \in Nat
         /\ IsFiniteSet(NewerIn(M, r, m)) /\ Cardinality(NewerIn(M, r, m)) \in Nat
<1>1. Len(M) \in Nat
  OBVIOUS
<1>2. IsFiniteSet(1..Len(M))
  BY <1>1, FS_Interval
<1>3. HistoryIn(M, r) \in SUBSET (1..Len(M)) /\ NewerIn(M, r, m) \in SUBSET (1..Len(M))
  BY DEF HistoryIn, NewerIn
<1>4. IsFiniteSet(HistoryIn(M, r)) /\ IsFiniteSet(NewerIn(M, r, m))
  BY <1>2, <1>3, FS_Subset
<1> QED BY <1>1, <1>3, <1>4, FS_CardinalityType

LEMMA SameHistory ==
  ASSUME messages \in Seq(Message), NEW r
  PROVE  History(r) = HistoryIn(messages, r) /\ \A m : Newer(m, r) = Cardinality(NewerIn(messages, r, m))
<1>1. DOMAIN messages = 1..Len(messages)
  OBVIOUS
<1>2. History(r) = HistoryIn(messages, r)
  BY <1>1 DEF History, HistoryIn
<1> QED BY <1>2 DEF Newer, NewerIn

\* Of two messages of a room, the older has more that are newer.
LEMMA OlderHasMore ==
  ASSUME NEW M \in Seq(Message), NEW r, NEW m \in HistoryIn(M, r), NEW n \in HistoryIn(M, r), m < n
  PROVE  Cardinality(NewerIn(M, r, n)) < Cardinality(NewerIn(M, r, m))
<1> DEFINE A == NewerIn(M, r, m)
           B == NewerIn(M, r, n)
<1>1. m \in Nat /\ n \in Nat /\ HistoryIn(M, r) \subseteq Nat
  BY HistoryFinite
<1>2. IsFiniteSet(A) /\ Cardinality(A) \in Nat /\ Cardinality(B) \in Nat
  BY HistoryFinite
<1>3. B \in SUBSET A /\ n \in A /\ n \notin B
  BY <1>1 DEF NewerIn
<1> HIDE DEF A, B
<1>4. Cardinality(B) <= Cardinality(A) /\ Cardinality(A) # Cardinality(B)
  BY <1>2, <1>3, FS_Subset
<1> QED BY <1>2, <1>4 DEF A, B

\* A message has fewer newer ones than the room has messages.
LEMMA NewerThanAll ==
  ASSUME NEW M \in Seq(Message), NEW r, NEW m \in HistoryIn(M, r)
  PROVE  Cardinality(NewerIn(M, r, m)) < Cardinality(HistoryIn(M, r))
<1>1. m \in Nat /\ HistoryIn(M, r) \subseteq Nat
  BY HistoryFinite
<1>2. IsFiniteSet(HistoryIn(M, r)) /\ Cardinality(HistoryIn(M, r)) \in Nat
      /\ Cardinality(NewerIn(M, r, m)) \in Nat
  BY HistoryFinite
<1>3. NewerIn(M, r, m) \in SUBSET HistoryIn(M, r) /\ m \notin NewerIn(M, r, m)
  BY <1>1 DEF NewerIn
<1>4. /\ Cardinality(NewerIn(M, r, m)) <= Cardinality(HistoryIn(M, r))
      /\ Cardinality(NewerIn(M, r, m)) # Cardinality(HistoryIn(M, r))
  BY <1>2, <1>3, FS_Subset
<1> QED BY <1>2, <1>4

\* A page holds Limit messages at most: no two have equally many newer ones.
LEMMA PageBound ==
  ASSUME messages \in Seq(Message), NEW r, NEW p \in Nat, p >= 1
  PROVE  /\ Page(r, p) \subseteq Nat
         /\ Cardinality(Page(r, p)) \in Nat
         /\ Cardinality(Page(r, p)) <= Limit
<1> DEFINE S == Page(r, p)
           T == Skip(p)..(Skip(p) + Limit - 1)
           f == [m \in S |-> Newer(m, r)]
<1>1. Skip(p) \in Nat /\ Limit \in Nat \ {0}
  BY SkipTyped, ChatConstants
<1>2. IsFiniteSet(T) /\ Cardinality(T) = Limit
  <2>1. Skip(p) \in Int /\ Skip(p) + Limit - 1 \in Int
    BY <1>1
  <2>2. IsFiniteSet(T) /\ Cardinality(T) = IF Skip(p) > Skip(p) + Limit - 1 THEN 0
                                           ELSE (Skip(p) + Limit - 1) - Skip(p) + 1
    BY <2>1, FS_Interval
  <2> QED BY <1>1, <2>2
<1>3. S \in SUBSET History(r) /\ History(r) = HistoryIn(messages, r)
  BY SameHistory DEF Page
<1>4. f \in [S -> T]
  BY DEF Page
<1>5. ASSUME NEW m \in S, NEW n \in S, f[m] = f[n]
      PROVE  m = n
  <2>1. Cardinality(NewerIn(messages, r, m)) = Cardinality(NewerIn(messages, r, n))
    BY <1>5, SameHistory
  <2>2. m \in HistoryIn(messages, r) /\ n \in HistoryIn(messages, r)
    BY <1>3
  <2>3. m \in Nat /\ n \in Nat
    BY <2>2, HistoryFinite
  <2>4. Cardinality(NewerIn(messages, r, m)) \in Nat
    BY HistoryFinite
  <2>5. ~(m < n) /\ ~(n < m)
    BY <2>1, <2>2, <2>4, OlderHasMore
  <2> QED BY <2>3, <2>5
<1> HIDE DEF T, f
<1>6. f \in Injection(S, T)
  BY <1>4, <1>5 DEF Injection, IsInjective
<1>7. IsFiniteSet(S) /\ Cardinality(S) <= Cardinality(T)
  BY <1>2, <1>6, FS_Injection
<1>8. S \subseteq Nat
  BY <1>3, HistoryFinite
<1> QED BY <1>2, <1>7, <1>8, FS_CardinalityType

LEMMA ReaderMoves ==
  ASSUME Reads, UNCHANGED <<connections, messages, task>>, NEW d, reader' = d,
         ReaderTyped(d, messages), Ahead(d, messages), Present(d, joined), Followed(d, messages, task)
  PROVE  Reads'
BY DEF Reads, RoomsTyped, connections

\* A message is announced, or about to be, or not stored.
LEMMA ToldOrPending ==
  ASSUME Inv, NEW r, NEW m \in HistoryIn(messages, r)
  PROVE  m \in Told \/ AboutToAnnounce(task, m)
<1>1. m \in DOMAIN messages
  BY DEF HistoryIn, Inv, TablesInv
<1> QED BY <1>1 DEF Told, Pending, AboutToAnnounce

LEMMA ToldTyped == Inv => Told \subseteq DOMAIN messages /\ Told \subseteq Nat
BY DEF Told, Inv, TablesInv

LEMMA PastTyped ==
  ASSUME NEW d \in ReaderRecord, d.page >= 1
  PROVE  Skip(d.page) \in Nat /\ Past(d) \in Nat /\ Being(d) \in Nat
<1>1. d.page \in Nat
  BY DEF ReaderRecord
<1>2. Skip(d.page) \in Nat /\ Limit \in Nat
  BY <1>1, SkipTyped, ChatConstants
<1> QED BY <1>2 DEF Past, Being

\* A reader that shows more is as far, at least.
LEMMA BeyondGrows ==
  ASSUME NEW d, NEW e, NEW M, NEW S, NEW T, NEW n, S \subseteq T, d.room = e.room, d.upto = e.upto
  PROVE  /\ Beyond(d, M, S, n) => Beyond(e, M, T, n)
         /\ Whole(d, M, S) => Whole(e, M, T)
BY DEF Beyond, Whole

LEMMA OpenHistoryReads ==
  ASSUME Inv, Reads, UNCHANGED <<connections, messages, task>>, NEW p \in Pairs, OpenHistory(p[1], p[2])
  PROVE  Reads'
<1> DEFINE r == NormalizeRoom(p[1], p[2])
<1>1. r \in Rooms /\ Len(messages) \in Nat /\ messages \in Seq(Message)
  BY ChatConstants, LenType DEF Inv, TablesInv
<1> HIDE DEF r
<1> DEFINE d == [NoReader EXCEPT !.pc = "rows", !.room = r, !.page = 1]
<1>2. reader' = d
  BY DEF OpenHistory, r
<1>3. /\ d.pc = "rows" /\ d.room = r /\ d.page = 1 /\ d.socket = None /\ d.upto = 0
      /\ d \in ReaderRecord
  BY <1>1 DEF NoReader, ReaderRecord
<1> HIDE DEF d
<1>4. ReaderTyped(d, messages)
  BY <1>1, <1>3 DEF ReaderTyped
<1>5. Ahead(d, messages)
  <2>1. HistoryIn(messages, r) \subseteq Nat /\ \A m \in HistoryIn(messages, r) : m >= 1
    BY <1>1 DEF HistoryIn
  <2> QED BY <1>3, <2>1 DEF Ahead, Beyond
<1>6. Present(d, joined) /\ Followed(d, messages, task)
  BY <1>3 DEF Present, Followed
<1> QED BY <1>2, <1>4, <1>5, <1>6, ReaderMoves

LEMMA FetchRowsReads ==
  ASSUME Inv, Reads, UNCHANGED <<connections, messages, task>>, FetchRows
  PROVE  Reads'
<1> DEFINE S == Page(reader.room, reader.page)
           n == IF reader.page = 1 THEN Len(messages) ELSE reader.upto
           d == [reader EXCEPT !.pc = "count", !.fetched = S, !.upto = n]
<1>0. messages \in Seq(Message) /\ Len(messages) \in Nat
  BY LenType DEF Inv, TablesInv
<1>1. reader \in ReaderRecord /\ reader.pc = "rows" /\ reader.page \in Nat /\ reader.page >= 1
  BY DEF Reads, ReaderTyped, ReaderRecord, FetchRows
<1>2. reader' = d
  BY DEF FetchRows
<1>3. S \subseteq Nat /\ Cardinality(S) \in Nat /\ Cardinality(S) <= Limit
  BY <1>0, <1>1, PageBound
<1>4. n \in Nat /\ n <= Len(messages) /\ (reader.page # 1 => n = reader.upto)
  BY <1>0, <1>1 DEF Reads, ReaderTyped, ReaderRecord
<1>5. \A m \in HistoryIn(messages, reader.room) :
        Cardinality(NewerIn(messages, reader.room, m)) \in Skip(reader.page)..(Skip(reader.page) + Limit - 1)
          => m \in S
  BY <1>0, SameHistory DEF Page
<1> HIDE DEF S, n
<1>6. /\ d.pc = "count" /\ d.fetched = S /\ d.shown = reader.shown
      /\ d.room = reader.room /\ d.page = reader.page /\ d.upto = n
      /\ d.socket = reader.socket /\ d.told = reader.told /\ d \in ReaderRecord
  BY <1>1, <1>3, <1>4 DEF ReaderRecord
<1> HIDE DEF d
<1>7. ReaderTyped(d, messages)
  BY <1>1, <1>3, <1>4, <1>6 DEF Reads, ReaderTyped
<1>8. ASSUME NEW m \in HistoryIn(messages, d.room), m <= d.upto, m \notin d.shown
      PROVE  Cardinality(NewerIn(messages, d.room, m)) >= Skip(d.page)
  <2>1. Cardinality(NewerIn(messages, d.room, m)) \in Nat
    BY <1>0, HistoryFinite
  <2>2. CASE reader.page = 1
    BY <1>6, <2>1, <2>2, SkipTyped
  <2>3. CASE reader.page # 1
    <3>1. Past(reader) = Skip(reader.page) /\ Beyond(reader, messages, reader.shown, Past(reader))
      BY <1>1 DEF Reads, Ahead, Past
    <3> QED BY <1>4, <1>6, <1>8, <2>3, <3>1 DEF Beyond
  <2> QED BY <2>2, <2>3
<1>9. Beyond(d, messages, d.shown, Past(d))
  <2>1. Past(d) = Skip(d.page)
    BY <1>6 DEF Past
  <2> QED BY <1>8, <2>1 DEF Beyond
<1>10. Beyond(d, messages, Loaded(d), Being(d))
  <2> SUFFICES ASSUME NEW m \in HistoryIn(messages, d.room), m <= d.upto, m \notin Loaded(d)
               PROVE  Cardinality(NewerIn(messages, d.room, m)) >= Skip(d.page) + Limit
    BY DEF Beyond, Being
  <2>1. m \notin S /\ (d.page # 1 => m \notin d.shown)
    BY <1>6 DEF Loaded
  <2>2. /\ Cardinality(NewerIn(messages, d.room, m)) \in Nat /\ Skip(d.page) \in Nat /\ Limit \in Nat
        /\ Skip(1) = 0
    BY <1>0, <1>1, <1>6, HistoryFinite, SkipTyped, ChatConstants
  <2>3. Cardinality(NewerIn(messages, d.room, m)) >= Skip(d.page)
    BY <1>8, <2>1, <2>2
  <2> QED BY <1>5, <1>6, <2>1, <2>2, <2>3
<1>11. Ahead(d, messages)
  BY <1>6, <1>9, <1>10 DEF Ahead
<1>12. Present(d, joined) /\ Followed(d, messages, task)
  BY <1>6 DEF Reads, Present, Followed
<1> QED BY <1>2, <1>7, <1>11, <1>12, ReaderMoves

LEMMA FetchCountReads ==
  ASSUME Inv, Reads, UNCHANGED <<connections, messages, task>>, FetchCount
  PROVE  Reads'
<1> DEFINE H == HistoryIn(messages, reader.room)
           more == Skip(reader.page) + Cardinality(reader.fetched) < Cardinality(H)
           d == [reader EXCEPT !.pc = IF more THEN "answeredMore" ELSE "answeredLast"]
<1>0. messages \in Seq(Message) /\ History(reader.room) = H
  BY SameHistory DEF Inv, TablesInv
<1>1. reader \in ReaderRecord /\ reader.pc = "count" /\ reader' = d /\ reader.page \in Nat /\ reader.page >= 1
  BY <1>0 DEF Reads, ReaderTyped, ReaderRecord, FetchCount
<1>2. /\ d.pc = (IF more THEN "answeredMore" ELSE "answeredLast") /\ d.fetched = reader.fetched
      /\ d.shown = reader.shown /\ d.room = reader.room /\ d.page = reader.page /\ d.upto = reader.upto
      /\ d.socket = reader.socket /\ d.told = reader.told /\ d \in ReaderRecord
  BY <1>1 DEF ReaderRecord
<1> HIDE DEF d
<1>3. Past(d) = Past(reader) /\ Being(d) = Being(reader) /\ Loaded(d) = Loaded(reader)
  BY <1>1, <1>2 DEF Past, Being, Loaded
<1>4. ReaderTyped(d, messages)
  BY <1>1, <1>2 DEF Reads, ReaderTyped
<1>5. Beyond(d, messages, d.shown, Past(d)) /\ Beyond(d, messages, Loaded(d), Being(d))
  BY <1>1, <1>2, <1>3 DEF Reads, Ahead, Beyond
<1>6. ASSUME ~more PROVE Whole(d, messages, Loaded(d))
  <2> SUFFICES ASSUME NEW m \in H, m <= d.upto, m \notin Loaded(d) PROVE FALSE
    BY <1>2 DEF Whole
  <2>1. Cardinality(NewerIn(messages, reader.room, m)) >= Skip(reader.page) + Limit
    BY <1>2, <1>5 DEF Beyond, Being
  <2>2. Cardinality(NewerIn(messages, reader.room, m)) < Cardinality(H)
    BY <1>0, NewerThanAll
  <2>3. /\ Cardinality(NewerIn(messages, reader.room, m)) \in Nat /\ Cardinality(H) \in Nat
        /\ Skip(reader.page) \in Nat /\ Limit \in Nat
    BY <1>0, <1>1, HistoryFinite, SkipTyped, ChatConstants
  <2>4. Cardinality(reader.fetched) \in Nat /\ Cardinality(reader.fetched) <= Limit
    BY <1>1 DEF Reads, ReaderTyped
  <2> QED BY <1>6, <2>1, <2>2, <2>3, <2>4
<1>7. Ahead(d, messages)
  BY <1>2, <1>5, <1>6 DEF Ahead
<1>8. Present(d, joined) /\ Followed(d, messages, task)
  BY <1>2 DEF Reads, Present, Followed
<1> QED BY <1>1, <1>4, <1>7, <1>8, ReaderMoves

LEMMA ReceivePageReads ==
  ASSUME Inv, Reads, UNCHANGED <<connections, messages, task>>, ReceivePage
  PROVE  Reads'
<1> DEFINE told == IF reader.page = 1 THEN Told ELSE reader.told
           shown == Loaded(reader)
           pc == IF reader.pc = "answeredMore" THEN "more" ELSE "done"
           d == [reader EXCEPT !.pc = pc, !.shown = shown, !.fetched = {}, !.told = told]
<1>1. /\ reader \in ReaderRecord /\ reader.pc \in {"answeredMore", "answeredLast"} /\ reader.page >= 1
      /\ reader.page \in Nat
  BY DEF Reads, ReaderTyped, ReaderRecord, ReceivePage
<1>2. reader' = d
  BY Zenon DEF ReceivePage, Loaded
<1>3. shown \subseteq Nat /\ told \subseteq Nat /\ (reader.page # 1 => reader.shown \subseteq shown)
  BY <1>1, ToldTyped DEF ReaderRecord, Loaded
<1>4. /\ \A m \in HistoryIn(messages, reader.room) :
           reader.page = 1 => m \in told \/ AboutToAnnounce(task, m)
      /\ reader.page # 1 => told = reader.told
  BY ToldOrPending
<1> HIDE DEF shown, told
<1>5. /\ d.pc = pc /\ d.fetched = {} /\ d.shown = shown /\ d.room = reader.room /\ d.page = reader.page
      /\ d.upto = reader.upto /\ d.socket = reader.socket /\ d.told = told /\ d \in ReaderRecord
  BY <1>1, <1>3 DEF ReaderRecord
<1> HIDE DEF d
<1>6. ReaderTyped(d, messages)
  BY <1>1, <1>5 DEF Reads, ReaderTyped
<1>7. Ahead(d, messages)
  <2>1. CASE reader.pc = "answeredMore"
    <3>1. Beyond(reader, messages, shown, Being(reader))
      BY <2>1 DEF Reads, Ahead, shown
    <3>2. d.pc = "more" /\ Past(d) = Being(reader)
      BY <1>5, <2>1 DEF Past, Being
    <3> QED BY <1>5, <3>1, <3>2 DEF Ahead, Beyond
  <2>2. CASE reader.pc = "answeredLast"
    <3>1. Whole(reader, messages, shown)
      BY <2>2 DEF Reads, Ahead, shown
    <3>2. d.pc = "done"
      BY <1>5, <2>2
    <3> QED BY <1>5, <3>1, <3>2 DEF Ahead, Whole
  <2> QED BY <1>1, <2>1, <2>2
<1>8. Present(d, joined)
  BY <1>5 DEF Reads, Present
<1>9. Followed(d, messages, task)
  <2>1. CASE reader.page = 1
    BY <1>4, <1>5, <2>1 DEF Followed
  <2>2. CASE reader.page # 1
    BY <1>3, <1>4, <1>5, <2>2 DEF Reads, Followed
  <2> QED BY <2>1, <2>2
<1> QED BY <1>2, <1>6, <1>7, <1>8, <1>9, ReaderMoves

LEMMA LoadMoreReads ==
  ASSUME Inv, Reads, UNCHANGED <<connections, messages, task>>, LoadMore
  PROVE  Reads'
<1> DEFINE d == [reader EXCEPT !.pc = "rows", !.page = @ + 1]
<1>1. reader \in ReaderRecord /\ reader.pc = "more" /\ reader' = d /\ reader.page \in Nat /\ reader.page >= 1
  BY DEF Reads, ReaderTyped, ReaderRecord, LoadMore
<1>2. /\ d.pc = "rows" /\ d.shown = reader.shown /\ d.room = reader.room /\ d.page = reader.page + 1
      /\ d.upto = reader.upto /\ d.socket = reader.socket /\ d.told = reader.told
  BY <1>1 DEF ReaderRecord
<1>3. d \in ReaderRecord
  <2>1. \A n \in Nat : [reader EXCEPT !.pc = "rows", !.page = n] \in ReaderRecord
    BY <1>1 DEF ReaderRecord
  <2>2. reader.page + 1 \in Nat
    BY <1>1
  <2> QED BY <2>1, <2>2, Zenon
<1> HIDE DEF d
<1>4. Past(d) = Past(reader)
  <2>1. Past(reader) = Skip(reader.page) + Limit /\ Past(d) = Skip(reader.page + 1)
    BY <1>1, <1>2 DEF Past
  <2> QED BY <1>1, <2>1, SkipTyped
<1>5. ReaderTyped(d, messages)
  <2>1. d.page >= 1
    BY <1>1, <1>2
  <2> QED BY <1>1, <1>2, <1>3, <2>1 DEF Reads, ReaderTyped
<1>6. Ahead(d, messages)
  BY <1>1, <1>2, <1>4 DEF Reads, Ahead, Beyond
<1>7. Present(d, joined) /\ Followed(d, messages, task)
  BY <1>2 DEF Reads, Present, Followed
<1> QED BY <1>1, <1>5, <1>6, <1>7, ReaderMoves

\* A reader whose request fails is as far as it was before it asked.
LEMMA FailedReader ==
  ASSUME Inv, NEW d, ReaderTyped(d, messages), Ahead(d, messages),
         d.pc \in {"rows", "count", "answeredMore", "answeredLast"}
  PROVE  LET e == LoadFailed(d) IN
         /\ ReaderTyped(e, messages) /\ Ahead(e, messages)
         /\ e.shown = d.shown /\ e.told = d.told /\ e.room = d.room /\ e.socket = d.socket
         /\ e.fetched = {}
<1> DEFINE n == IF d.page = 1 THEN 1 ELSE d.page - 1
           u == IF d.page = 1 THEN 0 ELSE d.upto
           e == [d EXCEPT !.pc = "more", !.fetched = {}, !.page = n, !.upto = u]
<1>0. d \in ReaderRecord /\ d.page \in Nat /\ d.page >= 1 /\ d.upto \in Nat /\ d.upto <= Len(messages)
      /\ d.room \in Rooms /\ Len(messages) \in Nat /\ messages \in Seq(Message)
  BY LenType DEF ReaderTyped, ReaderRecord, Inv, TablesInv
<1>1. LoadFailed(d) = e
  BY <1>0 DEF LoadFailed
<1>2. n \in Nat /\ n >= 1 /\ u \in Nat /\ u <= Len(messages)
  BY <1>0
<1>3. d.page # 1 => n = d.page - 1 /\ u = d.upto /\ Skip(n) + Limit = Skip(d.page)
  <2>1. d.page # 1 => d.page = (d.page - 1) + 1 /\ d.page - 1 \in Nat /\ d.page - 1 >= 1
    BY <1>0
  <2>2. d.page # 1 => Skip((d.page - 1) + 1) = Skip(d.page - 1) + Limit
    BY <2>1, SkipTyped
  <2> QED BY <2>1, <2>2
<1>4. d.page = 1 => u = 0
  OBVIOUS
<1> HIDE DEF n, u
<1>5. /\ e.pc = "more" /\ e.fetched = {} /\ e.page = n /\ e.upto = u /\ e.shown = d.shown
      /\ e.told = d.told /\ e.room = d.room /\ e.socket = d.socket /\ e \in ReaderRecord
  BY <1>0, <1>2 DEF ReaderRecord
<1> HIDE DEF e
<1>6. ReaderTyped(e, messages)
  BY <1>0, <1>2, <1>5 DEF ReaderTyped
<1>7. Beyond(e, messages, e.shown, Past(e))
  <2>1. CASE d.page = 1
    <3>1. \A m \in HistoryIn(messages, e.room) : m \in Nat /\ m >= 1
      BY <1>0 DEF HistoryIn
    <3> QED BY <1>4, <1>5, <2>1, <3>1 DEF Beyond
  <2>2. CASE d.page # 1
    <3>1. Past(e) = Skip(d.page) /\ Past(d) = Skip(d.page)
      BY <1>3, <1>5, <2>2 DEF Past
    <3>2. Beyond(d, messages, d.shown, Past(d))
      BY DEF Ahead
    <3> QED BY <1>3, <1>5, <2>2, <3>1, <3>2 DEF Beyond
  <2> QED BY <2>1, <2>2
<1>8. Ahead(e, messages)
  BY <1>5, <1>7 DEF Ahead
<1> QED BY <1>1, <1>5, <1>6, <1>8

LEMMA LoadFailsReads ==
  ASSUME Inv, Reads, LoadFails
  PROVE  Reads'
<1> DEFINE e == LoadFailed(reader)
<1>1. /\ reader.pc \in {"rows", "count", "answeredMore", "answeredLast"} /\ reader' = e
      /\ UNCHANGED <<connections, messages, task>>
  BY DEF LoadFails, tables
<1>2. /\ ReaderTyped(e, messages) /\ Ahead(e, messages)
      /\ e.shown = reader.shown /\ e.told = reader.told /\ e.room = reader.room /\ e.socket = reader.socket
  BY <1>1, FailedReader DEF Reads
<1> HIDE DEF e
<1>3. Present(e, joined) /\ Followed(e, messages, task)
  BY <1>2 DEF Reads, Present, Followed
<1> QED BY <1>1, <1>2, <1>3, ReaderMoves

\* A reader without its socket.
LEMMA DeafReader ==
  ASSUME Reads
  PROVE  LET d == [reader EXCEPT !.socket = None] IN
         /\ ReaderTyped(d, messages) /\ Ahead(d, messages)
         /\ d.socket = None /\ d.pc = reader.pc /\ d.shown = reader.shown /\ d.fetched = reader.fetched
         /\ d.told = reader.told
<1> DEFINE d == [reader EXCEPT !.socket = None]
<1>1. reader \in ReaderRecord
  BY DEF Reads, ReaderTyped
<1>2. /\ d.pc = reader.pc /\ d.fetched = reader.fetched /\ d.shown = reader.shown
      /\ d.room = reader.room /\ d.page = reader.page /\ d.upto = reader.upto
      /\ d.socket = None /\ d.told = reader.told /\ d \in ReaderRecord
  BY <1>1 DEF ReaderRecord
<1> HIDE DEF d
<1>3. ReaderTyped(d, messages)
  BY <1>2 DEF Reads, ReaderTyped
<1>4. Past(d) = Past(reader) /\ Being(d) = Being(reader) /\ Loaded(d) = Loaded(reader)
  BY <1>2 DEF Past, Being, Loaded
<1>5. Ahead(d, messages)
  BY <1>2, <1>4 DEF Reads, Ahead, Beyond, Whole
<1> QED BY <1>2, <1>3, <1>5 DEF d

\* Steps that leave the reader alone, and the messages: no message waits for its
\* announcement any less.
LEMMA OthersMove ==
  ASSUME Reads, UNCHANGED <<messages, reader>>,
         \A m : AboutToAnnounce(task, m) => AboutToAnnounce(task', m),
         RoomsTyped', Present(reader, joined')
  PROVE  Reads'
BY DEF Reads, ReaderTyped, Followed

LEMMA OthersKeep ==
  ASSUME Inv, NEW s \in Slots, task[s].pc # "readBack", NEW t, task' = [task EXCEPT ![s] = t]
  PROVE  \A m : AboutToAnnounce(task, m) => AboutToAnnounce(task', m)
<1>1. \A x \in Slots : x # s => task'[x] = task[x]
  BY DEF Inv, CallsInv
<1> QED BY <1>1 DEF AboutToAnnounce

\* A new message is newer than those a reader is to show, and moves them on.
LEMMA BeyondAfterInsert ==
  ASSUME NEW M \in Seq(Message), NEW N \in Seq(Message), Len(N) = Len(M) + 1,
         \A m \in 1..Len(M) : N[m] = M[m],
         NEW d, d.upto \in Nat, d.upto <= Len(M), NEW S
  PROVE  /\ \A n \in Nat : Beyond(d, M, S, n) => Beyond(d, N, S, n)
         /\ Whole(d, M, S) => Whole(d, N, S)
<1>0. Len(M) \in Nat
  OBVIOUS
<1>1. /\ HistoryIn(M, d.room) \subseteq HistoryIn(N, d.room)
      /\ \A m \in HistoryIn(N, d.room) : m <= d.upto => m \in HistoryIn(M, d.room)
  BY <1>0 DEF HistoryIn
<1>2. \A m : Cardinality(NewerIn(M, d.room, m)) <= Cardinality(NewerIn(N, d.room, m))
  <2>1. \A m : NewerIn(M, d.room, m) \in SUBSET NewerIn(N, d.room, m)
    BY <1>1 DEF NewerIn
  <2>2. \A m : IsFiniteSet(NewerIn(N, d.room, m))
    BY HistoryFinite
  <2> QED BY <2>1, <2>2, FS_Subset
<1>3. \A m : /\ Cardinality(NewerIn(M, d.room, m)) \in Nat
             /\ Cardinality(NewerIn(N, d.room, m)) \in Nat
  BY HistoryFinite
<1> QED BY <1>1, <1>2, <1>3 DEF Beyond, Whole

LEMMA InsertMessageReads ==
  ASSUME Inv, Reads, NEW s \in Slots, InsertMessage(s)
  PROVE  Reads'
<1> DEFINE c == task[s]
           n == Len(messages) + 1
           w == [room |-> c.room, sender |-> c.user]
           t == [c EXCEPT !.pc = "readBack", !.at = n]
<1>0. /\ messages \in Seq(Message) /\ Len(messages) \in Nat /\ c.pc = "insertMessage"
      /\ messages' = Append(messages, w)
      /\ UNCHANGED <<gone, joined, reader>>
  BY LenType DEF InsertMessage, Inv, TablesInv, connections
<1>1. c \in CallRecord /\ w \in Message
  BY <1>0 DEF Inv, CallsInv, CallInv, Shape, Message
<1>2. task' = [task EXCEPT ![s] = t]
  BY DEF InsertMessage, Inv, CallsInv
<1>3. t.pc = "readBack" /\ t.at = n
  BY <1>1 DEF CallRecord
<1> HIDE DEF w, t
<1>4. /\ messages' \in Seq(Message) /\ Len(messages') = n
      /\ \A m \in 1..Len(messages) : messages'[m] = messages[m]
  BY <1>0, <1>1, AppendProperties
<1>5. \A x \in Slots : task'[x] = IF x = s THEN t ELSE task[x]
  BY <1>2 DEF Inv, CallsInv
<1>6. /\ AboutToAnnounce(task', n)
      /\ \A m : AboutToAnnounce(task, m) => AboutToAnnounce(task', m)
  BY <1>0, <1>3, <1>5 DEF AboutToAnnounce
<1> HIDE DEF c
<1>7. \A r : HistoryIn(messages', r) \cap (1..Len(messages)) = HistoryIn(messages, r)
             /\ HistoryIn(messages', r) \subseteq 1..n
  BY <1>0, <1>4 DEF HistoryIn
<1>8. reader \in ReaderRecord /\ reader.upto \in Nat /\ reader.upto <= Len(messages)
      /\ (reader.pc # "idle" => reader.page >= 1)
  BY DEF Reads, ReaderTyped, ReaderRecord
<1>9. ReaderTyped(reader', messages')
  <2>1. reader.upto <= n
    BY <1>0, <1>8
  <2> QED BY <1>0, <1>4, <2>1 DEF Reads, ReaderTyped
<1>10. Ahead(reader', messages')
  <2>1. /\ \A S : \A i \in Nat : Beyond(reader, messages, S, i) => Beyond(reader, messages', S, i)
        /\ \A S : Whole(reader, messages, S) => Whole(reader, messages', S)
    BY <1>0, <1>4, <1>8, BeyondAfterInsert
  <2>2. reader.pc # "idle" => Past(reader) \in Nat /\ Being(reader) \in Nat
    BY <1>8, PastTyped
  <2> QED BY <1>0, <2>1, <2>2 DEF Reads, Ahead
<1>11. Followed(reader', messages', task')
  <2> SUFFICES ASSUME reader.socket # None, NEW m \in HistoryIn(messages', reader.room)
               PROVE  m \in reader.shown \/ m \in reader.told \/ AboutToAnnounce(task', m)
    BY <1>0 DEF Followed
  <2>1. m \in HistoryIn(messages, reader.room) \/ m = n
    BY <1>0, <1>7
  <2> QED BY <1>6, <2>1 DEF Reads, Followed
<1> QED BY <1>0, <1>9, <1>10, <1>11 DEF Reads, RoomsTyped, Present

LEMMA AnnounceReads ==
  ASSUME Inv, Reads, NEW s \in Slots, Announce(s)
  PROVE  Reads'
<1> DEFINE t == task[s]
           heard == reader.socket \in emitted'.hearers /\ reader.room = t.room
           d == IF heard THEN [reader EXCEPT !.shown = @ \cup {t.at}] ELSE reader
<1>0. /\ t.pc = "readBack" /\ reader' = d
      /\ emitted'.hearers = joined[t.room] \ gone
      /\ task' = [task EXCEPT ![s] = NoCall]
      /\ UNCHANGED <<gone, joined, messages>>
  BY DEF Announce, HandleNewMessage, connections, tables, Hearers, Ended
<1>1. /\ t.at \in Nat /\ messages[t.at].room = t.room
      /\ reader \in ReaderRecord
  <2>1. CallInv(t, messages, receipts, calls) /\ t \in CallRecord
    BY DEF Inv, CallsInv
  <2>2. messages[t.at] = [room |-> t.room, sender |-> t.user]
    BY <1>0, <2>1 DEF CallInv, Stored
  <2>3. reader \in ReaderRecord
    BY DEF Reads, ReaderTyped
  <2>4. t.at \in Nat
    BY <2>1 DEF CallRecord
  <2> QED BY <2>2, <2>3, <2>4
<1>2. /\ d.pc = reader.pc /\ d.fetched = reader.fetched /\ d.room = reader.room
      /\ d.page = reader.page /\ d.upto = reader.upto
      /\ d.socket = reader.socket /\ d.told = reader.told
      /\ d.shown = IF heard THEN reader.shown \cup {t.at} ELSE reader.shown
      /\ d \in ReaderRecord
  BY <1>1 DEF ReaderRecord
<1>3. \A x \in Slots : task'[x] = IF x = s THEN NoCall ELSE task[x]
  BY <1>0 DEF Inv, CallsInv
<1>4. \A m : m # t.at /\ AboutToAnnounce(task, m) => AboutToAnnounce(task', m)
  BY <1>3 DEF AboutToAnnounce
<1>5. ASSUME reader.socket # None, t.at \in HistoryIn(messages, reader.room)
      PROVE  heard
  <2>1. reader.room = t.room /\ reader.room \in Rooms
    BY <1>1, <1>5 DEF HistoryIn, Reads, Present
  <2>2. reader.socket \in joined[reader.room] /\ reader.socket \notin gone
    BY <1>5, <2>1 DEF Reads, Present, RoomsTyped
  <2> QED BY <1>0, <2>1, <2>2
<1> HIDE DEF d, t, heard
<1>6. ReaderTyped(d, messages) /\ Present(d, joined)
  BY <1>2 DEF Reads, ReaderTyped, Present
<1>7. Ahead(d, messages)
  <2>1. Past(d) = Past(reader) /\ Being(d) = Being(reader)
    BY <1>2 DEF Past, Being
  <2>2. reader.shown \subseteq d.shown /\ Loaded(reader) \subseteq Loaded(d)
    BY <1>2 DEF Loaded
  <2>3. \A n : /\ Beyond(reader, messages, reader.shown, n) => Beyond(d, messages, d.shown, n)
               /\ Beyond(reader, messages, Loaded(reader), n) => Beyond(d, messages, Loaded(d), n)
    BY <1>2, <2>2, BeyondGrows
  <2>4. /\ Whole(reader, messages, reader.shown) => Whole(d, messages, d.shown)
        /\ Whole(reader, messages, Loaded(reader)) => Whole(d, messages, Loaded(d))
    BY <1>2, <2>2, BeyondGrows
  <2> QED BY <1>2, <2>1, <2>3, <2>4 DEF Reads, Ahead
<1>8. Followed(d, messages, task')
  <2> SUFFICES ASSUME reader.socket # None, NEW m \in HistoryIn(messages, reader.room)
               PROVE  m \in d.shown \/ m \in d.told \/ AboutToAnnounce(task', m)
    BY <1>2 DEF Followed
  <2>1. m \in reader.shown \/ m \in reader.told \/ AboutToAnnounce(task, m)
    BY DEF Reads, Followed
  <2>2. reader.shown \subseteq d.shown /\ reader.told = d.told
    BY <1>2
  <2>3. CASE m = t.at
    BY <1>2, <1>5, <2>3
  <2>4. CASE m # t.at
    BY <1>4, <2>1, <2>2, <2>4
  <2> QED BY <2>3, <2>4
<1> QED BY <1>0, <1>6, <1>7, <1>8 DEF Reads, RoomsTyped

\* A socket that leaves is not counted on.
LEMMA SocketLeaves ==
  ASSUME Inv, Reads, UNCHANGED <<messages, task>>,
         NEW k \in Sockets, NEW R \in SUBSET Rooms, reader' = ReaderWithout(k, R),
         RoomsTyped',
         \A r \in Rooms : joined[r] \ joined'[r] \subseteq IF r \in R THEN {k} ELSE {}
  PROVE  Reads'
<1> DEFINE d == [reader EXCEPT !.socket = None]
<1>1. /\ ReaderTyped(d, messages) /\ Ahead(d, messages) /\ d.socket = None
  BY DeafReader
<1> HIDE DEF d
<1>2. CASE reader.socket = k /\ reader.room \in R
  <2>1. reader' = d
    BY <1>2 DEF ReaderWithout, d
  <2> QED BY <1>1, <2>1 DEF Reads, Present, Followed
<1>3. CASE ~(reader.socket = k /\ reader.room \in R)
  <2>1. reader' = reader
    BY <1>3 DEF ReaderWithout
  <2>2. Present(reader, joined')
    BY <1>3 DEF Reads, Present
  <2> QED BY <2>1, <2>2, OthersMove DEF Reads
<1> QED BY <1>2, <1>3

\* The reader's socket joins: all that was announced before is told.
LEMMA SocketJoins ==
  ASSUME Inv, Reads, UNCHANGED <<messages, task>>, NEW k \in Sockets, NEW r \in Rooms,
         reader' \in {reader, ReaderWith(k, r)}, RoomsTyped', k \in joined'[r],
         \A q \in Rooms : joined[q] \subseteq joined'[q]
  PROVE  Reads'
<1>1. CASE reader' = reader
  <2>1. Present(reader, joined')
    BY DEF Reads, Present
  <2> QED BY <1>1, <2>1, OthersMove DEF Reads
<1>2. CASE reader' # reader
  <2> DEFINE T == Told
             d == [reader EXCEPT !.socket = k, !.told = T]
  <2>1. reader' = d /\ reader.room = r
    BY <1>2 DEF ReaderWith
  <2>2. reader \in ReaderRecord /\ T \subseteq Nat
    BY ToldTyped DEF Reads, ReaderTyped
  <2>3. \A m \in HistoryIn(messages, r) : m \in T \/ AboutToAnnounce(task, m)
    BY ToldOrPending
  <2> HIDE DEF T
  <2>4. /\ d.pc = reader.pc /\ d.fetched = reader.fetched /\ d.shown = reader.shown
        /\ d.room = reader.room /\ d.page = reader.page /\ d.upto = reader.upto
        /\ d.socket = k /\ d.told = T /\ d \in ReaderRecord
    BY <2>2 DEF ReaderRecord
  <2> HIDE DEF d
  <2>5. ReaderTyped(d, messages)
    BY <2>4 DEF Reads, ReaderTyped
  <2>6. Past(d) = Past(reader) /\ Being(d) = Being(reader) /\ Loaded(d) = Loaded(reader)
    BY <2>4 DEF Past, Being, Loaded
  <2>7. Ahead(d, messages)
    BY <2>4, <2>6 DEF Reads, Ahead, Beyond, Whole
  <2>8. Present(d, joined') /\ Followed(d, messages, task)
    BY <2>1, <2>3, <2>4 DEF Present, Followed
  <2> QED BY <2>1, <2>5, <2>7, <2>8 DEF Reads
<1> QED BY <1>1, <1>2

LEMMA ConnectionReads ==
  ASSUME Inv, Reads, Connection
  PROVE  Reads'
<1>0. UNCHANGED <<messages, task>>
  BY DEF Connection, tables
<1>1. ASSUME NEW k \in Sockets, NEW r \in Rooms, Join(k, r), reader' \in {reader, ReaderWith(k, r)}
      PROVE  Reads'
  <2>1. /\ \A q \in Rooms : joined'[q] = IF q = r THEN joined[q] \cup {k} ELSE joined[q]
        /\ joined' \in [Rooms -> SUBSET Sockets] /\ gone' = gone /\ k \notin gone
    BY <1>1 DEF Join, Reads, RoomsTyped
  <2>2. RoomsTyped'
    BY <2>1 DEF Reads, RoomsTyped
  <2>3. k \in joined'[r] /\ \A q \in Rooms : joined[q] \subseteq joined'[q]
    BY <2>1
  <2> QED BY <1>0, <1>1, <2>2, <2>3, SocketJoins
<1>2. ASSUME NEW k \in Sockets, NEW r \in Rooms, HandleLeaveRoom(k, r)
      PROVE  Reads'
  <2>1. /\ \A q \in Rooms : joined'[q] = IF q = r THEN joined[q] \ {k} ELSE joined[q]
        /\ joined' \in [Rooms -> SUBSET Sockets] /\ gone' = gone /\ reader' = ReaderWithout(k, {r})
    BY <1>2 DEF HandleLeaveRoom, Reads, RoomsTyped
  <2>2. RoomsTyped'
    BY <2>1 DEF Reads, RoomsTyped
  <2>3. \A q \in Rooms : joined[q] \ joined'[q] \subseteq IF q \in {r} THEN {k} ELSE {}
    BY <2>1
  <2>4. {r} \in SUBSET Rooms
    OBVIOUS
  <2> QED BY <1>0, <2>1, <2>2, <2>3, <2>4, SocketLeaves
<1>3. ASSUME NEW k \in Sockets, NEW u, HandleRegisterUser(k, u)
      PROVE  Reads'
  <2>1. UNCHANGED <<joined, gone, reader>>
    BY <1>3 DEF HandleRegisterUser
  <2> QED BY <1>0, <2>1, OthersMove DEF Reads, RoomsTyped
<1>4. ASSUME NEW k \in Sockets, HandleDisconnect(k)
      PROVE  Reads'
  <2>1. /\ \A q \in Rooms : joined'[q] = joined[q] \ {k}
        /\ joined' \in [Rooms -> SUBSET Sockets] /\ gone' = gone \cup {k}
        /\ reader' = ReaderWithout(k, Rooms)
    BY <1>4 DEF HandleDisconnect, Reads, RoomsTyped
  <2>2. RoomsTyped'
    BY <2>1 DEF Reads, RoomsTyped
  <2>3. \A q \in Rooms : joined[q] \ joined'[q] \subseteq IF q \in Rooms THEN {k} ELSE {}
    BY <2>1
  <2>4. Rooms \in SUBSET Rooms
    OBVIOUS
  <2> QED BY <1>0, <2>1, <2>2, <2>3, <2>4, SocketLeaves
<1>5. ASSUME NEW k \in Sockets, NEW r \in Rooms, HandleJoinRoom(k, r)
      PROVE  Reads'
  BY <1>1, <1>5 DEF HandleJoinRoom
<1>6. ASSUME NEW k \in Sockets, NEW p \in Pairs, HandleJoinRoomBetweenUsers(k, p[1], p[2])
      PROVE  Reads'
  BY <1>1, <1>6, ChatConstants DEF HandleJoinRoomBetweenUsers
<1> QED BY <1>2, <1>3, <1>4, <1>5, <1>6 DEF Connection

LEMMA ReadsInit == Init => Reads
<1> SUFFICES ASSUME Init PROVE Reads
  OBVIOUS
<1>1. RoomsTyped
  BY DEF Init, RoomsTyped
<1>2. messages \in Seq(Message) /\ Len(messages) \in Nat
  BY InvInit, LenType DEF Inv, TablesInv
<1>3. /\ reader.pc = "idle" /\ reader.socket = None /\ reader.upto = 0 /\ reader \in ReaderRecord
  BY DEF Init, NoReader, ReaderRecord
<1>4. ReaderTyped(reader, messages)
  BY <1>2, <1>3 DEF ReaderTyped
<1> QED BY <1>1, <1>3, <1>4 DEF Reads, Ahead, Present, Followed

LEMMA RestartReads ==
  ASSUME Inv, Reads, Restart
  PROVE  Reads'
<1> DEFINE d == [reader EXCEPT !.socket = None]
           e == LoadFailed(d)
<1>1. RoomsTyped'
  <2>1. joined' = [r \in Rooms |-> {}] /\ gone' \subseteq Sockets
    BY DEF Restart, Reads, RoomsTyped
  <2> QED BY <2>1 DEF RoomsTyped
<1>2. messages' = messages /\ reader' = IF reader.pc \in {"rows", "count"} THEN e ELSE d
  BY DEF Restart, tables
<1>3. ReaderTyped(d, messages) /\ Ahead(d, messages) /\ d.socket = None /\ d.pc = reader.pc
  BY DeafReader
<1> HIDE DEF d
<1>4. reader.pc \in {"rows", "count"} => ReaderTyped(e, messages) /\ Ahead(e, messages) /\ e.socket = None
  BY <1>3, FailedReader
<1> HIDE DEF e
<1>5. ReaderTyped(reader', messages) /\ Ahead(reader', messages) /\ reader'.socket = None
  BY <1>2, <1>3, <1>4
<1>6. Present(reader', joined') /\ Followed(reader', messages', task')
  BY <1>5 DEF Present, Followed
<1> QED BY <1>1, <1>2, <1>5, <1>6 DEF Reads

LEMMA ReadsStep == Inv /\ Reads /\ [Next]_vars => Reads'
<1> SUFFICES ASSUME Inv, Reads, [Next]_vars PROVE Reads'
  OBVIOUS
<1>1. CASE UNCHANGED vars
  BY <1>1, OthersMove DEF vars, connections, tables, Reads, RoomsTyped
<1>2. CASE Connection
  BY <1>2, ConnectionReads
<1>3. CASE Arrival
  <2>1. ASSUME NEW pc, NEW k, NEW u, NEW r, NEW ids, Begin(pc, k, u, r, ids)
        PROVE  Reads'
    <3>1. PICK s \in FreeSlots : task' = [task EXCEPT ![s] = NewCall(pc, k, u, r, ids)]
      BY <2>1 DEF Begin
    <3>2. s \in Slots /\ task[s].pc # "readBack"
      BY <3>1 DEF FreeSlots
    <3>3. \A m : AboutToAnnounce(task, m) => AboutToAnnounce(task', m)
      BY <3>1, <3>2, OthersKeep
    <3>4. UNCHANGED <<messages, reader, joined, gone>>
      BY <2>1 DEF Begin, connections, tables
    <3> QED BY <3>3, <3>4, OthersMove DEF Reads, RoomsTyped
  <2> QED BY <1>3, <2>1 DEF Arrival, HandleMessage, MarkRoomAsRead, MarkMessageAsRead, MarkMessagesAsRead
<1>4. CASE Reading
  <2>1. UNCHANGED <<connections, messages, task>>
    BY <1>4 DEF Reading, tables
  <2> QED BY <1>4, <2>1, OpenHistoryReads, FetchRowsReads, FetchCountReads, ReceivePageReads,
         LoadMoreReads DEF Reading
<1>5. CASE Restart
  BY <1>5, RestartReads
<1>6. ASSUME NEW s \in Slots,
             FindReceipt(s) \/ InsertReceipt(s) \/ FindUnread(s) \/ InsertReceipts(s) \/ WriteFails(s)
      PROVE  Reads'
  <2>1. task[s].pc # "readBack" /\ UNCHANGED <<messages, reader, joined, gone>>
    <3>1. CASE FindReceipt(s)
      BY <3>1, Zenon DEF FindReceipt, connections, tables
    <3>2. CASE InsertReceipt(s) \/ InsertReceipts(s)
      BY <3>2 DEF InsertReceipt, InsertReceipts, connections
    <3>3. CASE FindUnread(s)
      BY <3>3, Zenon DEF FindUnread, connections, tables
    <3>4. CASE WriteFails(s)
      BY <3>4 DEF WriteFails, connections, tables
    <3> QED BY <1>6, <3>1, <3>2, <3>3, <3>4
  <2>2. \E t : task' = [task EXCEPT ![s] = t]
    <3>1. CASE FindUnread(s)
      <4>1. [task EXCEPT ![s].pc = "insertReceipts", ![s].ids = Unread(task[s].room, task[s].user)]
              = [task EXCEPT ![s] = [task[s] EXCEPT !.pc = "insertReceipts",
                                                    !.ids = Unread(task[s].room, task[s].user)]]
        BY DEF Inv, CallsInv
      <4> QED BY <3>1, <4>1 DEF FindUnread, Ended
    <3>2. CASE FindReceipt(s)
      BY <3>2 DEF FindReceipt, GoOn, Ended
    <3>3. CASE InsertReceipt(s)
      BY <3>3 DEF InsertReceipt, GoOn, Ended
    <3>4. CASE InsertReceipts(s) \/ WriteFails(s)
      BY <3>4 DEF InsertReceipts, WriteFails, Ended
    <3> QED BY <1>6, <3>1, <3>2, <3>3, <3>4
  <2>3. \A m : AboutToAnnounce(task, m) => AboutToAnnounce(task', m)
    BY <2>1, <2>2, OthersKeep
  <2> QED BY <2>1, <2>3, OthersMove DEF Reads, RoomsTyped
<1>7. ASSUME NEW s \in Slots, InsertMessage(s) \/ Announce(s)
      PROVE  Reads'
  BY <1>7, InsertMessageReads, AnnounceReads
<1>8. CASE LoadFails
  BY <1>8, LoadFailsReads
<1> QED BY <1>1, <1>2, <1>3, <1>4, <1>5, <1>6, <1>7, <1>8 DEF Next, Query

LEMMA ReadsImplies == Inv /\ Reads => NothingMissed
<1> SUFFICES ASSUME Inv, Reads, reader.pc = "done", NEW m \in History(reader.room)
             PROVE  \/ m \in reader.shown
                    \/ /\ m > reader.upto
                       /\ reader.socket = None \/ m \in reader.told \cup Pending
  BY DEF NothingMissed
<1>1. m \in HistoryIn(messages, reader.room) /\ m \in Nat
  <2>1. messages \in Seq(Message)
    BY DEF Inv, TablesInv
  <2> QED BY <2>1, SameHistory, HistoryFinite
<1>2. reader.upto \in Nat
  BY DEF Reads, ReaderTyped, ReaderRecord
<1>3. m \in reader.shown \/ m > reader.upto
  BY <1>1, <1>2 DEF Reads, Ahead, Whole
<1>4. reader.socket # None => m \in reader.shown \/ m \in reader.told \/ m \in Pending
  BY <1>1 DEF Reads, Followed, AboutToAnnounce, Pending
<1> QED BY <1>3, <1>4

---------------------------------------------------------------------------
(***************************************************************************)
(* Types.                                                                  *)
(***************************************************************************)

Most == MaxOld + MaxCalls

\* Calls that are to store a message have a number each, so there is never a
\* message too many.
Inserting(T, c) == {i \in 1..c : \E s \in Slots : T[s].pc = "insertMessage" /\ T[s].id = i}
Counts ==
  /\ calls \in 0..MaxCalls
  /\ failures \in 0..MaxFailures
  /\ Len(messages) + Cardinality(Inserting(task, calls)) <= MaxOld + calls

\* A call marks no more messages than it was given.
Handy(t) ==
  /\ t \in Call
  /\ t.pc \in {"findReceipt", "insertReceipt"} => t.marked + Cardinality(t.ids) <= Most
  /\ t.pc = "insertReceipt" => t.at \in t.ids
  /\ t.pc \in {"findUnread", "insertReceipts"} => t.kind = "markRoom"
TasksTyped == task \in [Slots -> Call] /\ \A s \in Slots : Handy(task[s])

Emissions == Announcement \cup Answer \cup {Nothing}
Kept(d) == d.shown \cup d.fetched \cup d.told \subseteq MessageIds
Values ==
  /\ receipts \subseteq Receipt
  /\ emitted \in Emissions
  /\ Kept(reader)

Typed == Counts /\ TasksTyped /\ Values

LEMMA TypedTypeOK == Inv /\ Reads /\ Typed => TypeOK
<1> SUFFICES ASSUME Inv, Reads, Typed PROVE TypeOK
  OBVIOUS
<1>1. /\ reader.pc \in {"idle", "rows", "count", "answeredMore", "answeredLast", "more", "done"}
      /\ reader.room \in Rooms \cup {None} /\ reader.socket \in Sockets \cup {None}
      /\ {reader.page, reader.upto} \subseteq Nat
  BY DEF Reads, ReaderTyped, ReaderRecord
<1> QED BY <1>1 DEF TypeOK, Typed, Inv, Registrations, TablesInv, Reads, RoomsTyped, Counts, TasksTyped,
                   Values, Kept, Emissions

LEMMA MostTyped ==
  /\ Most \in Nat /\ MaxOld \in Nat /\ MaxCalls \in Nat /\ MaxFailures \in Nat
  /\ MessageIds = 1..Most /\ IsFiniteSet(MessageIds) /\ Cardinality(MessageIds) = Most
<1>1. Most \in Nat /\ MaxOld \in Nat /\ MaxCalls \in Nat /\ MaxFailures \in Nat
  BY ChatConstants DEF Most
<1>2. IsFiniteSet(1..Most) /\ Cardinality(1..Most) = Most
  <2>1. IsFiniteSet(1..Most) /\ Cardinality(1..Most) = IF 1 > Most THEN 0 ELSE Most - 1 + 1
    BY <1>1, FS_Interval
  <2> QED BY <1>1, <2>1
<1> QED BY <1>1, <1>2 DEF MessageIds, Most

LEMMA SomeMessages ==
  ASSUME NEW S \in SUBSET MessageIds
  PROVE  IsFiniteSet(S) /\ Cardinality(S) \in Nat /\ Cardinality(S) <= Most
BY MostTyped, FS_Subset, FS_CardinalityType

LEMMA InsertingFinite ==
  ASSUME NEW T, NEW c \in Nat
  PROVE  IsFiniteSet(Inserting(T, c)) /\ Cardinality(Inserting(T, c)) \in Nat
<1>1. IsFiniteSet(1..c)
  BY FS_Interval
<1>2. Inserting(T, c) \in SUBSET (1..c)
  BY DEF Inserting
<1> QED BY <1>1, <1>2, FS_Subset, FS_CardinalityType

\* There are no more messages than have numbers.
LEMMA MessagesFit ==
  ASSUME Inv, Counts
  PROVE  /\ Len(messages) \in Nat /\ Len(messages) <= MaxOld + calls /\ MaxOld + calls <= Most
         /\ calls \in Nat /\ DOMAIN messages = 1..Len(messages) /\ DOMAIN messages \subseteq MessageIds
<1>1. /\ calls \in Nat /\ calls <= MaxCalls /\ Len(messages) \in Nat
      /\ DOMAIN messages = 1..Len(messages)
  BY MostTyped DEF Counts, Inv, TablesInv
<1>2. Cardinality(Inserting(task, calls)) \in Nat
  BY <1>1, InsertingFinite
<1>3. Len(messages) <= MaxOld + calls /\ MaxOld + calls <= Most
  BY <1>1, <1>2, MostTyped DEF Counts, Most
<1> QED BY <1>1, <1>3, MostTyped

\* The call in slot s becomes t, which does not wait to store a message.
LEMMA InsertingKept ==
  ASSUME Inv, Counts, UNCHANGED <<messages, calls, failures>>, NEW s \in Slots,
         NEW t, t.pc # "insertMessage", task' = [task EXCEPT ![s] = t]
  PROVE  Counts'
<1>1. \A x \in Slots : task'[x] = IF x = s THEN t ELSE task[x]
  BY DEF Inv, CallsInv
<1>2. Inserting(task', calls) \in SUBSET Inserting(task, calls)
  BY <1>1 DEF Inserting
<1>3. calls \in Nat /\ Len(messages) \in Nat
  BY MessagesFit
<1>4. Cardinality(Inserting(task', calls)) <= Cardinality(Inserting(task, calls))
  BY <1>2, <1>3, InsertingFinite, FS_Subset
<1>5. Cardinality(Inserting(task', calls)) \in Nat /\ Cardinality(Inserting(task, calls)) \in Nat
  BY <1>3, InsertingFinite
<1>6. Len(messages) + Cardinality(Inserting(task', calls)) <= MaxOld + calls
  BY <1>3, <1>4, <1>5, MostTyped DEF Counts
<1> QED BY <1>6 DEF Counts

LEMMA TaskTyped ==
  ASSUME TasksTyped, NEW s \in Slots, NEW t, Handy(t), task' = [task EXCEPT ![s] = t]
  PROVE  TasksTyped'
<1>1. t \in Call
  BY DEF Handy
<1>2. task' \in [Slots -> Call] /\ \A x \in Slots : task'[x] = IF x = s THEN t ELSE task[x]
  BY <1>1 DEF TasksTyped
<1> QED BY <1>2 DEF TasksTyped

LEMMA NoCallHandy == Handy(NoCall) /\ NoCall.pc = "idle"
<1>1. NoCall \in Call /\ NoCall.pc = "idle"
  BY MostTyped, ChatConstants DEF NoCall, Call, PCs, Kinds
<1> QED BY <1>1 DEF Handy

LEMMA TypedInit == Init => Typed
<1> SUFFICES ASSUME Init PROVE Typed
  OBVIOUS
<1>1. PICK n \in 0..MaxOld : messages \in [1..n -> Message]
  BY DEF Init
<1>2. n \in Nat /\ n <= MaxOld /\ calls = 0
  BY <1>1, MostTyped DEF Init
<1>3. Len(messages) = n
  BY <1>1, <1>2
<1>4. Inserting(task, calls) = {}
  BY <1>2 DEF Inserting
<1>5. Counts
  <2>1. Cardinality(Inserting(task, calls)) = 0
    BY <1>4, FS_EmptySet
  <2>2. Len(messages) + Cardinality(Inserting(task, calls)) <= MaxOld + calls
    BY <1>2, <1>3, <2>1, MostTyped
  <2>3. failures = 0
    BY DEF Init
  <2> QED BY <1>2, <2>2, <2>3, MostTyped DEF Counts
<1>6. TasksTyped
  <2>1. NoCall \in Call
    BY NoCallHandy DEF Handy
  <2> QED BY <2>1, NoCallHandy DEF Init, TasksTyped
<1>7. Kept(reader)
  BY DEF Init, NoReader, Kept
<1>8. Values
  BY <1>7 DEF Init, Values, Emissions
<1> QED BY <1>5, <1>6, <1>8 DEF Typed

\* Steps that leave the calls and the tables alone.
LEMMA QuietTyped ==
  ASSUME Typed, UNCHANGED <<messages, receipts, task, calls>>, failures' \in 0..MaxFailures,
         emitted' \in Emissions, Kept(reader')
  PROVE  Typed'
BY DEF Typed, Counts, TasksTyped, Values, Inserting

LEMMA NothingTyped == Nothing \in Emissions
BY DEF Emissions

LEMMA BeginTyped ==
  ASSUME Inv, Typed, NEW pc, NEW k, NEW u \in Users, NEW r \in Rooms \cup {None},
         NEW ids \in SUBSET MessageIds,
         \/ pc = "insertMessage" /\ k = "send"
         \/ pc = "findUnread" /\ k = "markRoom"
         \/ pc = "findReceipt" /\ k \in {"markOne", "markMany"},
         Begin(pc, k, u, r, ids)
  PROVE  Typed'
<1> DEFINE t == NewCall(pc, k, u, r, ids)
<1>0. /\ calls \in Nat /\ calls < MaxCalls /\ calls' = calls + 1 /\ emitted' = Nothing
      /\ UNCHANGED <<messages, receipts, reader, failures>>
  BY MessagesFit DEF Typed, Begin, tables, Silent
<1>1. PICK s \in FreeSlots : task' = [task EXCEPT ![s] = t]
  BY DEF Begin
<1>2. s \in Slots /\ task[s].pc = "idle"
  BY <1>1 DEF FreeSlots
<1>3. /\ t.pc = pc /\ t.kind = k /\ t.id = calls + 1 /\ t.user = u /\ t.room = r /\ t.ids = ids
      /\ t.marked = 0 /\ t.upto = Len(messages)
      /\ t \in Call
  <2>1. NoCall \in Call /\ NoCall.marked = 0
    BY NoCallHandy DEF Handy, NoCall
  <2>2. pc \in PCs /\ k \in Kinds
    BY DEF PCs, Kinds
  <2>3. calls + 1 \in 0..MaxCalls
    BY <1>0, MostTyped
  <2>4. Len(messages) \in MessageIds \cup {0}
    BY MessagesFit, MostTyped DEF Typed
  <2> QED BY <2>1, <2>2, <2>3, <2>4 DEF NewCall, Call
<1>4. t \in Call
  BY <1>3
<1> HIDE DEF t
<1>5. Handy(t)
  <2>1. t.marked + Cardinality(t.ids) <= Most
    BY <1>3, SomeMessages
  <2> QED BY <1>3, <1>4, <2>1 DEF Handy
<1>6. TasksTyped'
  BY <1>1, <1>2, <1>5, TaskTyped DEF Typed
<1>7. \A x \in Slots : task'[x] = IF x = s THEN t ELSE task[x]
  BY <1>1 DEF Inv, CallsInv
<1>8. Inserting(task', calls + 1) \in SUBSET (Inserting(task, calls) \cup {calls + 1})
  <2>1. \A x \in Slots : task[x].pc # "idle" => task[x].id \in 1..calls
    BY DEF Inv, CallsInv, CallInv, Shape
  <2> SUFFICES ASSUME NEW i \in 1..(calls + 1), i # calls + 1,
                      NEW x \in Slots, task'[x].pc = "insertMessage", task'[x].id = i
               PROVE  i \in Inserting(task, calls)
    BY DEF Inserting
  <2>2. x # s
    BY <1>3, <1>7
  <2>3. task[x].pc = "insertMessage" /\ task[x].id = i
    BY <1>7, <2>2
  <2>4. i \in 1..calls
    BY <1>0
  <2> QED BY <2>3, <2>4 DEF Inserting
<1>9. Counts'
  <2> DEFINE A == Inserting(task, calls)
             B == Inserting(task', calls + 1)
  <2>1. IsFiniteSet(A) /\ Cardinality(A) \in Nat
    BY <1>0, InsertingFinite
  <2>2. IsFiniteSet(A \cup {calls + 1}) /\ Cardinality(A \cup {calls + 1}) <= Cardinality(A) + 1
    <3> HIDE DEF A
    <3>1. /\ IsFiniteSet(A \cup {calls + 1})
          /\ Cardinality(A \cup {calls + 1}) = IF calls + 1 \in A THEN Cardinality(A) ELSE Cardinality(A) + 1
      BY <2>1, FS_AddElement
    <3> QED BY <2>1, <3>1
  <2>3. Cardinality(B) <= Cardinality(A \cup {calls + 1}) /\ Cardinality(A \cup {calls + 1}) \in Nat
    BY <1>8, <2>2, FS_Subset, FS_CardinalityType
  <2>4. calls + 1 \in Nat
    BY <1>0
  <2>5. Cardinality(B) \in Nat
    BY <2>4, InsertingFinite
  <2>6. Len(messages) \in Nat /\ Len(messages) + Cardinality(A) <= MaxOld + calls
    BY MessagesFit DEF Typed, Counts
  <2> HIDE DEF A, B
  <2>7. Len(messages) + Cardinality(B) <= MaxOld + (calls + 1)
    BY <1>0, <2>1, <2>2, <2>3, <2>5, <2>6, MostTyped
  <2>8. calls + 1 \in 0..MaxCalls
    BY <1>0, MostTyped
  <2> QED BY <1>0, <2>7, <2>8 DEF Counts, Typed, B
<1>10. Values'
  BY <1>0, NothingTyped DEF Typed, Values
<1> QED BY <1>6, <1>9, <1>10 DEF Typed

LEMMA InsertMessageTyped ==
  ASSUME Inv, Typed, NEW s \in Slots, InsertMessage(s)
  PROVE  Typed'
<1> DEFINE c == task[s]
           n == Len(messages) + 1
           w == [room |-> c.room, sender |-> c.user]
           t == [c EXCEPT !.pc = "readBack", !.at = n]
           A == Inserting(task, calls)
           B == Inserting(task', calls)
<1>0. /\ messages \in Seq(Message) /\ Len(messages) \in Nat /\ calls \in Nat /\ c.pc = "insertMessage"
      /\ messages' = Append(messages, w) /\ emitted' = Nothing
      /\ UNCHANGED <<receipts, calls, reader, failures>>
  BY LenType DEF InsertMessage, Inv, TablesInv, Silent
<1>1. w \in Message /\ c \in Call /\ c.id \in 1..calls /\ c.id \in Nat
  BY <1>0 DEF Inv, CallsInv, CallInv, Shape, Message, Typed, TasksTyped
<1>2. task' = [task EXCEPT ![s] = t]
  BY DEF InsertMessage, Inv, CallsInv
<1>3. t.pc = "readBack" /\ t.kind = c.kind
  BY <1>1 DEF Call
<1>4. \A x \in Slots : task'[x] = IF x = s THEN t ELSE task[x]
  BY <1>2 DEF Inv, CallsInv
<1>5. Len(messages') = n
  BY <1>0, <1>1, AppendProperties
<1> HIDE DEF w
<1>6. B \in SUBSET (A \ {c.id}) /\ c.id \in A
  <2>1. c.id \in A
    BY <1>0, <1>1 DEF Inserting
  <2> SUFFICES ASSUME NEW i \in 1..calls, NEW x \in Slots, task'[x].pc = "insertMessage", task'[x].id = i
               PROVE  i \in A \ {c.id}
    BY <2>1 DEF Inserting
  <2>2. x # s /\ task[x].pc = "insertMessage" /\ task[x].id = i
    BY <1>3, <1>4
  <2>3. i # c.id
    BY <1>0, <2>2 DEF Inv, CallsInv
  <2> QED BY <2>2, <2>3 DEF Inserting
<1>7. Len(messages) + 1 + Cardinality(B) <= MaxOld + calls
  <2>1. IsFiniteSet(A) /\ Cardinality(A) \in Nat /\ Cardinality(B) \in Nat
    BY <1>0, InsertingFinite
  <2>2. IsFiniteSet(A \ {c.id}) /\ Cardinality(A \ {c.id}) = Cardinality(A) - 1
    BY <1>6, <2>1, FS_RemoveElement
  <2>3. Cardinality(B) <= Cardinality(A) - 1
    BY <1>6, <2>2, FS_Subset
  <2>4. Len(messages) + Cardinality(A) <= MaxOld + calls
    BY DEF Typed, Counts
  <2> HIDE DEF A, B
  <2> QED BY <1>0, <2>1, <2>3, <2>4, MostTyped
<1>8. n \in MessageIds
  <2>1. Cardinality(B) \in Nat
    BY <1>0, InsertingFinite
  <2>2. MaxOld + calls <= Most
    BY MessagesFit DEF Typed
  <2> HIDE DEF B
  <2> QED BY <1>0, <1>7, <2>1, <2>2, MostTyped
<1>9. Counts'
  BY <1>0, <1>5, <1>7 DEF Typed, Counts
<1>10. t \in Call
  BY <1>1, <1>8 DEF Call, PCs
<1> HIDE DEF t, n
<1>11. Handy(t)
  BY <1>3, <1>10 DEF Handy
<1>12. TasksTyped'
  BY <1>2, <1>11, TaskTyped DEF Typed
<1>13. Values'
  BY <1>0, NothingTyped DEF Typed, Values
<1> QED BY <1>9, <1>12, <1>13 DEF Typed

\* The call in slot s becomes t, and gives out a value; the table of messages
\* stays.
LEMMA CallTyped ==
  ASSUME Inv, Typed, NEW s \in Slots, NEW t, Handy(t), t.pc # "insertMessage",
         task' = [task EXCEPT ![s] = t], UNCHANGED <<messages, calls, failures>>,
         Values'
  PROVE  Typed'
<1>1. TasksTyped'
  BY TaskTyped DEF Typed
<1>2. Counts'
  BY InsertingKept DEF Typed
<1> QED BY <1>1, <1>2 DEF Typed

LEMMA AnswerTyped ==
  ASSUME Inv, Typed, NEW s \in Slots, task[s].pc # "idle",
         NEW t, t.id = task[s].id, t.kind \in {"markMany", "markRoom"}, t.user = task[s].user,
         t.room = task[s].room, t.upto = task[s].upto, NEW n \in Nat, n <= Most
  PROVE  Answered(t, n) \in Emissions
<1>1. CallInv(task[s], messages, receipts, calls) /\ task[s] \in Call
  BY DEF Inv, CallsInv, Typed, TasksTyped
<1>2. t.id \in 1..MaxCalls /\ t.user \in Users
  BY <1>1, MostTyped DEF CallInv, Shape, Typed, Counts
<1>3. t.room \in Rooms \cup {None}
  BY <1>1 DEF Call
<1>4. t.upto \in 0..(MaxOld + MaxCalls) /\ n \in 0..(MaxOld + MaxCalls)
  <2>1. t.upto \in MessageIds \cup {0}
    BY <1>1 DEF Call
  <2> QED BY <2>1, MostTyped DEF Most
<1>5. Answered(t, n) \in Answer
  BY <1>2, <1>3, <1>4 DEF Answered, Answer
<1> QED BY <1>5 DEF Emissions

LEMMA EndedTyped ==
  ASSUME Inv, Typed, NEW s \in Slots, Ended(s), UNCHANGED <<messages, calls, failures>>, Values'
  PROVE  Typed'
BY NoCallHandy, CallTyped DEF Ended

LEMMA AnnounceTyped ==
  ASSUME Inv, Reads, Typed, NEW s \in Slots, Announce(s)
  PROVE  Typed'
<1> DEFINE t == task[s]
           H == Hearers(t.room, t.user) \ gone
           D == Notified(t.room, t.user) \ gone
<1>0. /\ t.pc = "readBack" /\ Ended(s)
      /\ emitted' = [message |-> t.at, hearers |-> H, direct |-> D]
      /\ reader' \in {[reader EXCEPT !.shown = @ \cup {t.at}], reader}
      /\ UNCHANGED <<messages, receipts, calls, failures>>
  BY DEF Announce, HandleNewMessage, connections, tables
<1>1. t.at \in MessageIds /\ t.room \in Rooms
  <2>1. CallInv(t, messages, receipts, calls)
    BY DEF Inv, CallsInv
  <2>2. t.at \in 1..Len(messages) /\ t.room \in Rooms
    BY <1>0, <2>1 DEF CallInv, Stored, Shape
  <2> QED BY <2>2, MessagesFit DEF Typed
<1>2. H \subseteq Sockets /\ D \subseteq Sockets
  BY <1>1 DEF Hearers, Notified, Reads, RoomsTyped, Inv, Registrations
<1>3. emitted' \in Emissions
  BY <1>0, <1>1, <1>2 DEF Emissions, Announcement
<1> HIDE DEF t, H, D
<1>4. Kept(reader')
  <2>1. reader \in ReaderRecord
    BY DEF Reads, ReaderTyped
  <2>2. /\ reader'.shown \subseteq reader.shown \cup {t.at}
        /\ reader'.fetched = reader.fetched /\ reader'.told = reader.told
    BY <1>0, <2>1 DEF ReaderRecord
  <2> QED BY <1>1, <2>2 DEF Typed, Values, Kept
<1>5. Values'
  BY <1>0, <1>3, <1>4 DEF Typed, Values
<1> QED BY <1>0, <1>5, EndedTyped

\* The call in slot s, which is t by now, and has made n receipts, goes on to
\* its next message, or answers.
LEMMA GoOnTyped ==
  ASSUME Inv, Typed, NEW s \in Slots, task[s].pc \in {"findReceipt", "insertReceipt"},
         NEW m \in task[s].ids, NEW t, t = [task[s] EXCEPT !.at = m],
         NEW n \in {task[s].marked, task[s].marked + 1}, GoOn(s, t, n),
         receipts' \subseteq Receipt, UNCHANGED <<messages, calls, failures, reader>>
  PROVE  Typed'
<1> DEFINE c == task[s]
<1>0. c \in Call /\ Handy(c) /\ CallInv(c, messages, receipts, calls)
  BY DEF Typed, TasksTyped, Inv, CallsInv
<1>1. /\ t.at = m /\ t.pc = c.pc /\ t.id = c.id /\ t.user = c.user /\ t.room = c.room
      /\ t.upto = c.upto /\ t.ids = c.ids /\ t.kind = c.kind
  BY <1>0 DEF Call
<1>2. c.ids \in SUBSET MessageIds /\ c.marked \in Nat /\ m \in MessageIds
  BY <1>0 DEF Call
<1>3. t \in Call
  BY <1>0, <1>2 DEF Call
<1>4. c.kind \in {"markOne", "markMany"}
  BY <1>0 DEF CallInv, Shape
<1> HIDE DEF c
<1>5. /\ IsFiniteSet(c.ids \ {m}) /\ Cardinality(c.ids \ {m}) = Cardinality(c.ids) - 1
      /\ Cardinality(c.ids) \in Nat /\ Cardinality(c.ids \ {m}) \in Nat
  <2>1. IsFiniteSet(c.ids) /\ Cardinality(c.ids) \in Nat
    BY <1>2, SomeMessages
  <2>2. IsFiniteSet(c.ids \ {m}) /\ Cardinality(c.ids \ {m}) = Cardinality(c.ids) - 1
    BY <2>1, FS_RemoveElement DEF c
  <2> QED BY <2>1, <2>2, FS_CardinalityType
<1>6. n \in Nat /\ n + Cardinality(c.ids \ {m}) <= Most /\ n <= Most
  <2>1. n \in {c.marked, c.marked + 1}
    BY DEF c
  <2>2. c.marked + Cardinality(c.ids) <= Most
    BY <1>0 DEF Handy, c
  <2>3. Most \in Nat /\ n \in Nat /\ n <= c.marked + 1 /\ c.marked \in Nat
    BY <1>2, <2>1, MostTyped
  <2>4. \A i, j, k, x, y \in Nat :
          i <= j + 1 /\ y = x - 1 /\ j + x <= k => i + y <= k /\ i <= k
    OBVIOUS
  <2> QED BY <1>5, <2>2, <2>3, <2>4
<1>7. Kept(reader')
  BY DEF Typed, Values
<1>8. CASE t.ids \ {t.at} = {}
  <2>1. Ended(s) /\ emitted' = IF t.kind = "markOne" THEN Nothing ELSE Answered(t, n)
    BY <1>8 DEF GoOn
  <2>2. emitted' \in Emissions
    <3>1. CASE t.kind = "markOne"
      BY <2>1, <3>1, NothingTyped
    <3>2. CASE t.kind # "markOne"
      <4>1. t.kind \in {"markMany", "markRoom"}
        BY <1>1, <1>4, <3>2
      <4>2. Answered(t, n) \in Emissions
        BY <1>1, <1>6, <4>1, AnswerTyped DEF c
      <4> QED BY <2>1, <3>2, <4>2
    <3> QED BY <3>1, <3>2
  <2>3. Values'
    BY <1>7, <2>2 DEF Values
  <2> QED BY <2>1, <2>3, EndedTyped
<1>9. CASE t.ids \ {t.at} # {}
  <2> DEFINE x == [t EXCEPT !.pc = "findReceipt", !.ids = @ \ {t.at}, !.at = 0, !.marked = n]
  <2>1. task' = [task EXCEPT ![s] = x] /\ emitted' = Nothing
    BY <1>9 DEF GoOn, Silent
  <2>2. x.pc = "findReceipt" /\ x.ids = c.ids \ {m} /\ x.marked = n
    BY <1>1, <1>3 DEF Call
  <2>3. x \in Call
    <3>1. t.ids \ {t.at} \in SUBSET MessageIds /\ n \in 0..(MaxOld + MaxCalls) /\ "findReceipt" \in PCs
      BY <1>1, <1>2, <1>6, MostTyped DEF PCs, Most
    <3>2. \A S \in SUBSET MessageIds : \A i \in 0..(MaxOld + MaxCalls) : \A pc \in PCs :
            [t EXCEPT !.pc = pc, !.ids = S, !.at = 0, !.marked = i] \in Call
      BY <1>3 DEF Call
    <3> QED BY <3>1, <3>2, Zenon
  <2> HIDE DEF x
  <2>4. Handy(x)
    BY <1>6, <2>2, <2>3 DEF Handy
  <2>5. Values'
    BY <1>7, <2>1, NothingTyped DEF Values
  <2>6. x.pc # "insertMessage"
    BY <2>2
  <2> QED BY <2>1, <2>4, <2>5, <2>6, CallTyped
<1> QED BY <1>8, <1>9

LEMMA FindReceiptTyped ==
  ASSUME Inv, Typed, NEW s \in Slots, FindReceipt(s)
  PROVE  Typed'
<1> DEFINE c == task[s]
<1>0. /\ c \in Call /\ Handy(c) /\ c.pc = "findReceipt"
      /\ UNCHANGED <<messages, receipts, calls, reader, failures>>
  BY Zenon DEF Typed, TasksTyped, FindReceipt, tables
<1>1. PICK m \in c.ids :
        LET t == [c EXCEPT !.at = m] IN
        IF IsRead(m, t.user)
          THEN GoOn(s, t, t.marked)
          ELSE /\ task' = [task EXCEPT ![s] = [t EXCEPT !.pc = "insertReceipt"]]
               /\ Silent
  BY Zenon DEF FindReceipt
<1> DEFINE t == [c EXCEPT !.at = m]
           x == [t EXCEPT !.pc = "insertReceipt"]
<1>2. \/ GoOn(s, t, t.marked)
      \/ task' = [task EXCEPT ![s] = x] /\ Silent
  BY <1>1
<1>3. m \in MessageIds /\ c.pc # "idle"
  BY <1>0 DEF Call
<1>4. /\ x.pc = "insertReceipt" /\ x.at = m /\ x.ids = c.ids /\ x.marked = c.marked /\ x \in Call
      /\ t.marked = c.marked
  BY <1>0, <1>3 DEF Call, PCs
<1>5. CASE GoOn(s, t, t.marked)
  <2>1. receipts' \subseteq Receipt /\ t.marked \in {task[s].marked, task[s].marked + 1}
    BY <1>0, <1>4 DEF Typed, Values
  <2> QED BY <1>0, <1>5, <2>1, GoOnTyped
<1>6. CASE task' = [task EXCEPT ![s] = x] /\ Silent
  <2> HIDE DEF x
  <2>1. Handy(x)
    BY <1>0, <1>4 DEF Handy
  <2>2. Values'
    BY <1>0, <1>6, NothingTyped DEF Typed, Values, Silent
  <2> QED BY <1>0, <1>4, <1>6, <2>1, <2>2, CallTyped
<1> QED BY <1>2, <1>5, <1>6

LEMMA ReceiptsTyped ==
  ASSUME Inv, Typed, NEW s \in Slots, task[s].pc # "idle", NEW ms \in SUBSET MessageIds
  PROVE  Receipts(task[s], ms) \subseteq Receipt
<1>1. CallInv(task[s], messages, receipts, calls)
  BY DEF Inv, CallsInv
<1>2. task[s].user \in Users /\ task[s].id \in 1..MaxCalls
  BY <1>1, MostTyped DEF CallInv, Shape, Typed, Counts
<1> QED BY <1>2 DEF Receipts, Receipt

LEMMA InsertReceiptTyped ==
  ASSUME Inv, Typed, NEW s \in Slots, InsertReceipt(s)
  PROVE  Typed'
<1> DEFINE c == task[s]
<1>0. /\ c \in Call /\ Handy(c) /\ c.pc = "insertReceipt"
      /\ UNCHANGED <<messages, calls, reader, failures>>
      /\ \/ Ended(s) /\ Silent /\ UNCHANGED receipts
         \/ receipts' = receipts \cup Receipts(c, {c.at}) /\ GoOn(s, c, c.marked + 1)
  BY DEF Typed, TasksTyped, InsertReceipt
<1>1. c.at \in c.ids /\ c.ids \subseteq MessageIds
  BY <1>0 DEF Handy, Call
<1>2. CASE Ended(s) /\ Silent /\ UNCHANGED receipts
  <2>1. Values'
    BY <1>0, <1>2, NothingTyped DEF Typed, Values, Silent
  <2> QED BY <1>0, <1>2, <2>1, EndedTyped
<1>3. CASE receipts' = receipts \cup Receipts(c, {c.at}) /\ GoOn(s, c, c.marked + 1)
  <2>1. Receipts(c, {c.at}) \subseteq Receipt
    BY <1>0, <1>1, ReceiptsTyped
  <2>2. receipts' \subseteq Receipt
    BY <1>3, <2>1 DEF Typed, Values
  <2>3. c = [c EXCEPT !.at = c.at]
    BY <1>0 DEF Call
  <2> QED BY <1>0, <1>1, <1>3, <2>2, <2>3, GoOnTyped
<1> QED BY <1>0, <1>2, <1>3

LEMMA RoomTyped ==
  ASSUME Inv, Typed, NEW s \in Slots, FindUnread(s) \/ InsertReceipts(s)
  PROVE  Typed'
<1> DEFINE c == task[s]
           ms == Unread(c.room, c.user)
           x == [c EXCEPT !.pc = "insertReceipts", !.ids = ms]
<1>0. /\ c \in Call /\ Handy(c) /\ c.pc \in {"findUnread", "insertReceipts"} /\ c.kind = "markRoom"
      /\ c.ids \in SUBSET MessageIds
      /\ UNCHANGED <<messages, calls, reader, failures>>
  BY DEF Typed, TasksTyped, FindUnread, InsertReceipts, tables, Handy, Call
<1>1. ASSUME NEW n \in Nat, n <= Most, emitted' \in {Nothing, Answered(c, n)}
      PROVE  emitted' \in Emissions
  BY <1>0, <1>1, NothingTyped, AnswerTyped
<1>2. ASSUME FindUnread(s), ms = {}
      PROVE  Typed'
  <2>1. Ended(s) /\ emitted' = Answered(c, 0) /\ receipts' = receipts
    BY <1>2 DEF FindUnread, tables
  <2>2. emitted' \in Emissions
    BY <1>1, <2>1, MostTyped
  <2>3. Values'
    BY <1>0, <2>1, <2>2 DEF Typed, Values
  <2> QED BY <1>0, <2>1, <2>3, EndedTyped
<1>3. ASSUME FindUnread(s), ms # {}
      PROVE  Typed'
  <2>1. emitted' = Nothing /\ receipts' = receipts
        /\ task' = [task EXCEPT ![s].pc = "insertReceipts", ![s].ids = ms]
    BY <1>3 DEF FindUnread, tables, Silent
  <2>2. task' = [task EXCEPT ![s] = x]
    BY <2>1 DEF Typed, TasksTyped
  <2>3. ms \in SUBSET MessageIds
    BY MessagesFit DEF Unread, Typed
  <2> HIDE DEF ms
  <2>4. x.pc = "insertReceipts" /\ x.kind = "markRoom" /\ x \in Call
    BY <1>0, <2>3 DEF Call, PCs
  <2> HIDE DEF x
  <2>5. Handy(x)
    BY <2>4 DEF Handy
  <2>6. Values'
    BY <1>0, <2>1, NothingTyped DEF Typed, Values
  <2> QED BY <1>0, <2>2, <2>4, <2>5, <2>6, CallTyped
<1>4. ASSUME InsertReceipts(s)
      PROVE  Typed'
  <2>1. /\ Ended(s)
        /\ \/ emitted' = Nothing /\ receipts' = receipts
           \/ emitted' = Answered(c, Cardinality(c.ids)) /\ receipts' = receipts \cup Receipts(c, c.ids)
    BY <1>4 DEF InsertReceipts, Silent
  <2>2. Cardinality(c.ids) \in Nat /\ Cardinality(c.ids) <= Most
    BY <1>0, SomeMessages
  <2>3. emitted' \in Emissions
    BY <1>1, <2>1, <2>2
  <2>4. Receipts(c, c.ids) \subseteq Receipt
    BY <1>0, ReceiptsTyped
  <2>5. Values'
    BY <1>0, <2>1, <2>3, <2>4 DEF Typed, Values
  <2> QED BY <1>0, <2>1, <2>5, EndedTyped
<1> QED BY <1>2, <1>3, <1>4

LEMMA FailuresTyped ==
  ASSUME Typed, failures < MaxFailures, failures' = failures + 1
  PROVE  failures' \in 0..MaxFailures
BY MostTyped DEF Typed, Counts

\* What a reader shows, fetches and is told of are messages that there are.
LEMMA ReaderKept ==
  ASSUME Inv, Reads, Typed
  PROVE  /\ Kept(reader) /\ Told \subseteq MessageIds
         /\ \A r, p : Page(r, p) \subseteq MessageIds
         /\ reader.fetched \subseteq MessageIds
<1>1. DOMAIN messages \subseteq MessageIds
  BY MessagesFit DEF Typed
<1> QED BY <1>1 DEF Typed, Values, Kept, Told, Page, History

LEMMA ReadingTyped ==
  ASSUME Inv, Reads, Typed, Reading
  PROVE  Typed'
<1>0. /\ emitted' = Nothing /\ UNCHANGED <<messages, receipts, task, calls, failures>>
      /\ reader \in ReaderRecord
  BY DEF Reading, Silent, tables, Reads, ReaderTyped
<1>1. Kept(reader')
  <2>1. ASSUME NEW p \in Pairs, OpenHistory(p[1], p[2])
        PROVE  Kept(reader')
    BY <2>1 DEF OpenHistory, NoReader, Kept
  <2>2. CASE FetchRows
    <3> DEFINE S == Page(reader.room, reader.page)
               n == IF reader.page = 1 THEN Len(messages) ELSE reader.upto
    <3>1. reader' = [reader EXCEPT !.pc = "count", !.fetched = S, !.upto = n]
      BY <2>2 DEF FetchRows
    <3>2. S \subseteq MessageIds
      BY ReaderKept
    <3> HIDE DEF S, n
    <3>3. reader'.shown = reader.shown /\ reader'.fetched = S /\ reader'.told = reader.told
      BY <1>0, <3>1 DEF ReaderRecord
    <3> QED BY <3>2, <3>3, ReaderKept DEF Kept
  <2>3. CASE FetchCount \/ LoadMore
    <3>1. /\ reader'.shown = reader.shown /\ reader'.fetched = reader.fetched
          /\ reader'.told = reader.told
      BY <1>0, <2>3 DEF FetchCount, LoadMore, ReaderRecord
    <3> QED BY <3>1, ReaderKept DEF Kept
  <2>4. CASE ReceivePage
    <3> DEFINE told == IF reader.page = 1 THEN Told ELSE reader.told
               shown == Loaded(reader)
               pc == IF reader.pc = "answeredMore" THEN "more" ELSE "done"
    <3>1. reader' = [reader EXCEPT !.pc = pc, !.shown = shown, !.fetched = {}, !.told = told]
      BY <2>4, Zenon DEF ReceivePage, Loaded
    <3>2. shown \cup told \subseteq MessageIds
      BY ReaderKept DEF Kept, Loaded
    <3> HIDE DEF told, shown, pc
    <3>3. reader'.shown = shown /\ reader'.fetched = {} /\ reader'.told = told
      BY <1>0, <3>1 DEF ReaderRecord
    <3> QED BY <3>2, <3>3 DEF Kept
  <2> QED BY <2>1, <2>2, <2>3, <2>4 DEF Reading
<1>2. failures' \in 0..MaxFailures
  BY <1>0 DEF Typed, Counts
<1> QED BY <1>0, <1>1, <1>2, NothingTyped, QuietTyped

LEMMA LoadFailsTyped ==
  ASSUME Inv, Reads, Typed, LoadFails
  PROVE  Typed'
<1> DEFINE e == LoadFailed(reader)
<1>1. /\ emitted' = Nothing /\ UNCHANGED <<messages, receipts, task, calls>>
      /\ reader' = e /\ failures < MaxFailures /\ failures' = failures + 1
      /\ reader.pc \in {"rows", "count", "answeredMore", "answeredLast"}
  BY DEF LoadFails, Silent, tables
<1>2. e.shown = reader.shown /\ e.told = reader.told /\ e.fetched = {}
  BY <1>1, FailedReader DEF Reads
<1> HIDE DEF e
<1>3. Kept(reader')
  BY <1>1, <1>2, ReaderKept DEF Kept
<1>4. failures' \in 0..MaxFailures
  BY <1>1, FailuresTyped
<1> QED BY <1>1, <1>3, <1>4, NothingTyped, QuietTyped

LEMMA TypedStep == Inv /\ Reads /\ Typed /\ [Next]_vars => Typed'
<1> SUFFICES ASSUME Inv, Reads, Typed, [Next]_vars PROVE Typed'
  OBVIOUS
<1>0. failures \in 0..MaxFailures /\ emitted \in Emissions /\ Kept(reader)
  BY DEF Typed, Counts, Values
<1>1. CASE UNCHANGED vars
  BY <1>0, <1>1, QuietTyped DEF vars, tables
<1>2. CASE Connection
  <2>1. emitted' = Nothing /\ UNCHANGED <<messages, receipts, task, calls, failures>>
    BY <1>2 DEF Connection, Silent, tables
  <2>2. Kept(reader')
    <3>1. reader \in ReaderRecord
      BY DEF Reads, ReaderTyped
    <3>2. \A k, R : /\ ReaderWithout(k, R).shown = reader.shown /\ ReaderWithout(k, R).told = reader.told
                    /\ ReaderWithout(k, R).fetched = reader.fetched
      BY <3>1 DEF ReaderWithout, ReaderRecord
    <3>3. ASSUME NEW k, NEW r
          PROVE  /\ ReaderWith(k, r).shown = reader.shown /\ ReaderWith(k, r).told \in {reader.told, Told}
                 /\ ReaderWith(k, r).fetched = reader.fetched
      <4> DEFINE T == Told
      <4>1. ReaderWith(k, r) \in {reader, [reader EXCEPT !.socket = k, !.told = T]}
        BY DEF ReaderWith
      <4> HIDE DEF T
      <4>2. ReaderWith(k, r).shown = reader.shown /\ ReaderWith(k, r).told \in {reader.told, T}
            /\ ReaderWith(k, r).fetched = reader.fetched
        BY <3>1, <4>1 DEF ReaderRecord
      <4> QED BY <4>2 DEF T
    <3>4. \/ reader' = reader
          \/ \E k, R : reader' = ReaderWithout(k, R)
          \/ \E k, r : reader' = ReaderWith(k, r)
      BY <1>2 DEF Connection, HandleJoinRoomBetweenUsers, HandleJoinRoom, HandleLeaveRoom,
                  HandleRegisterUser, HandleDisconnect
    <3> QED BY <3>2, <3>3, <3>4, ReaderKept DEF Kept
  <2> QED BY <1>0, <2>1, <2>2, NothingTyped, QuietTyped
<1>3. CASE Arrival
  <2>1. \A m \in DOMAIN messages : {m} \in SUBSET MessageIds
    BY MessagesFit DEF Typed
  <2>2. \A ms \in SUBSET DOMAIN messages : ms \in SUBSET MessageIds
    BY MessagesFit DEF Typed
  <2>3. ASSUME NEW u \in Users, NEW r \in Rooms, HandleMessage(u, r) \/ MarkRoomAsRead(u, r)
        PROVE  Typed'
    <3>1. r \in Rooms \cup {None} /\ {} \in SUBSET MessageIds
      OBVIOUS
    <3> QED BY <2>3, <3>1, BeginTyped DEF HandleMessage, MarkRoomAsRead
  <2>4. ASSUME NEW u \in Users, NEW ms \in SUBSET MessageIds, NEW k \in {"markOne", "markMany"},
               Begin("findReceipt", k, u, None, ms)
        PROVE  Typed'
    <3>1. None \in Rooms \cup {None}
      OBVIOUS
    <3> QED BY <2>4, <3>1, BeginTyped
  <2> QED BY <1>3, <2>1, <2>2, <2>3, <2>4 DEF Arrival, MarkMessageAsRead, MarkMessagesAsRead
<1>4. CASE Reading
  BY <1>4, ReadingTyped
<1>5. CASE Restart
  <2> DEFINE d == [reader EXCEPT !.socket = None]
             e == LoadFailed(d)
  <2>1. /\ emitted' = Nothing /\ UNCHANGED <<messages, receipts, calls>>
        /\ task' = [s \in Slots |-> NoCall]
        /\ failures < MaxFailures /\ failures' = failures + 1
        /\ reader' = IF reader.pc \in {"rows", "count"} THEN e ELSE d
    BY <1>5 DEF Restart, Silent, tables
  <2>2. Kept(reader')
    <3>1. /\ ReaderTyped(d, messages) /\ Ahead(d, messages) /\ d.pc = reader.pc
          /\ d.shown = reader.shown /\ d.fetched = reader.fetched /\ d.told = reader.told
      BY DeafReader
    <3> HIDE DEF d
    <3>2. reader.pc \in {"rows", "count"} => e.shown = d.shown /\ e.told = d.told /\ e.fetched = {}
      BY <3>1, FailedReader
    <3> HIDE DEF e
    <3> QED BY <2>1, <3>1, <3>2, ReaderKept DEF Kept
  <2>3. Values'
    BY <2>1, <2>2, NothingTyped DEF Typed, Values
  <2>4. TasksTyped'
    <3>1. NoCall \in Call /\ Handy(NoCall)
      BY NoCallHandy DEF Handy
    <3> QED BY <2>1, <3>1 DEF TasksTyped
  <2>5. Inserting(task', calls) = {}
    <3>1. \A s \in Slots : task'[s].pc = "idle"
      BY <2>1, NoCallHandy
    <3> QED BY <3>1 DEF Inserting
  <2>6. Len(messages) + Cardinality(Inserting(task', calls)) <= MaxOld + calls
    <3>1. Cardinality(Inserting(task', calls)) = 0
      BY <2>5, FS_EmptySet
    <3>2. Len(messages) \in Nat /\ Len(messages) <= MaxOld + calls
      BY MessagesFit DEF Typed
    <3> QED BY <3>1, <3>2
  <2>7. failures' \in 0..MaxFailures
    BY <2>1, FailuresTyped
  <2>8. Counts'
    BY <2>1, <2>6, <2>7 DEF Typed, Counts
  <2> QED BY <2>3, <2>4, <2>8 DEF Typed
<1>6. ASSUME NEW s \in Slots, WriteFails(s)
      PROVE  Typed'
  <2>1. /\ emitted' = Nothing /\ UNCHANGED <<messages, receipts, calls, reader>>
        /\ task' = [task EXCEPT ![s] = NoCall]
        /\ failures < MaxFailures /\ failures' = failures + 1
    BY <1>6 DEF WriteFails, Silent, tables, Ended
  <2>2. Values'
    BY <2>1, NothingTyped DEF Typed, Values
  <2>3. TasksTyped'
    BY <2>1, NoCallHandy, TaskTyped DEF Typed
  <2>4. failures' \in 0..MaxFailures
    BY <2>1, FailuresTyped
  <2>5. Len(messages) + Cardinality(Inserting(task', calls)) <= MaxOld + calls
    <3>1. \A x \in Slots : task'[x] = IF x = s THEN NoCall ELSE task[x]
      BY <2>1 DEF Inv, CallsInv
    <3>2. Inserting(task', calls) \in SUBSET Inserting(task, calls)
      BY <3>1, NoCallHandy DEF Inserting
    <3>3. calls \in Nat /\ Len(messages) \in Nat
      BY MessagesFit DEF Typed
    <3>4. Cardinality(Inserting(task', calls)) <= Cardinality(Inserting(task, calls))
      BY <3>2, <3>3, InsertingFinite, FS_Subset
    <3>5. Cardinality(Inserting(task', calls)) \in Nat /\ Cardinality(Inserting(task, calls)) \in Nat
      BY <3>3, InsertingFinite
    <3> QED BY <3>3, <3>4, <3>5, MostTyped DEF Typed, Counts
  <2>6. Counts'
    BY <2>1, <2>4, <2>5 DEF Typed, Counts
  <2> QED BY <2>2, <2>3, <2>6 DEF Typed
<1>7. ASSUME NEW s \in Slots, Query(s)
      PROVE  Typed'
  BY <1>7, InsertMessageTyped, AnnounceTyped, FindReceiptTyped, InsertReceiptTyped, RoomTyped DEF Query
<1>8. CASE LoadFails
  BY <1>8, LoadFailsTyped
<1> QED BY <1>1, <1>2, <1>3, <1>4, <1>5, <1>6, <1>7, <1>8 DEF Next

---------------------------------------------------------------------------
(***************************************************************************)
(* The theorems.                                                           *)
(***************************************************************************)

LEMMA Invariance == Spec => []Inv
BY InvInit, InvStep, PTL DEF Spec

\* Whoever's last registration was for the recipient of a message is notified
\* of it, in whatever order connections register, register again and go
\* (handleRegisterUser, handleDisconnect, handleMessage).
THEOREM RecipientHears == Spec => []RecipientNotified
<1>1. Inv => RecipientNotified
  BY DEF Inv, EmittedTrue
<1> QED BY <1>1, Invariance, PTL

\* However many calls mark the same messages at the same time, a message is
\* read once by a user, and a call counts what it inserted itself
\* (markMessageAsRead, markMessagesAsRead, markRoomAsRead).
THEOREM ReceiptsCounted == Spec => []MarkedOnce
<1>1. Inv => MarkedOnce
  BY DEF Inv, EmittedTrue
<1> QED BY <1>1, Invariance, PTL

\* A room that was marked as read has nothing unread of what was sent before
\* the call came in (markRoomAsRead).
THEOREM RoomRead == Spec => []AllRead
<1>1. Inv => AllRead
  BY DEF Inv, EmittedTrue
<1> QED BY <1>1, Invariance, PTL

\* A page that asks for more as long as there are more shows, in the end, all
\* that was there at its first query, though the pages shift as messages come;
\* of what came later, it misses, while its socket is in the room, only what was
\* announced before it had joined or had been answered page 1, or is about to be
\* announced (getChatHistory, handleMessage, loadMessages of chat-user1.html).
THEOREM HistoryComplete == Spec => []NothingMissed
BY InvInit, InvStep, ReadsInit, ReadsStep, ReadsImplies, PTL DEF Spec

\* Types of the state, with the bounds of what is counted: a call marks no more
\* messages than it was given, and there are no more messages than were sent.
THEOREM Types == Spec => []TypeOK
BY InvInit, InvStep, ReadsInit, ReadsStep, TypedInit, TypedStep, TypedTypeOK, PTL DEF Spec

=============================================================================
