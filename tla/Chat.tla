-------------------------------- MODULE Chat --------------------------------
(***************************************************************************)
(* The chat: rooms, registered users and messages                          *)
(* (src/src/socket/chat.gateway.ts), messages and read receipts in the     *)
(* database (chat.service.ts), its HTTP requests (chat.controller.ts), and *)
(* a page that reads the history (src/chat-user1.html).                    *)
(*                                                                         *)
(* Connections, rooms and registrations are handled without an await.  A   *)
(* call is a sequence of database queries; a query is one action, together *)
(* with the code up to the next one.  A message is identified by its place *)
(* in the table, which is ordered by created_at (to the microsecond; equal *)
(* times are left out).  The name of a room, "1_2", is the sequence of its *)
(* parts; ids of users are ordered, and contain no underscore.             *)
(***************************************************************************)
EXTENDS Naturals, Sequences, FiniteSets

CONSTANTS
  Users,        \* user ids
  Rooms,        \* rooms that are used
  Sockets,      \* socket objects; each connects once and disconnects once
  Slots,        \* places for calls in flight
  Limit,        \* messages of a page
  MaxOld,       \* bound: messages stored before the server started
  MaxCalls,     \* bound: calls
  MaxFailures,  \* bound: failing writes and requests, and ends of the process
  None          \* "none": no user, socket, room

NormalizeRoom(u, v) == IF u < v THEN <<u, v>> ELSE <<v, u>>
Pairs == {p \in Users \X Users : p[1] # p[2]}

ASSUME ChatConstants ==
  /\ Users \subseteq Nat
  /\ None \notin Users \cup Sockets
  /\ \A p \in Pairs : NormalizeRoom(p[1], p[2]) \in Rooms
  /\ Limit \in Nat \ {0}
  /\ {MaxOld, MaxCalls, MaxFailures} \subseteq Nat

VARIABLES
  gone,         \* sockets that have disconnected
  joined,       \* room -> the sockets in it
  clientUsers,  \* socket -> the user it registered last, or None
  userClients,  \* user -> sockets
  messages,     \* table chat_messages: sequence of room and sender
  receipts,     \* table chat_read_receipts, and the call that inserted each
  task,         \* slot -> the call it holds
  calls,        \* number of calls so far
  emitted,      \* what the last step gave out: an announcement, an answer, or Nothing
  reader,       \* a page that reads the history of a room
  failures      \* number of failures so far

connections == <<gone, joined, clientUsers, userClients>>
tables      == <<messages, receipts>>
vars == <<connections, tables, task, calls, emitted, reader, failures>>

---------------------------------------------------------------------------
\* Messages, calls and the reader

MessageIds == 1..(MaxOld + MaxCalls)
Message    == [room : Rooms, sender : Users]
Receipt    == [message : MessageIds, user : Users, by : 1..MaxCalls]

IsRead(m, u) == \E x \in receipts : x.message = m /\ x.user = u

Kinds == {"none", "send", "markOne", "markMany", "markRoom"}
PCs   == {"idle", "insertMessage", "readBack", "findReceipt", "insertReceipt",
          "findUnread", "insertReceipts"}

\* A call at query pc: its number, its user and room, the messages it still has
\* to look at, the one it is at, how many it has marked, and how many messages
\* there were when it came in.
Call == [pc : PCs, kind : Kinds, id : 0..MaxCalls, user : Users \cup {None},
         room : Rooms \cup {None}, ids : SUBSET MessageIds, at : MessageIds \cup {0},
         marked : 0..(MaxOld + MaxCalls), upto : MessageIds \cup {0}]
NoCall == [pc |-> "idle", kind |-> "none", id |-> 0, user |-> None, room |-> None,
           ids |-> {}, at |-> 0, marked |-> 0, upto |-> 0]

\* A message as it is announced to a room and its recipient, and the answer to a
\* request to mark messages as read.
Announcement == [message : MessageIds, hearers : SUBSET Sockets, direct : SUBSET Sockets]
Answer       == [call : 1..MaxCalls, kind : {"markMany", "markRoom"}, user : Users,
                 room : Rooms \cup {None}, marked : 0..(MaxOld + MaxCalls), upto : 0..(MaxOld + MaxCalls)]
Nothing      == [call |-> 0]
IsAnnounced  == "message" \in DOMAIN emitted
IsAnswered   == "marked" \in DOMAIN emitted

\* A page that reads the history of a room: what its request for a page of
\* messages waits for, the messages it shows (allMessages) and the rows it was
\* answered; how many messages there were at its first query, which of them had
\* been announced when it last began to listen, and its socket once in the room.
NoReader == [pc |-> "idle", room |-> None, page |-> 0, shown |-> {}, fetched |-> {},
             upto |-> 0, told |-> {}, socket |-> None]

FreeSlots == {s \in Slots : task[s].pc = "idle"}

Init ==
  /\ gone = {}
  /\ joined = [r \in Rooms |-> {}]
  /\ clientUsers = [k \in Sockets |-> None]
  /\ userClients = [u \in Users |-> {}]
  /\ \E n \in 0..MaxOld : messages \in [1..n -> Message]
  /\ receipts = {}
  /\ task = [s \in Slots |-> NoCall]
  /\ calls = 0
  /\ emitted = Nothing
  /\ reader = NoReader
  /\ failures = 0

Silent == emitted' = Nothing

---------------------------------------------------------------------------
\* Connections

\* Messages that are stored and not yet announced, and the others.
Pending == {task[s].at : s \in {x \in Slots : task[x].pc = "readBack"}}
Told    == DOMAIN messages \ Pending

\* A new connection changes nothing: a socket that is not gone may be connected.
Join(k, r) ==
  /\ k \notin gone
  /\ joined' = [joined EXCEPT ![r] = @ \cup {k}]
  /\ UNCHANGED <<gone, clientUsers, userClients>>

HandleJoinRoom(k, r) == Join(k, r) /\ UNCHANGED reader

\* The page's socket joins the room when it has connected, again or for the
\* first time, with or without the history loaded.
ReaderWith(k, r) ==
  IF reader.socket = None /\ reader.room = r
    THEN [reader EXCEPT !.socket = k, !.told = Told] ELSE reader

HandleJoinRoomBetweenUsers(k, u, v) ==
  LET r == NormalizeRoom(u, v) IN Join(k, r) /\ reader' \in {reader, ReaderWith(k, r)}

\* Socket k no longer hears what is said in rooms R.
ReaderWithout(k, R) ==
  IF reader.socket = k /\ reader.room \in R THEN [reader EXCEPT !.socket = None] ELSE reader

HandleLeaveRoom(k, r) ==
  /\ k \notin gone
  /\ joined' = [joined EXCEPT ![r] = @ \ {k}]
  /\ reader' = ReaderWithout(k, {r})
  /\ UNCHANGED <<gone, clientUsers, userClients>>

\* Mutant of Registered: every registration starts a set of its own.
Registered_Anew(k, u) == [userClients EXCEPT ![u] = {k}]

\* userClients once k has registered for u; it stays with an earlier user too.
Registered(k, u) == [userClients EXCEPT ![u] = @ \cup {k}]

HandleRegisterUser(k, u) ==
  /\ k \notin gone
  /\ clientUsers' = [clientUsers EXCEPT ![k] = u]
  /\ userClients' = Registered(k, u)
  /\ UNCHANGED <<gone, joined, reader>>

HandleDisconnect(k) ==
  /\ k \notin gone
  /\ gone' = gone \cup {k}
  /\ joined' = [r \in Rooms |-> joined[r] \ {k}]
  /\ clientUsers' = [clientUsers EXCEPT ![k] = None]
  /\ userClients' = [u \in Users |-> IF u = clientUsers[k] THEN userClients[u] \ {k}
                                                           ELSE userClients[u]]
  /\ reader' = ReaderWithout(k, Rooms)

Connection ==
  /\ \E k \in Sockets :
       \/ \E r \in Rooms : HandleJoinRoom(k, r) \/ HandleLeaveRoom(k, r)
       \/ \E p \in Pairs : HandleJoinRoomBetweenUsers(k, p[1], p[2])
       \/ \E u \in Users : HandleRegisterUser(k, u)
       \/ HandleDisconnect(k)
  /\ Silent /\ UNCHANGED <<tables, task, calls, failures>>

---------------------------------------------------------------------------
\* Calls arrive

\* Mutant of NewCall: the user is not handed on.
NewCall_Anonymous(pc, k, u, r, ids) ==
  [NoCall EXCEPT !.pc = pc, !.kind = k, !.id = calls + 1, !.room = r, !.ids = ids,
                 !.upto = Len(messages)]

NewCall(pc, k, u, r, ids) ==
  [NoCall EXCEPT !.pc = pc, !.kind = k, !.id = calls + 1, !.user = u, !.room = r, !.ids = ids,
                 !.upto = Len(messages)]

Begin(pc, k, u, r, ids) ==
  /\ calls < MaxCalls
  /\ calls' = calls + 1
  /\ \E s \in FreeSlots : task' = [task EXCEPT ![s] = NewCall(pc, k, u, r, ids)]
  /\ Silent /\ UNCHANGED <<connections, tables, reader, failures>>

HandleMessage(u, r) == Begin("insertMessage", "send", u, r, {})
MarkRoomAsRead(u, r) == Begin("findUnread", "markRoom", u, r, {})

\* Clients know the ids of messages that are stored.
MarkMessageAsRead(u, m)   == Begin("findReceipt", "markOne", u, None, {m})
MarkMessagesAsRead(u, ms) == Begin("findReceipt", "markMany", u, None, ms)

Arrival ==
  \E u \in Users :
    \/ \E r \in Rooms : HandleMessage(u, r) \/ MarkRoomAsRead(u, r)
    \/ \E m \in DOMAIN messages : MarkMessageAsRead(u, m)
    \/ \E ms \in SUBSET DOMAIN messages \ {{}} : MarkMessagesAsRead(u, ms)

---------------------------------------------------------------------------
\* Sending a message

Ended(s) == task' = [task EXCEPT ![s] = NoCall]

InsertMessage(s) ==
  /\ task[s].pc = "insertMessage"
  /\ messages' = Append(messages, [room |-> task[s].room, sender |-> task[s].user])
  /\ task' = [task EXCEPT ![s].pc = "readBack", ![s].at = Len(messages) + 1]
  /\ Silent /\ UNCHANGED <<connections, receipts, calls, reader, failures>>

\* Mutant of Hearers: a message does not go back to the sender's own sockets.
Hearers_Others(r, u) == joined[r] \ userClients[u]

\* The sockets to which a message in room r from user u is announced.
Hearers(r, u) == joined[r]

\* The other user of a room of two parts; nobody of any other room.
Recipient(r, u) == IF Len(r) # 2 THEN None ELSE IF r[1] = u THEN r[2] ELSE r[1]
Notified(r, u)  == IF Recipient(r, u) \in Users THEN userClients[Recipient(r, u)] ELSE {}

\* The page shows message m, which its socket hears.
HandleNewMessage(m) == [reader EXCEPT !.shown = @ \cup {m}]

\* The message is read back, announced to the room, and the other user is
\* notified; sockets that are gone take nothing.
Announce(s) ==
  LET t == task[s] IN
  /\ t.pc = "readBack"
  /\ emitted' = [message |-> t.at, hearers |-> Hearers(t.room, t.user) \ gone,
                 direct |-> Notified(t.room, t.user) \ gone]
  /\ reader' = IF reader.socket \in emitted'.hearers /\ reader.room = t.room
                 THEN HandleNewMessage(t.at) ELSE reader
  /\ Ended(s)
  /\ UNCHANGED <<connections, tables, calls, failures>>

---------------------------------------------------------------------------
\* Marking messages as read

Answered(t, n) == [call |-> t.id, kind |-> t.kind, user |-> t.user, room |-> t.room,
                   marked |-> n, upto |-> t.upto]

\* The call of slot s has done with the message it is at, and marked n so far.
GoOn(s, t, n) ==
  IF t.ids \ {t.at} = {}
    THEN /\ Ended(s)
         /\ emitted' = IF t.kind = "markOne" THEN Nothing ELSE Answered(t, n)
    ELSE /\ task' = [task EXCEPT ![s] = [t EXCEPT !.pc = "findReceipt", !.ids = @ \ {t.at},
                                                  !.at = 0, !.marked = n]]
         /\ Silent

FindReceipt(s) ==
  /\ task[s].pc = "findReceipt"
  /\ \E m \in task[s].ids :
       LET t == [task[s] EXCEPT !.at = m] IN
       IF IsRead(m, t.user)
         THEN GoOn(s, t, t.marked)
         ELSE /\ task' = [task EXCEPT ![s] = [t EXCEPT !.pc = "insertReceipt"]]
              /\ Silent
  /\ UNCHANGED <<connections, tables, calls, reader, failures>>

\* Mutant of Collides: the table has no unique key.
Collides_Never(ms, u) == FALSE

\* The unique key on message and user refuses receipts for messages ms.
Collides(ms, u) == \E m \in ms : IsRead(m, u)

Receipts(t, ms) == {[message |-> m, user |-> t.user, by |-> t.id] : m \in ms}

\* A refused row ends the call with an error; the rows before it stay.
InsertReceipt(s) ==
  LET t == task[s] IN
  /\ t.pc = "insertReceipt"
  /\ IF Collides({t.at}, t.user)
       THEN Ended(s) /\ Silent /\ UNCHANGED receipts
       ELSE receipts' = receipts \cup Receipts(t, {t.at}) /\ GoOn(s, t, t.marked + 1)
  /\ UNCHANGED <<connections, messages, calls, reader, failures>>

\* Mutant of Unread: a receipt of any user counts.
Unread_ByNobody(r, u) ==
  {m \in DOMAIN messages : /\ messages[m].room = r
                           /\ messages[m].sender # u
                           /\ \A v \in Users : ~IsRead(m, v)}

\* The messages of room r from others that user u has not read.
Unread(r, u) ==
  {m \in DOMAIN messages : messages[m].room = r /\ messages[m].sender # u /\ ~IsRead(m, u)}

FindUnread(s) ==
  LET t == task[s]
      ms == Unread(t.room, t.user) IN
  /\ t.pc = "findUnread"
  /\ IF ms = {}
       THEN Ended(s) /\ emitted' = Answered(t, 0)
       ELSE /\ task' = [task EXCEPT ![s].pc = "insertReceipts", ![s].ids = ms]
            /\ Silent
  /\ UNCHANGED <<connections, tables, calls, reader, failures>>

\* save() of all receipts in one transaction.
InsertReceipts(s) ==
  LET t == task[s] IN
  /\ t.pc = "insertReceipts"
  /\ Ended(s)
  /\ IF Collides(t.ids, t.user)
       THEN Silent /\ UNCHANGED receipts
       ELSE /\ receipts' = receipts \cup Receipts(t, t.ids)
            /\ emitted' = Answered(t, Cardinality(t.ids))
  /\ UNCHANGED <<connections, messages, calls, reader, failures>>

---------------------------------------------------------------------------
\* Reading the history

\* The messages of room r, and how many of them are newer than m: in the order
\* newest first, m comes after these.
History(r)  == {m \in DOMAIN messages : messages[m].room = r}
Newer(m, r) == Cardinality({n \in History(r) : n > m})

Skip(page) == (page - 1) * Limit
Page(r, page) == {m \in History(r) : Newer(m, r) \in Skip(page)..(Skip(page) + Limit - 1)}

\* A page opens the chat of two users: it begins to connect, and at once asks
\* for page 1.
OpenHistory(u, v) ==
  /\ reader.pc \in {"idle", "done"}
  /\ reader' = [NoReader EXCEPT !.pc = "rows", !.room = NormalizeRoom(u, v), !.page = 1]

FetchRows ==
  /\ reader.pc = "rows"
  /\ reader' = [reader EXCEPT
       !.pc = "count", !.fetched = Page(reader.room, reader.page),
       !.upto = IF reader.page = 1 THEN Len(messages) ELSE @]

\* The count is a query of its own; from it the page will know if there is more.
FetchCount ==
  /\ reader.pc = "count"
  /\ reader' = [reader EXCEPT
       !.pc = IF Skip(reader.page) + Cardinality(reader.fetched) < Cardinality(History(reader.room))
                THEN "answeredMore" ELSE "answeredLast"]

\* The response arrives.  Page 1 replaces whatever the page shows, what it has
\* heard since it joined included; a later page goes before it.
ReceivePage ==
  /\ reader.pc \in {"answeredMore", "answeredLast"}
  /\ LET shown == IF reader.page = 1 THEN reader.fetched ELSE reader.shown \cup reader.fetched
         told  == IF reader.page = 1 THEN Told ELSE reader.told
     IN reader' = [reader EXCEPT
          !.pc = IF reader.pc = "answeredMore" THEN "more" ELSE "done",
          !.shown = shown, !.fetched = {}, !.told = told]

\* The user scrolls up.
LoadMore ==
  /\ reader.pc = "more"
  /\ reader' = [reader EXCEPT !.pc = "rows", !.page = @ + 1]

Reading ==
  /\ \/ FetchRows \/ FetchCount \/ ReceivePage \/ LoadMore
     \/ \E p \in Pairs : OpenHistory(p[1], p[2])
  /\ Silent /\ UNCHANGED <<connections, tables, task, calls, failures>>

---------------------------------------------------------------------------
\* Failures

\* A write fails: the call ends, and what it wrote before stays.
WriteFails(s) ==
  /\ task[s].pc \in {"insertMessage", "insertReceipt", "insertReceipts"}
  /\ failures < MaxFailures
  /\ failures' = failures + 1
  /\ Ended(s)
  /\ Silent /\ UNCHANGED <<connections, tables, calls, reader>>

\* A page whose request fails is where it was before, and can be scrolled; of a
\* failed page 1 nothing is kept and it is not asked for again.
LoadFailed(d) ==
  [d EXCEPT !.pc = "more", !.fetched = {},
            !.page = IF @ = 1 THEN 1 ELSE @ - 1, !.upto = IF d.page = 1 THEN 0 ELSE @]

\* The connection of a request is lost.
LoadFails ==
  /\ reader.pc \in {"rows", "count", "answeredMore", "answeredLast"}
  /\ failures < MaxFailures
  /\ failures' = failures + 1
  /\ reader' = LoadFailed(reader)
  /\ Silent /\ UNCHANGED <<connections, tables, task, calls>>

\* The process ends and starts again: calls, requests and connections are lost;
\* a response on its way may still arrive.
Restart ==
  /\ failures < MaxFailures
  /\ failures' = failures + 1
  /\ gone' = gone \cup {k \in Sockets : clientUsers[k] # None \/ \E r \in Rooms : k \in joined[r]}
  /\ joined' = [r \in Rooms |-> {}]
  /\ clientUsers' = [k \in Sockets |-> None]
  /\ userClients' = [u \in Users |-> {}]
  /\ task' = [s \in Slots |-> NoCall]
  /\ reader' = IF reader.pc \in {"rows", "count"}
                  THEN LoadFailed([reader EXCEPT !.socket = None])
                  ELSE [reader EXCEPT !.socket = None]
  /\ Silent /\ UNCHANGED <<tables, calls>>

Query(s) ==
  \/ InsertMessage(s) \/ Announce(s) \/ FindReceipt(s) \/ InsertReceipt(s)
  \/ FindUnread(s) \/ InsertReceipts(s)

Next ==
  \/ Connection \/ Arrival \/ Reading \/ LoadFails \/ Restart
  \/ \E s \in Slots : Query(s) \/ WriteFails(s)

Spec == Init /\ [][Next]_vars

---------------------------------------------------------------------------
\* Properties

\* Types of the state.
TypeOK ==
  /\ gone \subseteq Sockets
  /\ joined \in [Rooms -> SUBSET Sockets]
  /\ clientUsers \in [Sockets -> Users \cup {None}]
  /\ userClients \in [Users -> SUBSET Sockets]
  /\ messages \in Seq(Message)
  /\ receipts \subseteq Receipt
  /\ task \in [Slots -> Call]
  /\ calls \in 0..MaxCalls
  /\ emitted \in Announcement \cup Answer \cup {Nothing}
  /\ reader.pc \in {"idle", "rows", "count", "answeredMore", "answeredLast", "more", "done"}
  /\ reader.room \in Rooms \cup {None} /\ reader.socket \in Sockets \cup {None}
  /\ reader.shown \cup reader.fetched \cup reader.told \subseteq MessageIds
  /\ {reader.page, reader.upto} \subseteq Nat
  /\ failures \in 0..MaxFailures

\* When a message is announced, every connection whose last registration was
\* for the recipient is notified: the two maps never lose it, in whatever order
\* its user's connections come, register again and go.
RecipientNotified ==
  IsAnnounced =>
    LET m == messages[emitted.message] IN
    \A k \in Sockets :
      clientUsers[k] # None /\ clientUsers[k] = Recipient(m.room, m.sender) => k \in emitted.direct

\* A message is marked as read once for a user, however many calls mark it at
\* the same time, and the number a call answers with is that of the receipts
\* it made itself.
MarkedOnce ==
  /\ \A x, y \in receipts : x.message = y.message /\ x.user = y.user => x = y
  /\ IsAnswered => emitted.marked = Cardinality({x \in receipts : x.by = emitted.call})

\* A room that was marked as read without an error has nothing unread left of
\* what others had sent before the call came in, whatever else went on.
AllRead ==
  IsAnswered /\ emitted.room # None =>
    \A m \in 1..emitted.upto :
      messages[m].room = emitted.room /\ messages[m].sender # emitted.user => IsRead(m, emitted.user)

\* A page that asks for more as long as hasMore says so shows, in the end, every
\* message there was at its first query, though the pages shift under it; and
\* while its socket is in the room it shows each message that came later and
\* was announced after it had joined and had been answered page 1, also if it
\* was stored before - or is about to.  What it can miss was announced while
\* page 1 was on its way, or before it joined, and nothing else.
NothingMissed ==
  reader.pc = "done" =>
    \A m \in History(reader.room) :
      \/ m \in reader.shown
      \/ /\ m > reader.upto
         /\ reader.socket = None \/ m \in reader.told \cup Pending

=============================================================================
