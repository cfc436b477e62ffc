---------------------------- MODULE SyncSession ----------------------------
(***************************************************************************)
(* The connection state of the sync gateway (src/src/socket/sync.gateway.ts) *)
(* and the messages that only pass through it: project rooms, the registry *)
(* of users, point-to-point sharing with its queue for absent recipients,  *)
(* and the editor events relayed to a room.                                *)
(*                                                                         *)
(* Every handler here runs without an await, so each is one action.  A     *)
(* socket that has gone away is noticed late: between open and closed it   *)
(* is closing, its last messages are still handled, and nothing sent to it *)
(* arrives.  Payloads are not modelled; one that fails validation is       *)
(* answered with an error and changes nothing.                             *)
(***************************************************************************)
EXTENDS Naturals, Sequences, FiniteSets

CONSTANTS
  Users, NoUser,   \* user ids, and "not registered"
  Clients,         \* websocket objects, each opened and closed once
  Projects,        \* project ids
  MaxMessages      \* bound: point-to-point and relayed messages together

ASSUME SessionConstants ==
  /\ NoUser \notin Users
  /\ MaxMessages \in Nat

VARIABLES
  status,           \* client -> "new", "open", "closing" or "closed"
  rooms,            \* rooms: a function whose domain is the projects with a room
  userConnections,  \* userConnections: user -> clients
  clientToUserId,   \* clientToUserId: client -> user, or NoUser
  pendingMessages,  \* pendingMessages: user -> numbers of the queued shares
  shares,           \* number of point-to-point messages so far
  relays,           \* number of relayed messages so far
  received,         \* client -> the shares it received: recipient and number
  heard,            \* client -> the relayed messages it received
  taken,            \* user -> shares sent to, or dequeued for, the user
  lost              \* shares dequeued without a socket to send them to

vars == <<status, rooms, userConnections, clientToUserId, pendingMessages,
          shares, relays, received, heard, taken, lost>>
mail == <<pendingMessages, shares, received, taken, lost>>

Init ==
  /\ status = [c \in Clients |-> "new"]
  /\ rooms = [p \in {} |-> {}]
  /\ userConnections = [u \in Users |-> {}]
  /\ clientToUserId = [c \in Clients |-> NoUser]
  /\ pendingMessages = [u \in Users |-> <<>>]
  /\ shares = 0
  /\ relays = 0
  /\ received = [c \in Clients |-> <<>>]
  /\ heard = [c \in Clients |-> <<>>]
  /\ taken = [u \in Users |-> <<>>]
  /\ lost = {}

---------------------------------------------------------------------------
\* Sockets and rooms

Talking(c) == status[c] \in {"open", "closing"}   \* its messages are handled
Open(S)    == {c \in S : status[c] = "open"}      \* readyState === OPEN

HasRoom(p) == p \in DOMAIN rooms
Members(p) == IF HasRoom(p) THEN rooms[p] ELSE {}

\* Mutant of Leaving: the room is kept when its last member leaves.
Leaving_KeepsRoom(c, P) ==
  [p \in DOMAIN rooms |-> IF p \in P THEN rooms[p] \ {c} ELSE rooms[p]]

\* rooms after client c has left the projects in P; a room that is empty
\* then is deleted.
Leaving(c, P) ==
  LET left(p) == IF p \in P THEN rooms[p] \ {c} ELSE rooms[p]
  IN [p \in {q \in DOMAIN rooms : left(q) # {}} |-> left(p)]

Connect(c) ==
  /\ status[c] = "new"
  /\ status' = [status EXCEPT ![c] = "open"]
  /\ UNCHANGED <<rooms, userConnections, clientToUserId, relays, heard, mail>>

\* The socket is gone, which the gateway does not know yet.
Drop(c) ==
  /\ status[c] = "open"
  /\ status' = [status EXCEPT ![c] = "closing"]
  /\ UNCHANGED <<rooms, userConnections, clientToUserId, relays, heard, mail>>

\* Mutants of Forget: the user is forgotten with its first connection that
\* closes, as a user without connections or as no user at all.
Forget_AllConnections(c) ==
  [u \in Users |-> IF clientToUserId[c] = u THEN {} ELSE userConnections[u]]
Forget_User(c) ==
  [u \in Users \ {clientToUserId[c]} |-> userConnections[u]]
Forget(c) ==
  [u \in Users |-> IF clientToUserId[c] = u THEN userConnections[u] \ {c}
                                            ELSE userConnections[u]]

\* The close event: out of every room, and out of the registry of the user it
\* registered as last.  (The release of the user's locks is in LockQueue.)
HandleDisconnect(c) ==
  /\ status[c] = "closing"
  /\ status' = [status EXCEPT ![c] = "closed"]
  /\ rooms' = Leaving(c, DOMAIN rooms)
  /\ userConnections' = Forget(c)
  /\ clientToUserId' = [clientToUserId EXCEPT ![c] = NoUser]
  /\ UNCHANGED <<relays, heard, mail>>

JoinProject(c, p) ==
  /\ Talking(c)
  /\ rooms' = [q \in DOMAIN rooms \cup {p} |->
                 IF q = p THEN Members(p) \cup {c} ELSE rooms[q]]
  /\ UNCHANGED <<status, userConnections, clientToUserId, relays, heard, mail>>

LeaveProject(c, p) ==
  /\ Talking(c)
  /\ HasRoom(p)
  /\ rooms' = Leaving(c, {p})
  /\ UNCHANGED <<status, userConnections, clientToUserId, relays, heard, mail>>

---------------------------------------------------------------------------
\* Relayed messages

Audience(c, p) == Open(Members(p)) \ {c}

Relay(c, p) ==
  /\ Talking(c)
  /\ HasRoom(p)
  /\ shares + relays < MaxMessages
  /\ relays' = relays + 1
  /\ heard' = [d \in Clients |-> IF d \in Audience(c, p)
        THEN Append(heard[d], [number |-> relays + 1, from |-> c])
        ELSE heard[d]]
  /\ UNCHANGED <<status, rooms, userConnections, clientToUserId, mail>>

\* The editor events: each handler checks its payload and relays it.
CursorPosition(c, p)  == Relay(c, p)
Plugin(c, p)          == Relay(c, p)
PlaybackState(c, p)   == Relay(c, p)
TempoChange(c, p)     == Relay(c, p)
TempoAutomation(c, p) == Relay(c, p)
AutomationEvent(c, p) == Relay(c, p)
Undo(c, p)            == Relay(c, p)
Redo(c, p)            == Relay(c, p)
MarkerAdded(c, p)     == Relay(c, p)
MarkerUpdated(c, p)   == Relay(c, p)
MarkerDeleted(c, p)   == Relay(c, p)

---------------------------------------------------------------------------
\* Sharing

\* received after the shares of queue q for user u are sent to the clients in
\* S, one share after the other.
Sent(S, u, q) ==
  [c \in Clients |-> IF c \in S
     THEN received[c] \o [k \in DOMAIN q |-> [to |-> u, number |-> q[k]]]
     ELSE received[c]]

\* Mutants of Forward: a share counts as delivered only if every connection
\* was open; a recipient counts as connected whatever state its connections
\* are in.
Forward_AllOpen(u) ==
  LET reached == Open(userConnections[u]) IN
  /\ shares + relays < MaxMessages
  /\ shares' = shares + 1
  /\ IF reached # userConnections[u] \/ reached = {}
       THEN /\ pendingMessages' = [pendingMessages EXCEPT ![u] = Append(@, shares + 1)]
            /\ UNCHANGED <<received, taken>>
       ELSE /\ received' = Sent(reached, u, <<shares + 1>>)
            /\ taken' = [taken EXCEPT ![u] = Append(@, shares + 1)]
            /\ UNCHANGED pendingMessages
  /\ UNCHANGED lost

Forward_AnyConnection(u) ==
  /\ shares + relays < MaxMessages
  /\ shares' = shares + 1
  /\ IF userConnections[u] = {}
       THEN /\ pendingMessages' = [pendingMessages EXCEPT ![u] = Append(@, shares + 1)]
            /\ UNCHANGED <<received, taken>>
       ELSE /\ received' = Sent(Open(userConnections[u]), u, <<shares + 1>>)
            /\ taken' = [taken EXCEPT ![u] = Append(@, shares + 1)]
            /\ UNCHANGED pendingMessages
  /\ UNCHANGED lost

\* forwardShareEvent and queueShareMessage: to every open connection of the
\* recipient, or into its queue if there is none.
Forward(u) ==
  LET reached == Open(userConnections[u]) IN
  /\ shares + relays < MaxMessages
  /\ shares' = shares + 1
  /\ IF reached = {}
       THEN /\ pendingMessages' = [pendingMessages EXCEPT ![u] = Append(@, shares + 1)]
            /\ UNCHANGED <<received, taken>>
       ELSE /\ received' = Sent(reached, u, <<shares + 1>>)
            /\ taken' = [taken EXCEPT ![u] = Append(@, shares + 1)]
            /\ UNCHANGED pendingMessages
  /\ UNCHANGED lost

HandleShareProject(c, u) ==
  /\ Talking(c)
  /\ Forward(u)
  /\ UNCHANGED <<status, rooms, userConnections, clientToUserId, relays, heard>>

\* An update of a project with a room goes to the room; any other goes to its
\* recipient like a share.
HandleShareProjectUpdate(c, u, p) ==
  /\ Talking(c)
  /\ IF HasRoom(p)
       THEN Relay(c, p)
       ELSE /\ Forward(u)
            /\ UNCHANGED <<status, rooms, userConnections, clientToUserId, relays, heard>>

\* Mutants of Flushed: the queue is sent newest first; it is sent and kept.
Flushed_Reversed(u, S) ==
  LET q == pendingMessages[u] IN
  /\ received' = Sent(S, u, [k \in DOMAIN q |-> q[Len(q) + 1 - k]])
  /\ pendingMessages' = [pendingMessages EXCEPT ![u] = <<>>]
  /\ taken' = [taken EXCEPT ![u] = @ \o q]
Flushed_Kept(u, S) ==
  /\ received' = Sent(S, u, pendingMessages[u])
  /\ taken' = [taken EXCEPT ![u] = @ \o pendingMessages[u]]
  /\ UNCHANGED pendingMessages

\* flushQueuedMessages: everything queued for the user leaves the queue and is
\* sent to the clients in S.
Flushed(u, S) ==
  /\ received' = Sent(S, u, pendingMessages[u])
  /\ pendingMessages' = [pendingMessages EXCEPT ![u] = <<>>]
  /\ taken' = [taken EXCEPT ![u] = @ \o pendingMessages[u]]

\* registerUser: the client joins the user's connections (without leaving
\* those of a user it registered as before), and the queue is flushed to all
\* of the user's open connections.
HandleRegisterUser(c, u) ==
  LET mine == userConnections[u] \cup {c} IN
  /\ Talking(c)
  /\ userConnections' = [userConnections EXCEPT ![u] = mine]
  /\ clientToUserId' = [clientToUserId EXCEPT ![c] = u]
  /\ Flushed(u, Open(mine))
  /\ lost' = IF Open(mine) = {}
               THEN lost \cup {pendingMessages[u][k] : k \in DOMAIN pendingMessages[u]}
               ELSE lost
  /\ UNCHANGED <<status, rooms, shares, relays, heard>>

Next ==
  \E c \in Clients :
    \/ Connect(c) \/ Drop(c) \/ HandleDisconnect(c)
    \/ \E u \in Users : HandleRegisterUser(c, u) \/ HandleShareProject(c, u)
    \/ \E u \in Users, p \in Projects : HandleShareProjectUpdate(c, u, p)
    \/ \E p \in Projects :
         \/ JoinProject(c, p) \/ LeaveProject(c, p)
         \/ CursorPosition(c, p) \/ Plugin(c, p) \/ PlaybackState(c, p)
         \/ TempoChange(c, p) \/ TempoAutomation(c, p) \/ AutomationEvent(c, p)
         \/ Undo(c, p) \/ Redo(c, p)
         \/ MarkerAdded(c, p) \/ MarkerUpdated(c, p) \/ MarkerDeleted(c, p)

Spec == Init /\ [][Next]_vars

---------------------------------------------------------------------------
\* Properties

\* Types of the state.
TypeOK ==
  /\ status \in [Clients -> {"new", "open", "closing", "closed"}]
  /\ DOMAIN rooms \subseteq Projects
  /\ \A p \in DOMAIN rooms : rooms[p] \subseteq Clients
  /\ userConnections \in [Users -> SUBSET Clients]
  /\ clientToUserId \in [Clients -> Users \cup {NoUser}]
  /\ pendingMessages \in [Users -> Seq(1..MaxMessages)]
  /\ shares \in 0..MaxMessages
  /\ relays \in 0..MaxMessages
  /\ received \in [Clients -> Seq([to : Users, number : 1..MaxMessages])]
  /\ taken \in [Users -> Seq(1..MaxMessages)]
  /\ lost \subseteq 1..MaxMessages

\* A room exists exactly while it has members that are not gone, through any
\* order of joins, leaves and closes of several projects: processMessage
\* and shareProjectUpdate take the existence of a room for "somebody listens".
RoomsAlive ==
  \A p \in DOMAIN rooms : rooms[p] # {} /\ \A c \in rooms[p] : Talking(c)

\* The two halves of the registry agree on the current user of a client, and
\* a closed client has none.
RegistryAgrees ==
  \A c \in Clients :
    IF clientToUserId[c] \in Users THEN Talking(c) /\ c \in userConnections[clientToUserId[c]]
    ELSE \A u \in Users : c \in userConnections[u] => status[c] # "open"

\* No share waits for a recipient that has an open registered connection, in
\* whatever order registering, sharing, dropping and closing happen.
NoShareStranded ==
  \A u \in Users : pendingMessages[u] # <<>> => Open(userConnections[u]) = {}

\* Every share is in one place: queued for one user, or received by at least
\* one client, or lost in a flush that had no open socket.
ShareAccountedFor ==
  LET queued == UNION {{pendingMessages[u][k] : k \in DOMAIN pendingMessages[u]} : u \in Users}
      seen   == UNION {{received[c][k].number : k \in DOMAIN received[c]} : c \in Clients}
  IN /\ 1..shares = queued \cup seen \cup lost
     /\ queued \cap (seen \cup lost) = {} /\ seen \cap lost = {}

\* Each client sees an ascending part of the shares for one recipient - queued
\* ones never arrive after, or again with, later direct ones - and of what is
\* relayed in its rooms, where nobody sees its own: an undo and the edit it
\* undoes are never seen the other way round.
DeliveredInOrder ==
  \A c \in Clients :
    /\ \A j, k \in DOMAIN received[c] :
         j < k /\ received[c][j].to = received[c][k].to
           => received[c][j].number < received[c][k].number
    /\ \A j, k \in DOMAIN heard[c] :
         /\ heard[c][k].from # c
         /\ j < k => heard[c][j].number < heard[c][k].number

\* Sharing implements the mailbox: exactly once and in order per recipient.
Mail == INSTANCE Mailbox WITH MaxShares <- MaxMessages, posted <- shares, waiting <- pendingMessages
MailboxSpec == Mail!Spec

=============================================================================
