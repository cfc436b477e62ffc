------------------------- MODULE SyncSession_proofs -------------------------
(***************************************************************************)
(* Theorems about SyncSession for every number of users, clients, projects *)
(* and messages, and their proofs.                                         *)
(***************************************************************************)
EXTENDS SyncSession, SequenceTheorems, TLAPS

\* A step is one of these: the relayed events differ in their names only, and
\* an update of a project is relayed or shared.
LEMMA StepKinds ==
  ASSUME Next
  PROVE  \E c \in Clients :
           \/ Connect(c) \/ Drop(c) \/ HandleDisconnect(c)
           \/ \E u \in Users : HandleRegisterUser(c, u) \/ HandleShareProject(c, u)
           \/ \E p \in Projects : JoinProject(c, p) \/ LeaveProject(c, p) \/ Relay(c, p)
<1>1. ASSUME NEW c \in Clients, NEW p \in Projects,
             \/ CursorPosition(c, p) \/ Plugin(c, p) \/ PlaybackState(c, p)
             \/ TempoChange(c, p) \/ TempoAutomation(c, p) \/ AutomationEvent(c, p)
             \/ Undo(c, p) \/ Redo(c, p)
             \/ MarkerAdded(c, p) \/ MarkerUpdated(c, p) \/ MarkerDeleted(c, p)
      PROVE  Relay(c, p)
  BY <1>1 DEF CursorPosition, Plugin, PlaybackState, TempoChange, TempoAutomation,
              AutomationEvent, Undo, Redo, MarkerAdded, MarkerUpdated, MarkerDeleted
<1>2. ASSUME NEW c \in Clients, NEW u \in Users, NEW p \in Projects,
             HandleShareProjectUpdate(c, u, p)
      PROVE  Relay(c, p) \/ HandleShareProject(c, u)
  BY <1>2 DEF HandleShareProjectUpdate, HandleShareProject
<1> QED BY <1>1, <1>2 DEF Next

---------------------------------------------------------------------------
(***************************************************************************)
(* The registry and the rooms.                                             *)
(***************************************************************************)

\* The types of the sockets, the registry and the rooms.
SocketsTyped ==
  /\ status \in [Clients -> {"new", "open", "closing", "closed"}]
  /\ userConnections \in [Users -> SUBSET Clients]
  /\ clientToUserId \in [Clients -> Users \cup {NoUser}]
  /\ DOMAIN rooms \subseteq Projects
  /\ \A p \in DOMAIN rooms : rooms[p] \subseteq Clients

\* A client that has not connected yet is registered nowhere.  Without this
\* its connection could make a share wait for an open client.
NewUnregistered ==
  \A c \in Clients : status[c] = "new" => \A u \in Users : c \notin userConnections[u]

RegistryInv == SocketsTyped /\ NewUnregistered /\ RegistryAgrees /\ RoomsAlive

\* The room a client leaves keeps its other members, or goes.
LEMMA LeavingRooms ==
  ASSUME NEW c, NEW P, rooms' = Leaving(c, P)
  PROVE  /\ DOMAIN rooms' \subseteq DOMAIN rooms
         /\ \A p \in DOMAIN rooms' :
              /\ rooms'[p] # {}
              /\ rooms'[p] = IF p \in P THEN rooms[p] \ {c} ELSE rooms[p]
BY DEF Leaving

LEMMA RegistryInit == Init => RegistryInv
BY SessionConstants
   DEF Init, RegistryInv, SocketsTyped, NewUnregistered, RegistryAgrees, RoomsAlive

LEMMA RegistryStep == RegistryInv /\ [Next]_vars => RegistryInv'
<1> SUFFICES ASSUME RegistryInv, [Next]_vars
             PROVE  RegistryInv'
  OBVIOUS
<1> USE SessionConstants DEF Talking
<1>1. ASSUME NEW c \in Clients, Connect(c)
      PROVE  RegistryInv'
  <2>1. SocketsTyped'
    BY <1>1 DEF RegistryInv, SocketsTyped, Connect
  <2>2. NewUnregistered' /\ RegistryAgrees' /\ RoomsAlive'
    BY <1>1 DEF RegistryInv, SocketsTyped, NewUnregistered, RegistryAgrees, RoomsAlive, Connect
  <2> QED BY <2>1, <2>2 DEF RegistryInv
<1>2. ASSUME NEW c \in Clients, Drop(c)
      PROVE  RegistryInv'
  <2>1. SocketsTyped'
    BY <1>2 DEF RegistryInv, SocketsTyped, Drop
  <2>2. NewUnregistered' /\ RegistryAgrees' /\ RoomsAlive'
    BY <1>2 DEF RegistryInv, SocketsTyped, NewUnregistered, RegistryAgrees, RoomsAlive, Drop
  <2> QED BY <2>1, <2>2 DEF RegistryInv
<1>3. ASSUME NEW c \in Clients, HandleDisconnect(c)
      PROVE  RegistryInv'
  <2>1. \A u \in Users : userConnections'[u] =
          IF clientToUserId[c] = u THEN userConnections[u] \ {c} ELSE userConnections[u]
    BY <1>3 DEF HandleDisconnect, Forget
  <2>2. \A d \in Clients : status'[d] = IF d = c THEN "closed" ELSE status[d]
    BY <1>3 DEF RegistryInv, SocketsTyped, HandleDisconnect
  <2>3. \A d \in Clients : clientToUserId'[d] = IF d = c THEN NoUser ELSE clientToUserId[d]
    BY <1>3 DEF RegistryInv, SocketsTyped, HandleDisconnect
  <2>4. /\ DOMAIN rooms' \subseteq DOMAIN rooms
        /\ \A p \in DOMAIN rooms' : rooms'[p] # {} /\ rooms'[p] = rooms[p] \ {c}
    BY <1>3, LeavingRooms DEF HandleDisconnect
  <2>5. SocketsTyped'
    BY <1>3, <2>4 DEF RegistryInv, SocketsTyped, HandleDisconnect, Forget
  <2>6. NewUnregistered'
    BY <2>1, <2>2 DEF RegistryInv, NewUnregistered
  <2>7. RegistryAgrees'
    BY <2>1, <2>2, <2>3 DEF RegistryInv, SocketsTyped, RegistryAgrees
  <2>8. RoomsAlive'
    BY <2>2, <2>4 DEF RegistryInv, SocketsTyped, RoomsAlive
  <2> QED BY <2>5, <2>6, <2>7, <2>8 DEF RegistryInv
<1>4. ASSUME NEW c \in Clients, NEW u \in Users, HandleRegisterUser(c, u)
      PROVE  RegistryInv'
  <2>1. \A v \in Users : userConnections'[v] =
          IF v = u THEN userConnections[u] \cup {c} ELSE userConnections[v]
    BY <1>4 DEF RegistryInv, SocketsTyped, HandleRegisterUser
  <2>2. \A d \in Clients : clientToUserId'[d] = IF d = c THEN u ELSE clientToUserId[d]
    BY <1>4 DEF RegistryInv, SocketsTyped, HandleRegisterUser
  <2>3. status' = status /\ rooms' = rooms /\ status[c] \in {"open", "closing"}
    BY <1>4 DEF HandleRegisterUser
  <2>4. SocketsTyped'
    BY <1>4 DEF RegistryInv, SocketsTyped, HandleRegisterUser
  <2>5. NewUnregistered' /\ RoomsAlive'
    BY <2>1, <2>3 DEF RegistryInv, NewUnregistered, RoomsAlive
  <2>6. RegistryAgrees'
    BY <2>1, <2>2, <2>3 DEF RegistryInv, SocketsTyped, RegistryAgrees
  <2> QED BY <2>4, <2>5, <2>6 DEF RegistryInv
<1>5. ASSUME NEW c \in Clients, NEW p \in Projects, JoinProject(c, p)
      PROVE  RegistryInv'
  <2>1. /\ DOMAIN rooms' = DOMAIN rooms \cup {p}
        /\ \A q \in DOMAIN rooms' : rooms'[q] = IF q = p THEN Members(p) \cup {c} ELSE rooms[q]
    BY <1>5 DEF JoinProject
  <2>2. Members(p) = IF p \in DOMAIN rooms THEN rooms[p] ELSE {}
    BY DEF Members, HasRoom
  <2>3. /\ status' = status /\ status[c] \in {"open", "closing"}
        /\ userConnections' = userConnections /\ clientToUserId' = clientToUserId
    BY <1>5 DEF JoinProject
  <2>4. SocketsTyped' /\ RoomsAlive'
    BY <2>1, <2>2, <2>3 DEF RegistryInv, SocketsTyped, RoomsAlive
  <2> QED BY <2>3, <2>4 DEF RegistryInv, NewUnregistered, RegistryAgrees
<1>6. ASSUME NEW c \in Clients, NEW p \in Projects, LeaveProject(c, p)
      PROVE  RegistryInv'
  <2>1. /\ DOMAIN rooms' \subseteq DOMAIN rooms
        /\ \A q \in DOMAIN rooms' : rooms'[q] # {} /\ rooms'[q] \subseteq rooms[q]
    <3> DEFINE P == {p}
    <3>1. rooms' = Leaving(c, P)
      BY <1>6 DEF LeaveProject
    <3> HIDE DEF P
    <3>2. /\ DOMAIN rooms' \subseteq DOMAIN rooms
          /\ \A q \in DOMAIN rooms' :
               rooms'[q] # {} /\ rooms'[q] = IF q \in P THEN rooms[q] \ {c} ELSE rooms[q]
      BY <3>1, LeavingRooms
    <3> QED BY <3>2
  <2>2. /\ status' = status
        /\ userConnections' = userConnections /\ clientToUserId' = clientToUserId
    BY <1>6 DEF LeaveProject
  <2>3. SocketsTyped' /\ RoomsAlive'
    BY <2>1, <2>2 DEF RegistryInv, SocketsTyped, RoomsAlive
  <2> QED BY <2>2, <2>3 DEF RegistryInv, NewUnregistered, RegistryAgrees
<1>7. ASSUME UNCHANGED <<status, rooms, userConnections, clientToUserId>>
      PROVE  RegistryInv'
  BY <1>7 DEF RegistryInv, SocketsTyped, NewUnregistered, RegistryAgrees, RoomsAlive
<1>8. CASE Next
  BY <1>8, <1>1, <1>2, <1>3, <1>4, <1>5, <1>6, <1>7, StepKinds DEF HandleShareProject, Relay
<1>9. CASE UNCHANGED vars
  BY <1>9, <1>7 DEF vars
<1> QED BY <1>8, <1>9

\* The two halves of the registry agree, in whatever order clients register,
\* register again under another id, drop and close.
THEOREM RegistryConsistent == Spec => []RegistryAgrees
BY RegistryInit, RegistryStep, PTL DEF Spec, RegistryInv

\* No room outlives its members, and no member its connection.
THEOREM NoDeadRoom == Spec => []RoomsAlive
BY RegistryInit, RegistryStep, PTL DEF Spec, RegistryInv

---------------------------------------------------------------------------
(***************************************************************************)
(* Sharing.                                                                *)
(***************************************************************************)

QueuesTyped ==
  /\ pendingMessages \in [Users -> Seq(Nat)]
  /\ taken \in [Users -> Seq(Nat)]
  /\ shares \in Nat /\ relays \in Nat

SharingInv == RegistryInv /\ QueuesTyped /\ NoShareStranded

LEMMA SharingInit == Init => SharingInv
BY RegistryInit DEF Init, SharingInv, QueuesTyped, NoShareStranded

\* What a share does to the queues of its recipient u, and of nobody else.
LEMMA ForwardQueues ==
  ASSUME SharingInv, NEW u \in Users, Forward(u)
  PROVE  /\ shares' = shares + 1
         /\ \/ /\ Open(userConnections[u]) = {}
               /\ pendingMessages' = [pendingMessages EXCEPT ![u] = Append(@, shares + 1)]
               /\ UNCHANGED taken
            \/ /\ Open(userConnections[u]) # {}
               /\ pendingMessages[u] = <<>>
               /\ taken' = [taken EXCEPT ![u] = Append(@, shares + 1)]
               /\ UNCHANGED pendingMessages
BY DEF Forward, SharingInv, NoShareStranded

LEMMA SharingStep == SharingInv /\ [Next]_vars => SharingInv'
<1> SUFFICES ASSUME SharingInv, [Next]_vars
             PROVE  SharingInv'
  OBVIOUS
<1>0. RegistryInv'
  BY RegistryStep DEF SharingInv
<1>1. ASSUME UNCHANGED <<pendingMessages, taken, shares>>, relays' \in Nat,
             \A u \in Users : Open(userConnections[u])' \subseteq Open(userConnections[u])
      PROVE  SharingInv'
  BY <1>0, <1>1 DEF SharingInv, QueuesTyped, NoShareStranded
<1>2. ASSUME NEW c \in Clients, Connect(c)
      PROVE  SharingInv'
  <2>1. \A u \in Users : Open(userConnections[u])' \subseteq Open(userConnections[u])
    BY <1>2 DEF Connect, Open, SharingInv, RegistryInv, SocketsTyped, NewUnregistered
  <2> QED BY <1>1, <1>2, <2>1 DEF Connect, mail, SharingInv, QueuesTyped
<1>3. ASSUME NEW c \in Clients, Drop(c)
      PROVE  SharingInv'
  <2>1. \A u \in Users : Open(userConnections[u])' \subseteq Open(userConnections[u])
    BY <1>3 DEF Drop, Open, SharingInv, RegistryInv, SocketsTyped
  <2> QED BY <1>1, <1>3, <2>1 DEF Drop, mail, SharingInv, QueuesTyped
<1>4. ASSUME NEW c \in Clients, HandleDisconnect(c)
      PROVE  SharingInv'
  <2>1. \A u \in Users : Open(userConnections[u])' \subseteq Open(userConnections[u])
    BY <1>4 DEF HandleDisconnect, Forget, Open, SharingInv, RegistryInv, SocketsTyped
  <2> QED BY <1>1, <1>4, <2>1 DEF HandleDisconnect, mail, SharingInv, QueuesTyped
<1>5. ASSUME NEW c \in Clients, NEW u \in Users, HandleRegisterUser(c, u)
      PROVE  SharingInv'
  <2>1. /\ pendingMessages' = [pendingMessages EXCEPT ![u] = <<>>]
        /\ taken' = [taken EXCEPT ![u] = @ \o pendingMessages[u]]
        /\ UNCHANGED <<shares, relays, status>>
        /\ \A v \in Users : v # u => userConnections'[v] = userConnections[v]
    BY <1>5 DEF HandleRegisterUser, Flushed, SharingInv, RegistryInv, SocketsTyped
  <2>2. taken[u] \o pendingMessages[u] \in Seq(Nat)
    BY ConcatProperties DEF SharingInv, QueuesTyped
  <2>3. QueuesTyped'
    BY <2>1, <2>2 DEF SharingInv, QueuesTyped
  <2>4. NoShareStranded'
    BY <2>1 DEF SharingInv, QueuesTyped, NoShareStranded, Open
  <2> QED BY <1>0, <2>3, <2>4 DEF SharingInv
<1>6. ASSUME NEW c \in Clients, NEW u \in Users, HandleShareProject(c, u)
      PROVE  SharingInv'
  <2>1. UNCHANGED <<status, userConnections, relays>>
    BY <1>6 DEF HandleShareProject
  <2>2. Forward(u)
    BY <1>6 DEF HandleShareProject
  <2>3. QueuesTyped'
    <3>1. /\ Append(pendingMessages[u], shares + 1) \in Seq(Nat)
          /\ Append(taken[u], shares + 1) \in Seq(Nat)
      BY AppendProperties DEF SharingInv, QueuesTyped
    <3>2. /\ shares' = shares + 1
          /\ \/ /\ pendingMessages' = [pendingMessages EXCEPT ![u] = Append(@, shares + 1)]
                /\ UNCHANGED taken
             \/ /\ taken' = [taken EXCEPT ![u] = Append(@, shares + 1)]
                /\ UNCHANGED pendingMessages
      BY <2>2, ForwardQueues
    <3>3. pendingMessages' \in [Users -> Seq(Nat)] /\ taken' \in [Users -> Seq(Nat)]
      <4> DEFINE S == Seq(Nat)
                 p == Append(pendingMessages[u], shares + 1)
                 t == Append(taken[u], shares + 1)
      <4>1. pendingMessages \in [Users -> S] /\ taken \in [Users -> S] /\ p \in S /\ t \in S
        BY <3>1 DEF SharingInv, QueuesTyped
      <4>2. \/ pendingMessages' = [pendingMessages EXCEPT ![u] = p] /\ taken' = taken
            \/ taken' = [taken EXCEPT ![u] = t] /\ pendingMessages' = pendingMessages
        BY <3>2
      <4> HIDE DEF S, p, t
      <4>3. pendingMessages' \in [Users -> S] /\ taken' \in [Users -> S]
        BY <4>1, <4>2
      <4> QED BY <4>3 DEF S
    <3>4. shares' \in Nat /\ relays' \in Nat
      BY <2>1, <3>2 DEF SharingInv, QueuesTyped
    <3> QED BY <3>3, <3>4 DEF QueuesTyped
  <2>4. NoShareStranded'
    BY <2>1, <2>2, ForwardQueues DEF SharingInv, QueuesTyped, NoShareStranded, Open
  <2> QED BY <1>0, <2>3, <2>4 DEF SharingInv
<1>7. ASSUME UNCHANGED <<status, userConnections, pendingMessages, taken, shares>>,
             relays' \in Nat
      PROVE  SharingInv'
  BY <1>1, <1>7 DEF Open
<1>8. ASSUME NEW c \in Clients, NEW p \in Projects,
             JoinProject(c, p) \/ LeaveProject(c, p) \/ Relay(c, p)
      PROVE  SharingInv'
  BY <1>7, <1>8 DEF JoinProject, LeaveProject, Relay, mail, SharingInv, QueuesTyped
<1>9. CASE Next
  BY <1>9, <1>2, <1>3, <1>4, <1>5, <1>6, <1>8, StepKinds
<1>10. CASE UNCHANGED vars
  BY <1>10, <1>7 DEF vars, SharingInv, QueuesTyped
<1> QED BY <1>9, <1>10

\* No share waits for a recipient who has an open registered connection.
THEOREM SharesReachTheConnected == Spec => []NoShareStranded
BY SharingInit, SharingStep, PTL DEF Spec, SharingInv

\* Every step of the gateway is a step of the mailbox, or leaves it alone: a
\* share to an open connection goes through the mailbox at once, which it may
\* because nothing waits there.
LEMMA MailboxStep == SharingInv /\ [Next]_vars => [Mail!Next]_(Mail!vars)
<1> SUFFICES ASSUME SharingInv, [Next]_vars
             PROVE  Mail!Next \/ UNCHANGED Mail!vars
  OBVIOUS
<1>1. ASSUME UNCHANGED <<pendingMessages, taken, shares>>
      PROVE  UNCHANGED Mail!vars
  BY <1>1 DEF Mail!vars
<1>2. ASSUME NEW c \in Clients, NEW u \in Users, HandleRegisterUser(c, u)
      PROVE  Mail!Next
  BY <1>2 DEF HandleRegisterUser, Flushed, Mail!Next, Mail!TakeAll
<1>3. ASSUME NEW c \in Clients, NEW u \in Users, HandleShareProject(c, u)
      PROVE  Mail!Next
  <2>1. Forward(u)
    BY <1>3 DEF HandleShareProject
  <2>2. shares < MaxMessages
    BY <2>1, SessionConstants DEF Forward, SharingInv, QueuesTyped
  <2> QED BY <2>1, <2>2, ForwardQueues DEF Mail!Next, Mail!Post, Mail!PostThrough
<1>4. CASE Next
  BY <1>4, <1>1, <1>2, <1>3, StepKinds
     DEF Connect, Drop, HandleDisconnect, JoinProject, LeaveProject, Relay, mail
<1>5. CASE UNCHANGED vars
  BY <1>5, <1>1 DEF vars
<1> QED BY <1>4, <1>5

\* Sharing implements the mailbox: what was shared with a user is taken for
\* that user once, in the order it was shared.
THEOREM SharingImplementsMailbox == Spec => MailboxSpec
<1>1. Init => Mail!Init
  BY DEF Init, Mail!Init
<1> QED BY <1>1, SharingInit, SharingStep, MailboxStep, PTL DEF Spec, MailboxSpec, Mail!Spec

---------------------------------------------------------------------------
(***************************************************************************)
(* Where each share is.                                                    *)
(***************************************************************************)

\* What a step does to the shares: one is queued for u; one goes through to
\* the clients in S; or the queue of u is sent to the clients in S.
Queues(u) ==
  /\ pendingMessages' = [pendingMessages EXCEPT ![u] = Append(@, shares + 1)]
  /\ shares' = shares + 1
  /\ UNCHANGED <<received, lost>>
PassesThrough(u, S) ==
  /\ S # {}
  /\ pendingMessages[u] = <<>>
  /\ received' = Sent(S, u, <<shares + 1>>)
  /\ shares' = shares + 1
  /\ UNCHANGED <<pendingMessages, lost>>
Numbers(q) == {q[k] : k \in DOMAIN q}
Flushes(u, S) ==
  /\ received' = Sent(S, u, pendingMessages[u])
  /\ pendingMessages' = [pendingMessages EXCEPT ![u] = <<>>]
  /\ lost' = IF S = {} THEN lost \cup Numbers(pendingMessages[u]) ELSE lost
  /\ UNCHANGED shares

LEMMA StepOnShares ==
  ASSUME SharingInv, [Next]_vars
  PROVE  \/ UNCHANGED mail
         \/ \E u \in Users : Queues(u)
         \/ \E u \in Users : \E S \in SUBSET Clients : PassesThrough(u, S) \/ Flushes(u, S)
<1>1. \A u \in Users : userConnections[u] \subseteq Clients
  BY DEF SharingInv, RegistryInv, SocketsTyped
<1>2. ASSUME NEW c \in Clients, NEW u \in Users, HandleRegisterUser(c, u)
      PROVE  \E S \in SUBSET Clients : Flushes(u, S)
  <2> DEFINE S == Open(userConnections[u] \cup {c})
  <2>1. S \in SUBSET Clients
    BY <1>1 DEF Open
  <2>2. Flushes(u, S)
    BY <1>2 DEF HandleRegisterUser, Flushed, Flushes, Numbers
  <2> QED BY <2>1, <2>2
<1>3. ASSUME NEW c \in Clients, NEW u \in Users, HandleShareProject(c, u)
      PROVE  Queues(u) \/ \E S \in SUBSET Clients : PassesThrough(u, S)
  <2> DEFINE S == Open(userConnections[u])
  <2>1. S \in SUBSET Clients
    BY <1>1 DEF Open
  <2>2. Forward(u)
    BY <1>3 DEF HandleShareProject
  <2>3. CASE S = {}
    BY <2>2, <2>3 DEF Forward, Queues
  <2>4. CASE S # {}
    <3>1. pendingMessages[u] = <<>>
      BY <2>4 DEF SharingInv, NoShareStranded
    <3>2. PassesThrough(u, S)
      BY <2>2, <2>4, <3>1 DEF Forward, PassesThrough
    <3> QED BY <2>1, <3>2
  <2> QED BY <2>3, <2>4
<1>4. ASSUME NEW c \in Clients,
             \/ Connect(c) \/ Drop(c) \/ HandleDisconnect(c)
             \/ \E p \in Projects : JoinProject(c, p) \/ LeaveProject(c, p) \/ Relay(c, p)
      PROVE  UNCHANGED mail
  BY <1>4 DEF Connect, Drop, HandleDisconnect, JoinProject, LeaveProject, Relay
<1>5. CASE UNCHANGED vars
  BY <1>5 DEF vars, mail
<1>6. CASE Next
  <2>1. PICK c \in Clients :
          \/ Connect(c) \/ Drop(c) \/ HandleDisconnect(c)
          \/ \E u \in Users : HandleRegisterUser(c, u) \/ HandleShareProject(c, u)
          \/ \E p \in Projects : JoinProject(c, p) \/ LeaveProject(c, p) \/ Relay(c, p)
    BY <1>6, StepKinds
  <2>2. CASE \E u \in Users : HandleRegisterUser(c, u)
    BY <1>2, <2>2
  <2>3. CASE \E u \in Users : HandleShareProject(c, u)
    BY <1>3, <2>3
  <2> QED BY <1>4, <2>1, <2>2, <2>3
<1> QED BY <1>5, <1>6

\* A queue that is sent follows what the client had received.
Share == [to : Users, number : Nat]
SeenBy(r) == {r[k].number : k \in DOMAIN r}
Follows(new, old, u, q) ==
  /\ new \in Seq(Share)
  /\ Len(new) = Len(old) + Len(q)
  /\ \A k \in 1..Len(old) : new[k] = old[k]
  /\ \A k \in 1..Len(q) : new[Len(old) + k] = [to |-> u, number |-> q[k]]

Joins(r, a, b, n) ==
  /\ r \in Seq(Share) /\ Len(r) = Len(a) + n
  /\ \A k \in 1..Len(a) : r[k] = a[k]
  /\ \A k \in 1..n : r[Len(a) + k] = b[k]

LEMMA Joined ==
  ASSUME NEW a \in Seq(Share), NEW b \in Seq(Share), NEW n, n = Len(b), NEW r, r = a \o b
  PROVE  Joins(r, a, b, n)
<1>1. /\ a \o b \in Seq(Share)
      /\ Len(a \o b) = Len(a) + Len(b)
      /\ \A i \in 1..Len(a) : (a \o b)[i] = a[i]
      /\ \A i \in Len(a)+1 .. Len(a)+Len(b) : (a \o b)[i] = b[i - Len(a)]
  BY ConcatProperties
<1>2. Len(a) \in Nat /\ Len(b) \in Nat
  OBVIOUS
<1>3. ASSUME NEW k \in 1..n PROVE r[Len(a) + k] = b[k]
  <2>1. PICK i : i = Len(a) + k
    OBVIOUS
  <2>2. i \in Len(a)+1 .. Len(a)+Len(b) /\ i - Len(a) = k
    BY <1>2, <2>1
  <2>3. (a \o b)[i] = b[i - Len(a)]
    BY <1>1, <2>2
  <2> QED BY <2>1, <2>2, <2>3
<1>4. \A k \in 1..Len(a) : r[k] = a[k]
  BY <1>1
<1>5. r \in Seq(Share) /\ Len(r) = Len(a) + n
  BY <1>1
<1> QED BY <1>3, <1>4, <1>5 DEF Joins

LEMMA SentFollows ==
  ASSUME received \in [Clients -> Seq(Share)], NEW S \in SUBSET Clients, NEW u \in Users,
         NEW q \in Seq(Nat), received' = Sent(S, u, q)
  PROVE  /\ \A c \in S : Follows(received'[c], received[c], u, q)
         /\ \A c \in Clients \ S : received'[c] = received[c]
         /\ received' \in [Clients -> Seq(Share)]
<1> DEFINE m == [k \in DOMAIN q |-> [to |-> u, number |-> q[k]]]
<1>1. DOMAIN q = 1..Len(q) /\ Len(q) \in Nat /\ \A k \in 1..Len(q) : q[k] \in Nat
  BY ElementOfSeq
<1>2. m \in Seq(Share) /\ Len(m) = Len(q) /\ \A k \in 1..Len(q) : m[k] = [to |-> u, number |-> q[k]]
  <2>1. m \in [1..Len(q) -> Share]
    BY <1>1 DEF Share
  <2> QED BY <1>1, <2>1
<1>3. \A c \in Clients : received'[c] = IF c \in S THEN received[c] \o m ELSE received[c]
  BY DEF Sent
<1> HIDE DEF m
<1>4. ASSUME NEW c \in S
      PROVE  Follows(received'[c], received[c], u, q) /\ received'[c] \in Seq(Share)
  <2>1. received[c] \in Seq(Share) /\ received'[c] = received[c] \o m
    BY <1>3
  <2>2. PICK old, new : old = received[c] /\ new = received'[c]
    OBVIOUS
  <2>3. old \in Seq(Share) /\ new = old \o m
    BY <2>1, <2>2
  <2>4. /\ new \in Seq(Share) /\ Len(new) = Len(old) + Len(q)
        /\ \A k \in 1..Len(old) : new[k] = old[k]
        /\ \A k \in 1..Len(q) : new[Len(old) + k] = m[k]
    <3>1. PICK n : n = Len(q)
      OBVIOUS
    <3>2. m \in Seq(Share) /\ n = Len(m)
      BY <1>2, <3>1
    <3>3. Joins(new, old, m, n)
      BY <2>3, <3>2, Joined
    <3> QED BY <3>1, <3>3 DEF Joins
  <2>5. Follows(new, old, u, q)
    BY <1>2, <2>4 DEF Follows
  <2> QED BY <2>2, <2>4, <2>5
<1>5. DOMAIN received' = Clients /\ \A c \in Clients : received'[c] \in Seq(Share)
  BY <1>3, <1>4 DEF Sent
<1>6. received' \in [Clients -> Seq(Share)]
  BY <1>5 DEF Sent
<1> QED BY <1>3, <1>4, <1>6

LEMMA FollowsSeen ==
  ASSUME NEW new, NEW old \in Seq(Share), NEW u, NEW q \in Seq(Nat), Follows(new, old, u, q)
  PROVE  SeenBy(new) = SeenBy(old) \cup Numbers(q)
<1>1. /\ Len(old) \in Nat /\ Len(q) \in Nat /\ DOMAIN old = 1..Len(old) /\ DOMAIN q = 1..Len(q)
      /\ DOMAIN new = 1..(Len(old) + Len(q))
  BY DEF Follows
<1>2. \A k \in 1..Len(old) : k \in DOMAIN new /\ new[k] = old[k]
  BY <1>1 DEF Follows
<1>3. ASSUME NEW k \in 1..Len(q)
      PROVE  Len(old) + k \in DOMAIN new /\ new[Len(old) + k].number = q[k]
  <2>1. Len(old) + k \in DOMAIN new
    BY <1>1
  <2>2. new[Len(old) + k] = [to |-> u, number |-> q[k]]
    BY DEF Follows
  <2> QED BY <2>1, <2>2
<1>4. SeenBy(old) \cup Numbers(q) \subseteq SeenBy(new)
  BY <1>1, <1>2, <1>3 DEF SeenBy, Numbers
<1>5. ASSUME NEW k \in DOMAIN new
      PROVE  new[k].number \in SeenBy(old) \cup Numbers(q)
  <2>1. CASE k <= Len(old)
    BY <1>1, <1>2, <2>1 DEF SeenBy
  <2>2. CASE k > Len(old)
    <3>1. PICK j \in 1..Len(q) : k = Len(old) + j
      <4>1. k - Len(old) \in 1..Len(q) /\ k = Len(old) + (k - Len(old))
        BY <1>1, <2>2
      <4> QED BY <4>1
    <3> QED BY <1>1, <1>3, <3>1 DEF Numbers
  <2> QED BY <1>1, <2>1, <2>2
<1> QED BY <1>4, <1>5 DEF SeenBy

\* Every share is in one place, and queues have no share in common.
Placed ==
  /\ received \in [Clients -> Seq(Share)]
  /\ 1..shares = (UNION {Numbers(pendingMessages[u]) : u \in Users})
                  \cup (UNION {SeenBy(received[c]) : c \in Clients}) \cup lost
  /\ \A u \in Users : \A c \in Clients : Numbers(pendingMessages[u]) \cap SeenBy(received[c]) = {}
  /\ \A u \in Users : Numbers(pendingMessages[u]) \cap lost = {}
  /\ \A c \in Clients : SeenBy(received[c]) \cap lost = {}
  /\ \A u, v \in Users : u # v => Numbers(pendingMessages[u]) \cap Numbers(pendingMessages[v]) = {}

LEMMA PlacedInit == Init => Placed
BY DEF Init, Placed, Numbers, SeenBy, Share

LEMMA AppendNumbers ==
  ASSUME NEW q \in Seq(Nat), NEW n \in Nat
  PROVE  Numbers(Append(q, n)) = Numbers(q) \cup {n}
<1>1. /\ Len(q) \in Nat /\ DOMAIN q = 1..Len(q)
      /\ DOMAIN Append(q, n) = 1..(Len(q) + 1) /\ Append(q, n)[Len(q) + 1] = n
      /\ \A k \in 1..Len(q) : Append(q, n)[k] = q[k]
  OBVIOUS
<1>2. PICK r : r = Append(q, n)
  OBVIOUS
<1>3. /\ DOMAIN r = 1..(Len(q) + 1) /\ r[Len(q) + 1] = n
      /\ \A k \in 1..Len(q) : r[k] = q[k]
      /\ \A k \in 1..(Len(q) + 1) : k \in 1..Len(q) \/ k = Len(q) + 1
  BY <1>1, <1>2
<1>4. Numbers(r) = Numbers(q) \cup {n}
  BY <1>1, <1>3 DEF Numbers
<1> QED BY <1>2, <1>4

LEMMA FewNumbers == Numbers(<<>>) = {} /\ \A n : Numbers(<<n>>) = {n}
BY DEF Numbers

LEMMA PlacedStep == SharingInv /\ Placed /\ [Next]_vars => Placed'
<1> SUFFICES ASSUME SharingInv, Placed, [Next]_vars PROVE Placed'
  OBVIOUS
<1> DEFINE Q(u) == Numbers(pendingMessages[u])
           R(c) == SeenBy(received[c])
           new  == shares + 1
<1>0. /\ pendingMessages \in [Users -> Seq(Nat)] /\ shares \in Nat
      /\ received \in [Clients -> Seq(Share)]
  BY DEF SharingInv, QueuesTyped, Placed
<1>1. /\ 1..shares = (UNION {Q(u) : u \in Users}) \cup (UNION {R(c) : c \in Clients}) \cup lost
      /\ \A u \in Users : \A c \in Clients : Q(u) \cap R(c) = {}
      /\ \A u \in Users : Q(u) \cap lost = {}
      /\ \A c \in Clients : R(c) \cap lost = {}
      /\ \A u, v \in Users : u # v => Q(u) \cap Q(v) = {}
  BY DEF Placed
<1>2. /\ 1..new = (1..shares) \cup {new} /\ new \notin 1..shares /\ new \in Nat
  BY <1>0
<1>3. /\ new \notin lost
      /\ \A u \in Users : new \notin Q(u)
      /\ \A c \in Clients : new \notin R(c)
  BY <1>1, <1>2
<1>4. CASE UNCHANGED mail
  BY <1>4 DEF mail, Placed
<1>5. ASSUME NEW u \in Users, Queues(u)
      PROVE  Placed'
  <2>1. /\ Q(u)' = Q(u) \cup {new}
        /\ \A v \in Users : v # u => Q(v)' = Q(v)
        /\ \A c \in Clients : R(c)' = R(c)
    BY <1>0, <1>2, <1>5, AppendNumbers DEF Queues
  <2>2. received' = received /\ lost' = lost /\ shares' = new
    BY <1>5 DEF Queues
  <2> HIDE DEF Q, R, new
  <2>3. UNION {Q(v)' : v \in Users} = (UNION {Q(v) : v \in Users}) \cup {new}
    BY <2>1
  <2>4. UNION {R(c)' : c \in Clients} = UNION {R(c) : c \in Clients}
    BY <2>1
  <2>5. 1..shares' = (UNION {Q(v)' : v \in Users}) \cup (UNION {R(c)' : c \in Clients}) \cup lost'
    BY <1>1, <1>2, <2>2, <2>3, <2>4
  <2>6. /\ \A v \in Users : \A c \in Clients : Q(v)' \cap R(c)' = {}
        /\ \A v \in Users : Q(v)' \cap lost' = {}
        /\ \A c \in Clients : R(c)' \cap lost' = {}
    BY <1>1, <1>3, <2>1, <2>2
  <2>7. \A v, w \in Users : v # w => Q(v)' \cap Q(w)' = {}
    BY <1>1, <1>3, <2>1
  <2> QED BY <1>0, <2>2, <2>5, <2>6, <2>7 DEF Q, R, Placed
<1>6. ASSUME NEW u \in Users, NEW S \in SUBSET Clients, PassesThrough(u, S)
      PROVE  Placed'
  <2>1. /\ \A c \in S : Follows(received'[c], received[c], u, <<new>>)
        /\ \A c \in Clients \ S : received'[c] = received[c]
        /\ received' \in [Clients -> Seq(Share)]
    <3>1. <<new>> \in Seq(Nat) /\ received' = Sent(S, u, <<new>>)
      BY <1>2, <1>6 DEF PassesThrough
    <3> QED BY <1>0, <3>1, SentFollows
  <2>2. /\ \A c \in S : R(c)' = R(c) \cup {new}
        /\ \A c \in Clients \ S : R(c)' = R(c)
    <3>0. <<new>> \in Seq(Nat) /\ Numbers(<<new>>) = {new}
      <4>1. new \in Nat
        BY <1>2
      <4> HIDE DEF new
      <4> QED BY <4>1, FewNumbers
    <3>1. PICK q : q = <<new>> /\ q \in Seq(Nat) /\ Numbers(q) = {new}
      BY <3>0
    <3>2. ASSUME NEW c \in S PROVE SeenBy(received'[c]) = SeenBy(received[c]) \cup {new}
      <4>1. received[c] \in Seq(Share) /\ Follows(received'[c], received[c], u, q)
        BY <1>0, <2>1, <3>1
      <4>2. q \in Seq(Nat)
        BY <3>1
      <4>3. SeenBy(received'[c]) = SeenBy(received[c]) \cup Numbers(q)
        BY <4>1, <4>2, FollowsSeen
      <4> QED BY <3>1, <4>3
    <3> QED BY <2>1, <3>2
  <2>3. S # {} /\ lost' = lost /\ shares' = new /\ \A v \in Users : Q(v)' = Q(v)
    BY <1>6 DEF PassesThrough
  <2> HIDE DEF Q, R, new
  <2>4. UNION {R(c)' : c \in Clients} = (UNION {R(c) : c \in Clients}) \cup {new}
    BY <2>2, <2>3
  <2>5. UNION {Q(v)' : v \in Users} = UNION {Q(v) : v \in Users}
    BY <2>3
  <2>6. 1..shares' = (UNION {Q(v)' : v \in Users}) \cup (UNION {R(c)' : c \in Clients}) \cup lost'
    BY <1>1, <1>2, <2>3, <2>4, <2>5
  <2>7. /\ \A v \in Users : \A c \in Clients : Q(v)' \cap R(c)' = {}
        /\ \A v \in Users : Q(v)' \cap lost' = {}
        /\ \A c \in Clients : R(c)' \cap lost' = {}
        /\ \A v, w \in Users : v # w => Q(v)' \cap Q(w)' = {}
    BY <1>1, <1>3, <2>2, <2>3
  <2> QED BY <2>1, <2>6, <2>7 DEF Q, R, Placed
<1>7. ASSUME NEW u \in Users, NEW S \in SUBSET Clients, Flushes(u, S)
      PROVE  Placed'
  <2>1. /\ \A c \in S : Follows(received'[c], received[c], u, pendingMessages[u])
        /\ \A c \in Clients \ S : received'[c] = received[c]
        /\ received' \in [Clients -> Seq(Share)]
    BY <1>0, <1>7, SentFollows DEF Flushes
  <2>2. /\ \A c \in S : R(c)' = R(c) \cup Q(u)
        /\ \A c \in Clients \ S : R(c)' = R(c)
    <3>1. PICK q : q = pendingMessages[u] /\ q \in Seq(Nat) /\ Numbers(q) = Q(u)
      BY <1>0
    <3>2. ASSUME NEW c \in S PROVE SeenBy(received'[c]) = SeenBy(received[c]) \cup Q(u)
      <4>1. received[c] \in Seq(Share) /\ Follows(received'[c], received[c], u, q)
        BY <1>0, <2>1, <3>1
      <4>2. q \in Seq(Nat)
        BY <3>1
      <4>3. SeenBy(received'[c]) = SeenBy(received[c]) \cup Numbers(q)
        BY <4>1, <4>2, FollowsSeen
      <4> QED BY <3>1, <4>3
    <3> QED BY <2>1, <3>2
  <2>3. /\ Q(u)' = {} /\ \A v \in Users : v # u => Q(v)' = Q(v)
        /\ lost' = IF S = {} THEN lost \cup Q(u) ELSE lost
        /\ shares' = shares
    BY <1>0, <1>7, FewNumbers DEF Flushes
  <2> HIDE DEF Q, R, new
  <2>4. UNION {Q(v) : v \in Users} = (UNION {Q(v)' : v \in Users}) \cup Q(u)
    BY <2>3
  <2>5. CASE S = {}
    <3>1. UNION {R(c)' : c \in Clients} = UNION {R(c) : c \in Clients} /\ \A c \in Clients : R(c)' = R(c)
      BY <2>2, <2>5
    <3>2. lost' = lost \cup Q(u)
      BY <2>3, <2>5
    <3>3. 1..shares' = (UNION {Q(v)' : v \in Users}) \cup (UNION {R(c)' : c \in Clients}) \cup lost'
      BY <1>1, <2>3, <2>4, <3>1, <3>2
    <3>4. /\ \A v \in Users : \A c \in Clients : Q(v)' \cap R(c)' = {}
          /\ \A v \in Users : Q(v)' \cap lost' = {}
          /\ \A c \in Clients : R(c)' \cap lost' = {}
          /\ \A v, w \in Users : v # w => Q(v)' \cap Q(w)' = {}
      BY <1>1, <2>3, <3>1, <3>2
    <3> QED BY <2>1, <3>3, <3>4 DEF Q, R, Placed
  <2>6. CASE S # {}
    <3>1. UNION {R(c)' : c \in Clients} = (UNION {R(c) : c \in Clients}) \cup Q(u)
      BY <2>2, <2>6
    <3>2. lost' = lost
      BY <2>3, <2>6
    <3>3. 1..shares' = (UNION {Q(v)' : v \in Users}) \cup (UNION {R(c)' : c \in Clients}) \cup lost'
      BY <1>1, <2>3, <2>4, <3>1, <3>2
    <3>4. /\ \A v \in Users : \A c \in Clients : Q(v)' \cap R(c)' = {}
          /\ \A v \in Users : Q(v)' \cap lost' = {}
          /\ \A c \in Clients : R(c)' \cap lost' = {}
          /\ \A v, w \in Users : v # w => Q(v)' \cap Q(w)' = {}
      BY <1>1, <2>2, <2>3, <3>2
    <3> QED BY <2>1, <3>3, <3>4 DEF Q, R, Placed
  <2> QED BY <2>5, <2>6
<1> QED BY <1>4, <1>5, <1>6, <1>7, StepOnShares

\* Every share is queued for one user, or was received, or was lost in a flush
\* without an open socket, and never two of these: forwardShareEvent,
\* queueShareMessage and flushQueuedMessages.
THEOREM SharesKept == Spec => []ShareAccountedFor
<1>1. Placed => ShareAccountedFor
  <2> SUFFICES ASSUME Placed PROVE ShareAccountedFor
    OBVIOUS
  <2> DEFINE queued == UNION {Numbers(pendingMessages[u]) : u \in Users}
             seen   == UNION {SeenBy(received[c]) : c \in Clients}
  <2>1. 1..shares = queued \cup seen \cup lost
    BY DEF Placed
  <2>2. queued \cap (seen \cup lost) = {} /\ seen \cap lost = {}
    BY DEF Placed
  <2>3. /\ queued = UNION {{pendingMessages[u][k] : k \in DOMAIN pendingMessages[u]} : u \in Users}
        /\ seen = UNION {{received[c][k].number : k \in DOMAIN received[c]} : c \in Clients}
    BY DEF Numbers, SeenBy
  <2> HIDE DEF queued, seen
  <2> QED BY <2>1, <2>2, <2>3 DEF ShareAccountedFor
<1> QED BY <1>1, SharingInit, SharingStep, PlacedInit, PlacedStep, PTL DEF Spec

---------------------------------------------------------------------------
(***************************************************************************)
(* The order of delivery.                                                  *)
(***************************************************************************)
Up(q)     == \A j, k \in DOMAIN q : j < k => q[j] < q[k]
Rising(r) == \A j, k \in DOMAIN r : j < k /\ r[j].to = r[k].to => r[j].number < r[k].number
\* What client c received for user u came before all of queue q.
BeforeQueue(r, u, q) ==
  \A j \in DOMAIN r : r[j].to = u => \A k \in DOMAIN q : r[j].number < q[k]

InOrder ==
  /\ \A u \in Users : Up(pendingMessages[u])
  /\ \A c \in Clients : Rising(received[c])
  /\ \A c \in Clients : \A u \in Users : BeforeQueue(received[c], u, pendingMessages[u])

LEMMA InOrderInit == Init => InOrder
BY DEF Init, InOrder, Up, Rising, BeforeQueue

LEMMA AppendUp ==
  ASSUME NEW q \in Seq(Nat), NEW n \in Nat, Up(q), \A k \in DOMAIN q : q[k] < n,
         NEW r, r = Append(q, n)
  PROVE  Up(r)
<1>1. /\ Len(q) \in Nat /\ DOMAIN q = 1..Len(q) /\ DOMAIN r = 1..(Len(q) + 1)
      /\ r[Len(q) + 1] = n /\ \A k \in 1..Len(q) : r[k] = q[k]
  OBVIOUS
<1>2. ASSUME NEW j \in DOMAIN r, NEW k \in DOMAIN r, j < k
      PROVE  r[j] < r[k]
  <2>1. j \in 1..Len(q) /\ r[j] = q[j]
    BY <1>1, <1>2
  <2>2. CASE k \in 1..Len(q)
    BY <1>1, <1>2, <2>1, <2>2 DEF Up
  <2>3. CASE k = Len(q) + 1
    BY <1>1, <2>1, <2>3
  <2> QED BY <1>1, <2>2, <2>3
<1> QED BY <1>2 DEF Up

\* An entry of what follows is an entry of what was there or of the queue.
LEMMA FollowsEntries ==
  ASSUME NEW new, NEW old \in Seq(Share), NEW u, NEW q \in Seq(Nat), Follows(new, old, u, q),
         NEW k \in DOMAIN new
  PROVE  \/ k \in DOMAIN old /\ new[k] = old[k]
         \/ \E j \in DOMAIN q : k = Len(old) + j /\ new[k] = [to |-> u, number |-> q[j]]
<1>1. /\ Len(old) \in Nat /\ Len(q) \in Nat /\ DOMAIN old = 1..Len(old) /\ DOMAIN q = 1..Len(q)
      /\ DOMAIN new = 1..(Len(old) + Len(q))
  BY DEF Follows
<1>2. CASE k <= Len(old)
  BY <1>1, <1>2 DEF Follows
<1>3. CASE k > Len(old)
  <2>1. PICK j \in 1..Len(q) : k = Len(old) + j
    <3>1. k - Len(old) \in 1..Len(q) /\ k = Len(old) + (k - Len(old))
      BY <1>1, <1>3
    <3> QED BY <3>1
  <2>2. new[k] = [to |-> u, number |-> q[j]]
    BY <2>1 DEF Follows
  <2> QED BY <1>1, <2>1, <2>2
<1> QED BY <1>1, <1>2, <1>3

LEMMA FollowsRising ==
  ASSUME NEW new, NEW old \in Seq(Share), NEW u, NEW q \in Seq(Nat), Follows(new, old, u, q),
         Rising(old), Up(q), BeforeQueue(old, u, q)
  PROVE  Rising(new)
<1>0. Len(old) \in Nat /\ DOMAIN old = 1..Len(old) /\ Len(q) \in Nat /\ DOMAIN q = 1..Len(q)
  OBVIOUS
<1>1. ASSUME NEW j \in DOMAIN new, NEW k \in DOMAIN new, j < k, new[j].to = new[k].to
      PROVE  new[j].number < new[k].number
  <2>1. CASE k \in DOMAIN old /\ new[k] = old[k]
    <3>1. j \in DOMAIN old /\ new[j] = old[j]
      <4>1. \/ j \in DOMAIN old /\ new[j] = old[j]
            \/ \E i \in DOMAIN q : j = Len(old) + i
        BY FollowsEntries
      <4> QED BY <1>0, <1>1, <2>1, <4>1
    <3> QED BY <1>1, <2>1, <3>1 DEF Rising
  <2>2. ASSUME NEW i \in DOMAIN q, k = Len(old) + i, new[k] = [to |-> u, number |-> q[i]]
        PROVE  new[j].number < new[k].number
    <3>1. CASE j \in DOMAIN old /\ new[j] = old[j]
      BY <1>1, <2>2, <3>1 DEF BeforeQueue
    <3>2. ASSUME NEW h \in DOMAIN q, j = Len(old) + h, new[j] = [to |-> u, number |-> q[h]]
          PROVE  new[j].number < new[k].number
      <4>1. h < i
        BY <1>0, <1>1, <2>2, <3>2
      <4> QED BY <2>2, <3>2, <4>1 DEF Up
    <3> QED BY <3>1, <3>2, FollowsEntries
  <2> QED BY <2>1, <2>2, FollowsEntries
<1> QED BY <1>1 DEF Rising

\* What is sent for u stays before the queue of any other user.
LEMMA FollowsBefore ==
  ASSUME NEW new, NEW old \in Seq(Share), NEW u, NEW q \in Seq(Nat), Follows(new, old, u, q),
         NEW v, v # u, NEW w, BeforeQueue(old, v, w)
  PROVE  BeforeQueue(new, v, w)
<1>1. ASSUME NEW k \in DOMAIN new, new[k].to = v
      PROVE  \A i \in DOMAIN w : new[k].number < w[i]
  <2>1. k \in DOMAIN old /\ new[k] = old[k]
    <3>1. \/ k \in DOMAIN old /\ new[k] = old[k]
          \/ \E j \in DOMAIN q : new[k] = [to |-> u, number |-> q[j]]
      BY FollowsEntries
    <3> QED BY <1>1, <3>1
  <2> QED BY <1>1, <2>1 DEF BeforeQueue
<1> QED BY <1>1 DEF BeforeQueue

\* Numbers on their way were given to earlier shares.
LEMMA NumbersGiven ==
  ASSUME Placed
  PROVE  /\ \A u \in Users : Numbers(pendingMessages[u]) \subseteq 1..shares
         /\ \A c \in Clients : SeenBy(received[c]) \subseteq 1..shares
BY DEF Placed

\* Sending the queue of u, empty afterwards, to the clients in S.
LEMMA SendInOrder ==
  ASSUME InOrder, received \in [Clients -> Seq(Share)], NEW u \in Users, NEW S \in SUBSET Clients,
         NEW q \in Seq(Nat), Up(q), \A c \in Clients : BeforeQueue(received[c], u, q),
         received' = Sent(S, u, q), pendingMessages'[u] = <<>>,
         \A v \in Users : v # u => pendingMessages'[v] = pendingMessages[v]
  PROVE  InOrder'
<1>1. /\ \A c \in S : Follows(received'[c], received[c], u, q)
      /\ \A c \in Clients \ S : received'[c] = received[c]
  BY SentFollows
<1>2. Up(<<>>) /\ \A r : BeforeQueue(r, u, <<>>)
  BY DEF Up, BeforeQueue
<1>3. ASSUME NEW c \in Clients PROVE Rising(received'[c])
  <2>1. CASE c \in S
    BY <1>1, <2>1, FollowsRising DEF InOrder
  <2>2. CASE c \notin S
    BY <1>1, <2>2 DEF InOrder
  <2> QED BY <2>1, <2>2
<1>4. ASSUME NEW c \in Clients, NEW v \in Users
      PROVE  BeforeQueue(received'[c], v, pendingMessages'[v])
  <2>1. CASE v = u
    BY <1>2, <2>1
  <2>2. CASE v # u /\ c \in S
    <3>1. PICK old, new, w : old = received[c] /\ new = received'[c] /\ w = pendingMessages[v]
      OBVIOUS
    <3>2. old \in Seq(Share) /\ Follows(new, old, u, q) /\ BeforeQueue(old, v, w)
      BY <1>1, <2>2, <3>1 DEF InOrder
    <3>3. BeforeQueue(new, v, w)
      BY <2>2, <3>2, FollowsBefore
    <3> QED BY <2>2, <3>1, <3>3
  <2>3. CASE v # u /\ c \notin S
    BY <1>1, <2>3 DEF InOrder
  <2> QED BY <2>1, <2>2, <2>3
<1>5. \A v \in Users : Up(pendingMessages'[v])
  BY <1>2 DEF InOrder
<1> QED BY <1>3, <1>4, <1>5 DEF InOrder

LEMMA InOrderStep == SharingInv /\ Placed /\ InOrder /\ [Next]_vars => InOrder'
<1> SUFFICES ASSUME SharingInv, Placed, InOrder, [Next]_vars PROVE InOrder'
  OBVIOUS
<1>0. /\ pendingMessages \in [Users -> Seq(Nat)] /\ shares \in Nat
      /\ received \in [Clients -> Seq(Share)]
  BY DEF SharingInv, QueuesTyped, Placed
<1>1. CASE UNCHANGED mail
  BY <1>1 DEF mail, InOrder
<1>2. ASSUME NEW u \in Users, Queues(u)
      PROVE  InOrder'
  <2>1. PICK q, r, n : q = pendingMessages[u] /\ n = shares + 1 /\ r = Append(q, n)
    OBVIOUS
  <2>2. /\ q \in Seq(Nat) /\ n \in Nat /\ Up(q)
        /\ \A k \in DOMAIN q : q[k] < n
    <3>1. q \in Seq(Nat) /\ n \in Nat /\ Up(q)
      BY <1>0, <2>1 DEF InOrder
    <3>2. Numbers(q) \subseteq 1..shares
      BY <2>1, NumbersGiven
    <3>3. \A k \in DOMAIN q : q[k] \in 1..shares
      BY <3>2 DEF Numbers
    <3> QED BY <1>0, <2>1, <3>1, <3>3
  <2>3. Up(r)
    BY <2>1, <2>2, AppendUp
  <2>4. /\ pendingMessages'[u] = r /\ received' = received
        /\ \A v \in Users : v # u => pendingMessages'[v] = pendingMessages[v]
    BY <1>0, <1>2, <2>1 DEF Queues
  <2>5. ASSUME NEW c \in Clients PROVE BeforeQueue(received[c], u, r)
    <3>1. \A j \in DOMAIN received[c] : received[c][j].number \in 1..shares
      BY NumbersGiven DEF SeenBy
    <3>2. /\ Len(q) \in Nat /\ DOMAIN q = 1..Len(q) /\ DOMAIN r = 1..(Len(q) + 1)
          /\ r[Len(q) + 1] = n /\ \A k \in 1..Len(q) : r[k] = q[k]
      BY <2>1, <2>2
    <3>3. BeforeQueue(received[c], u, q)
      BY <2>1 DEF InOrder
    <3>4. ASSUME NEW j \in DOMAIN received[c], received[c][j].to = u, NEW k \in DOMAIN r
          PROVE  received[c][j].number < r[k]
      <4>1. CASE k \in 1..Len(q)
        BY <3>2, <3>3, <3>4, <4>1 DEF BeforeQueue
      <4>2. CASE k = Len(q) + 1
        BY <1>0, <2>1, <3>1, <3>2, <4>2
      <4> QED BY <3>2, <4>1, <4>2
    <3> QED BY <3>4 DEF BeforeQueue
  <2>6. \A c \in Clients : \A v \in Users : BeforeQueue(received'[c], v, pendingMessages'[v])
    BY <2>4, <2>5 DEF InOrder
  <2>7. \A v \in Users : Up(pendingMessages'[v])
    BY <2>3, <2>4 DEF InOrder
  <2> QED BY <2>4, <2>6, <2>7 DEF InOrder
<1>3. ASSUME NEW u \in Users, NEW S \in SUBSET Clients, PassesThrough(u, S)
      PROVE  InOrder'
  <2>1. PICK q : q = <<shares + 1>>
    OBVIOUS
  <2>2. q \in Seq(Nat) /\ DOMAIN q = {1} /\ q[1] = shares + 1
    BY <1>0, <2>1
  <2>3. Up(q)
    BY <2>2 DEF Up
  <2>4. ASSUME NEW c \in Clients PROVE BeforeQueue(received[c], u, q)
    <3>1. \A j \in DOMAIN received[c] : received[c][j].number \in 1..shares
      BY NumbersGiven DEF SeenBy
    <3> QED BY <1>0, <2>2, <3>1 DEF BeforeQueue
  <2>5. /\ received' = Sent(S, u, q) /\ pendingMessages'[u] = <<>>
        /\ \A v \in Users : v # u => pendingMessages'[v] = pendingMessages[v]
    BY <1>3, <2>1 DEF PassesThrough
  <2> QED BY <1>0, <2>2, <2>3, <2>4, <2>5, SendInOrder
<1>4. ASSUME NEW u \in Users, NEW S \in SUBSET Clients, Flushes(u, S)
      PROVE  InOrder'
  <2>1. PICK q : q = pendingMessages[u]
    OBVIOUS
  <2>2. q \in Seq(Nat) /\ Up(q) /\ \A c \in Clients : BeforeQueue(received[c], u, q)
    BY <1>0, <2>1 DEF InOrder
  <2>3. /\ received' = Sent(S, u, q) /\ pendingMessages'[u] = <<>>
        /\ \A v \in Users : v # u => pendingMessages'[v] = pendingMessages[v]
    BY <1>0, <1>4, <2>1 DEF Flushes
  <2> QED BY <1>0, <2>2, <2>3, SendInOrder
<1> QED BY <1>1, <1>2, <1>3, <1>4, StepOnShares

\* Relayed events: numbered in the order of their relay, and never one's own.
Event == [number : Nat, from : Clients]
HeardBy(c, r, n) ==
  /\ r \in Seq(Event)
  /\ \A k \in DOMAIN r : r[k].number <= n /\ r[k].from # c
  /\ \A j, k \in DOMAIN r : j < k => r[j].number < r[k].number
HeardInv == relays \in Nat /\ \A c \in Clients : HeardBy(c, heard[c], relays)

LEMMA HeardInit == Init => HeardInv
BY DEF Init, HeardInv, HeardBy, Event

LEMMA OneMore ==
  ASSUME NEW c, NEW d \in Clients, d # c, NEW n \in Nat, NEW r, HeardBy(c, r, n),
         NEW s, s = Append(r, [number |-> n + 1, from |-> d])
  PROVE  HeardBy(c, s, n + 1)
<1>1. PICK e : e = [number |-> n + 1, from |-> d]
  OBVIOUS
<1>2. e \in Event /\ e.number = n + 1 /\ e.from = d /\ r \in Seq(Event)
  BY <1>1 DEF Event, HeardBy
<1>3. /\ s \in Seq(Event) /\ Len(r) \in Nat /\ DOMAIN r = 1..Len(r) /\ DOMAIN s = 1..(Len(r) + 1)
      /\ s[Len(r) + 1] = e /\ \A k \in 1..Len(r) : s[k] = r[k]
  BY <1>1, <1>2
<1>4. \A k \in 1..Len(r) : r[k].number \in Nat /\ r[k].number <= n /\ r[k].from # c
  <2>1. \A k \in 1..Len(r) : r[k] \in Event
    BY <1>2, <1>3, ElementOfSeq
  <2> QED BY <1>3, <2>1 DEF HeardBy, Event
<1>5. ASSUME NEW k \in DOMAIN s
      PROVE  s[k].number <= n + 1 /\ s[k].from # c
  <2>1. k \in 1..Len(r) \/ k = Len(r) + 1
    BY <1>3
  <2> QED BY <1>2, <1>3, <1>4, <2>1
<1>6. ASSUME NEW j \in DOMAIN s, NEW k \in DOMAIN s, j < k
      PROVE  s[j].number < s[k].number
  <2>1. j \in 1..Len(r) /\ (k \in 1..Len(r) \/ k = Len(r) + 1)
    BY <1>3, <1>6
  <2>2. CASE k \in 1..Len(r)
    BY <1>3, <1>6, <2>1, <2>2 DEF HeardBy
  <2>3. CASE k = Len(r) + 1
    BY <1>2, <1>3, <1>4, <2>1, <2>3
  <2> QED BY <2>1, <2>2, <2>3
<1> QED BY <1>3, <1>5, <1>6 DEF HeardBy

LEMMA HeardStep == HeardInv /\ [Next]_vars => HeardInv'
<1> SUFFICES ASSUME HeardInv, [Next]_vars PROVE HeardInv'
  OBVIOUS
<1>1. CASE UNCHANGED <<heard, relays>>
  BY <1>1 DEF HeardInv
<1>2. ASSUME NEW d \in Clients, NEW p \in Projects, Relay(d, p)
      PROVE  HeardInv'
  <2>1. relays' = relays + 1 /\ relays \in Nat /\ relays' \in Nat
    BY <1>2 DEF Relay, HeardInv
  <2>2. ASSUME NEW c \in Clients PROVE HeardBy(c, heard'[c], relays + 1)
    <3>0. HeardBy(c, heard[c], relays)
      BY DEF HeardInv
    <3>1. CASE c \in Audience(d, p)
      <4>1. c # d /\ heard'[c] = Append(heard[c], [number |-> relays + 1, from |-> d])
        BY <1>2, <3>1 DEF Relay, Audience
      <4> QED BY <2>1, <3>0, <4>1, OneMore
    <3>2. CASE c \notin Audience(d, p)
      <4>1. heard'[c] = heard[c]
        BY <1>2, <3>2 DEF Relay
      <4>2. PICK r, n : r = heard[c] /\ n = relays
        OBVIOUS
      <4>3. HeardBy(c, r, n) /\ n \in Nat
        BY <2>1, <3>0, <4>2
      <4>4. r \in Seq(Event) /\ \A k \in DOMAIN r : r[k].number \in Nat
        <5>1. r \in Seq(Event) /\ DOMAIN r = 1..Len(r)
          BY <4>3 DEF HeardBy
        <5>2. \A k \in DOMAIN r : r[k] \in Event
          BY <5>1, ElementOfSeq
        <5> QED BY <5>1, <5>2 DEF Event
      <4>5. HeardBy(c, r, n + 1)
        BY <4>3, <4>4 DEF HeardBy
      <4> QED BY <4>1, <4>2, <4>5
    <3> QED BY <3>1, <3>2
  <2> QED BY <2>1, <2>2 DEF HeardInv
<1>3. CASE UNCHANGED vars
  BY <1>1, <1>3 DEF vars
<1>4. CASE Next
  <2>1. PICK c \in Clients :
          \/ Connect(c) \/ Drop(c) \/ HandleDisconnect(c)
          \/ \E u \in Users : HandleRegisterUser(c, u) \/ HandleShareProject(c, u)
          \/ \E p \in Projects : JoinProject(c, p) \/ LeaveProject(c, p) \/ Relay(c, p)
    BY <1>4, StepKinds
  <2>2. CASE \E p \in Projects : Relay(c, p)
    BY <1>2, <2>2
  <2>3. CASE ~ \E p \in Projects : Relay(c, p)
    <3>1. UNCHANGED <<heard, relays>>
      BY <2>1, <2>3 DEF Connect, Drop, HandleDisconnect, JoinProject, LeaveProject,
                        HandleRegisterUser, HandleShareProject
    <3> QED BY <1>1, <3>1
  <2> QED BY <2>2, <2>3
<1> QED BY <1>3, <1>4

\* Every client receives the shares for one recipient, and the events of its
\* rooms, in the order in which they were sent, and never its own events.
THEOREM ArrivesInOrder == Spec => []DeliveredInOrder
<1>1. InOrder /\ HeardInv => DeliveredInOrder
  BY DEF InOrder, HeardInv, HeardBy, Rising, DeliveredInOrder
<1> QED BY <1>1, SharingInit, SharingStep, PlacedInit, PlacedStep, InOrderInit, InOrderStep,
           HeardInit, HeardStep, PTL DEF Spec

---------------------------------------------------------------------------
(***************************************************************************)
(* Types.                                                                  *)
(***************************************************************************)

\* Messages are numbered within the bound, and only given numbers are taken.
Counted ==
  /\ shares + relays <= MaxMessages
  /\ \A u \in Users : Numbers(taken[u]) \subseteq 1..shares

LEMMA CountedInit == Init => Counted
BY SessionConstants DEF Init, Counted, Numbers

LEMMA ConcatNumbers ==
  ASSUME NEW p \in Seq(Nat), NEW q \in Seq(Nat), NEW r, r = p \o q
  PROVE  Numbers(r) \subseteq Numbers(p) \cup Numbers(q)
<1>1. /\ Len(p) \in Nat /\ Len(q) \in Nat /\ DOMAIN p = 1..Len(p) /\ DOMAIN q = 1..Len(q)
      /\ r \in Seq(Nat) /\ Len(r) = Len(p) + Len(q)
      /\ \A i \in 1..Len(p) : r[i] = p[i]
      /\ \A i \in Len(p)+1 .. Len(p)+Len(q) : r[i] = q[i - Len(p)]
  BY ConcatProperties
<1>2. ASSUME NEW i \in DOMAIN r PROVE r[i] \in Numbers(p) \cup Numbers(q)
  <2>1. i \in 1..(Len(p) + Len(q))
    BY <1>1
  <2>2. CASE i <= Len(p)
    BY <1>1, <2>1, <2>2 DEF Numbers
  <2>3. CASE i > Len(p)
    <3>1. i \in Len(p)+1 .. Len(p)+Len(q) /\ i - Len(p) \in DOMAIN q
      BY <1>1, <2>1, <2>3
    <3> QED BY <1>1, <3>1 DEF Numbers
  <2> QED BY <1>1, <2>1, <2>2, <2>3
<1> QED BY <1>2 DEF Numbers

LEMMA CountedStep == SharingInv /\ Placed /\ Counted /\ [Next]_vars => Counted'
<1> SUFFICES ASSUME SharingInv, Placed, Counted, [Next]_vars PROVE Counted'
  OBVIOUS
<1>0. /\ pendingMessages \in [Users -> Seq(Nat)] /\ taken \in [Users -> Seq(Nat)]
      /\ shares \in Nat /\ relays \in Nat
      /\ \A u \in Users : Numbers(taken[u]) \subseteq 1..shares
      /\ shares + relays <= MaxMessages /\ MaxMessages \in Nat
  BY SessionConstants DEF SharingInv, QueuesTyped, Counted
<1>1. CASE UNCHANGED <<taken, shares, relays>>
  BY <1>1 DEF Counted
<1>2. ASSUME NEW c \in Clients, NEW p \in Projects, Relay(c, p)
      PROVE  Counted'
  <2>1. shares + relays < MaxMessages /\ relays' = relays + 1 /\ UNCHANGED <<taken, shares>>
    BY <1>2 DEF Relay, mail
  <2>2. shares' + relays' <= MaxMessages
    BY <1>0, <2>1
  <2> QED BY <1>0, <2>1, <2>2 DEF Counted
<1>3. ASSUME NEW c \in Clients, NEW u \in Users, HandleRegisterUser(c, u)
      PROVE  Counted'
  <2>1. taken' = [taken EXCEPT ![u] = @ \o pendingMessages[u]] /\ UNCHANGED <<shares, relays>>
    BY <1>3 DEF HandleRegisterUser, Flushed
  <2>2. Numbers(pendingMessages[u]) \subseteq 1..shares
    BY NumbersGiven
  <2>3. PICK p, q, r : p = taken[u] /\ q = pendingMessages[u] /\ r = p \o q
    OBVIOUS
  <2>4. Numbers(r) \subseteq 1..shares
    <3>1. p \in Seq(Nat) /\ q \in Seq(Nat)
      BY <1>0, <2>3
    <3>2. Numbers(r) \subseteq Numbers(p) \cup Numbers(q)
      BY <2>3, <3>1, ConcatNumbers
    <3> QED BY <1>0, <2>2, <2>3, <3>2
  <2>5. \A v \in Users : taken'[v] = IF v = u THEN r ELSE taken[v]
    BY <1>0, <2>1, <2>3
  <2> QED BY <1>0, <2>1, <2>4, <2>5 DEF Counted
<1>4. ASSUME NEW c \in Clients, NEW u \in Users, HandleShareProject(c, u)
      PROVE  Counted'
  <2>1. /\ Forward(u) /\ shares + relays < MaxMessages /\ shares' = shares + 1
        /\ UNCHANGED relays
    BY <1>4 DEF HandleShareProject, Forward
  <2>2. taken' = [taken EXCEPT ![u] = Append(@, shares + 1)] \/ UNCHANGED taken
    BY <2>1, ForwardQueues
  <2>3. PICK q, n, r : q = taken[u] /\ n = shares + 1 /\ r = Append(q, n)
    OBVIOUS
  <2>4. /\ 1..n = (1..shares) \cup {n} /\ n \in Nat /\ shares' + relays' <= MaxMessages
    BY <1>0, <2>1, <2>3
  <2>5. Numbers(r) \subseteq 1..n
    <3>1. q \in Seq(Nat) /\ n \in Nat
      BY <1>0, <2>3, <2>4
    <3>2. Numbers(r) = Numbers(q) \cup {n}
      BY <2>3, <3>1, AppendNumbers
    <3> QED BY <1>0, <2>3, <2>4, <3>2
  <2>6. \A v \in Users : taken'[v] = taken[v] \/ taken'[v] = r
    BY <1>0, <2>2, <2>3
  <2>7. \A v \in Users : Numbers(taken'[v]) \subseteq 1..n
    BY <1>0, <2>4, <2>5, <2>6
  <2> QED BY <2>1, <2>3, <2>4, <2>7 DEF Counted
<1>5. CASE UNCHANGED vars
  BY <1>1, <1>5 DEF vars
<1>6. CASE Next
  <2>1. PICK c \in Clients :
          \/ Connect(c) \/ Drop(c) \/ HandleDisconnect(c)
          \/ \E u \in Users : HandleRegisterUser(c, u) \/ HandleShareProject(c, u)
          \/ \E p \in Projects : JoinProject(c, p) \/ LeaveProject(c, p) \/ Relay(c, p)
    BY <1>6, StepKinds
  <2>2. CASE \/ Connect(c) \/ Drop(c) \/ HandleDisconnect(c)
             \/ \E p \in Projects : JoinProject(c, p) \/ LeaveProject(c, p)
    <3>1. UNCHANGED <<taken, shares, relays>>
      BY <2>2 DEF Connect, Drop, HandleDisconnect, JoinProject, LeaveProject, mail
    <3> QED BY <1>1, <3>1
  <2> QED BY <1>2, <1>3, <1>4, <2>1, <2>2
<1> QED BY <1>5, <1>6

\* A sequence of numbers within S is a sequence over S.
LEMMA NumbersTyped ==
  ASSUME NEW q \in Seq(Nat), NEW S, Numbers(q) \subseteq S
  PROVE  q \in Seq(S)
<1>1. Len(q) \in Nat /\ q \in [1..Len(q) -> Nat] /\ \A k \in 1..Len(q) : q[k] \in S
  BY LenProperties DEF Numbers
<1>2. q \in [1..Len(q) -> S]
  BY <1>1
<1> QED BY <1>1, <1>2

LEMMA SeenTyped ==
  ASSUME NEW r \in Seq(Share), NEW S, SeenBy(r) \subseteq S
  PROVE  r \in Seq([to : Users, number : S])
<1> DEFINE T == [to : Users, number : S]
<1>1. /\ Len(r) \in Nat /\ DOMAIN r = 1..Len(r) /\ \A k \in 1..Len(r) : r[k].number \in S
      /\ \A k \in 1..Len(r) : r[k] \in Share
  BY ElementOfSeq DEF SeenBy
<1>2. \A k \in 1..Len(r) : r[k] \in T
  BY <1>1 DEF Share
<1> HIDE DEF T
<1>3. r \in [1..Len(r) -> T]
  BY <1>1, <1>2
<1>4. r \in Seq(T)
  BY <1>1, <1>3
<1> QED BY <1>4 DEF T

\* Every queued, taken, received or lost share has a number within the bound,
\* and rooms and registry hold clients and users only: the maps of the gateway
\* after any number of handlers.
THEOREM Types == Spec => []TypeOK
<1>1. SharingInv /\ Placed /\ Counted => TypeOK
  <2> SUFFICES ASSUME SharingInv, Placed, Counted PROVE TypeOK
    OBVIOUS
  <2> DEFINE B == 1..MaxMessages
             T == [to : Users, number : B]
  <2>1. SocketsTyped
    BY DEF SharingInv, RegistryInv
  <2>2. /\ shares \in 0..MaxMessages /\ relays \in 0..MaxMessages /\ 1..shares \subseteq B
    BY SessionConstants DEF SharingInv, QueuesTyped, Counted
  <2>3. /\ pendingMessages \in [Users -> Seq(Nat)] /\ taken \in [Users -> Seq(Nat)]
        /\ received \in [Clients -> Seq(Share)]
    BY DEF SharingInv, QueuesTyped, Placed
  <2>4. /\ \A u \in Users : Numbers(pendingMessages[u]) \subseteq B /\ Numbers(taken[u]) \subseteq B
        /\ \A c \in Clients : SeenBy(received[c]) \subseteq B
        /\ lost \subseteq B
    BY <2>2, NumbersGiven DEF Placed, Counted
  <2> HIDE DEF B
  <2>5. pendingMessages \in [Users -> Seq(B)] /\ taken \in [Users -> Seq(B)]
    <3>1. \A u \in Users : pendingMessages[u] \in Seq(B) /\ taken[u] \in Seq(B)
      BY <2>3, <2>4, NumbersTyped
    <3> QED BY <2>3, <3>1
  <2>6. received \in [Clients -> Seq(T)]
    <3>1. \A c \in Clients : received[c] \in Seq(T)
      BY <2>3, <2>4, SeenTyped
    <3> HIDE DEF T
    <3> QED BY <2>3, <3>1
  <2> QED BY <2>1, <2>2, <2>4, <2>5, <2>6 DEF TypeOK, SocketsTyped, B
<1> QED BY <1>1, SharingInit, SharingStep, PlacedInit, PlacedStep, CountedInit, CountedStep,
           PTL DEF Spec

=============================================================================
