------------------------ MODULE NotificationGateway ------------------------
(***************************************************************************)
(* Which sockets hear of a user's friend requests and project invitations  *)
(* (src/src/socket/notification.gateway.ts).  A socket.io socket is an     *)
(* object per connection: it connects once and disconnects once.  The      *)
(* handlers run without an await.  Modules whose services notify users     *)
(* extend this one.                                                        *)
(***************************************************************************)
EXTENDS Naturals, Sequences, FiniteSets

CONSTANTS
  Users,     \* user ids
  Sockets,   \* socket objects
  Channels,  \* "friendRequests", "projectInvitations"
  None       \* "none": no user, no request

ASSUME GatewayConstants ==
  /\ None \notin Users
  /\ Channels \subseteq {"friendRequests", "projectInvitations"}

VARIABLES
  line,               \* socket -> "new", "up" or "down"
  userSubscriptions,  \* socket -> its subscription: user and channels
  userSockets         \* user -> sockets

gateway == <<line, userSubscriptions, userSockets>>

NoSubscription == [userId |-> None, channels |-> {}]
Subscription   == [userId : Users \cup {None}, channels : SUBSET Channels]

GatewayInit ==
  /\ line = [k \in Sockets |-> "new"]
  /\ userSubscriptions = [k \in Sockets |-> NoSubscription]
  /\ userSockets = [u \in Users |-> {}]

HandleConnection(k) ==
  /\ line[k] = "new"
  /\ line' = [line EXCEPT ![k] = "up"]
  /\ UNCHANGED <<userSubscriptions, userSockets>>

\* Mutant of Enrolled: a socket that subscribes again joins the new user too.
Enrolled_Again(k, u) ==
  [userSockets EXCEPT ![u] = @ \cup {k}]

\* userSockets after socket k has subscribed for user u.
Enrolled(k, u) ==
  IF userSubscriptions[k].userId # None THEN userSockets
  ELSE [userSockets EXCEPT ![u] = @ \cup {k}]

\* handleSubscribe with a token of user u: the first subscription of a socket
\* settles its user, later ones only add channels.
HandleSubscribe(k, u, ch) ==
  /\ line[k] = "up"
  /\ userSubscriptions' = [userSubscriptions EXCEPT ![k] =
       [userId |-> IF @.userId = None THEN u ELSE @.userId, channels |-> @.channels \cup {ch}]]
  /\ userSockets' = Enrolled(k, u)
  /\ UNCHANGED line

HandleDisconnect(k) ==
  /\ line[k] = "up"
  /\ line' = [line EXCEPT ![k] = "down"]
  /\ userSubscriptions' = [userSubscriptions EXCEPT ![k] = NoSubscription]
  /\ userSockets' = [u \in Users |-> IF u = userSubscriptions[k].userId
                                       THEN userSockets[u] \ {k} ELSE userSockets[u]]

GatewayNext ==
  \E k \in Sockets :
    \/ HandleConnection(k) \/ HandleDisconnect(k)
    \/ \E u \in Users, ch \in Channels : HandleSubscribe(k, u, ch)

\* The sockets to which a notification for user u on channel ch is sent.
Listeners(u, ch) == {k \in userSockets[u] : ch \in userSubscriptions[k].channels}

---------------------------------------------------------------------------
\* Properties

\* Types of the state.
GatewayTypeOK ==
  /\ line \in [Sockets -> {"new", "up", "down"}]
  /\ userSubscriptions \in [Sockets -> Subscription]
  /\ userSockets \in [Users -> SUBSET Sockets]

\* The two maps agree: a socket is among those of the user it subscribed for
\* and of nobody else, while it is connected - also when it subscribes again
\* with a token of another user.
SubscriptionsAgree ==
  \A k \in Sockets, u \in Users :
    k \in userSockets[u] <=> line[k] = "up" /\ userSubscriptions[k].userId = u

=============================================================================
