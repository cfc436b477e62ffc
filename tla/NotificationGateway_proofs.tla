--------------------- MODULE NotificationGateway_proofs ---------------------
(***************************************************************************)
(* What holds of the sockets and subscriptions, for every number of users, *)
(* sockets and channels; the modules that extend NotificationGateway use   *)
(* these facts in their proofs.                                            *)
(***************************************************************************)
EXTENDS NotificationGateway, TLAPS

\* A socket that is not connected has no subscription: one that connects
\* starts without a user.
GatewayInv ==
  /\ GatewayTypeOK
  /\ SubscriptionsAgree
  /\ \A k \in Sockets : line[k] # "up" => userSubscriptions[k] = NoSubscription

LEMMA GatewayInvInit == GatewayInit => GatewayInv
BY GatewayConstants
   DEF GatewayInit, GatewayInv, GatewayTypeOK, SubscriptionsAgree, NoSubscription, Subscription

LEMMA GatewayInvStep ==
  ASSUME GatewayInv, GatewayNext
  PROVE  GatewayInv'
<1> USE GatewayConstants DEF NoSubscription, Subscription
<1>1. ASSUME NEW k \in Sockets, HandleConnection(k)
      PROVE  GatewayInv'
  BY <1>1 DEF HandleConnection, GatewayInv, GatewayTypeOK, SubscriptionsAgree
<1>2. ASSUME NEW k \in Sockets, HandleDisconnect(k)
      PROVE  GatewayInv'
  <2>1. \A u \in Users : userSockets'[u] = IF u = userSubscriptions[k].userId
                                             THEN userSockets[u] \ {k} ELSE userSockets[u]
    BY <1>2 DEF HandleDisconnect
  <2>2. /\ \A j \in Sockets : line'[j] = IF j = k THEN "down" ELSE line[j]
        /\ \A j \in Sockets : userSubscriptions'[j] = IF j = k THEN NoSubscription
                                                               ELSE userSubscriptions[j]
    BY <1>2 DEF HandleDisconnect, GatewayInv, GatewayTypeOK
  <2>3. GatewayTypeOK'
    <3>1. NoSubscription \in Subscription
      OBVIOUS
    <3> QED BY <1>2, <3>1 DEF HandleDisconnect, GatewayInv, GatewayTypeOK
  <2>4. SubscriptionsAgree'
    <3> SUFFICES ASSUME NEW j \in Sockets, NEW u \in Users
                 PROVE  j \in userSockets'[u] <=> line'[j] = "up" /\ userSubscriptions'[j].userId = u
      BY DEF SubscriptionsAgree
    <3>1. j \in userSockets[u] <=> line[j] = "up" /\ userSubscriptions[j].userId = u
      BY DEF GatewayInv, SubscriptionsAgree
    <3>2. CASE j = k
      BY <2>1, <2>2, <3>1, <3>2
    <3>3. CASE j # k
      BY <2>1, <2>2, <3>1, <3>3
    <3> QED BY <3>2, <3>3
  <2> QED BY <2>2, <2>3, <2>4 DEF GatewayInv
<1>3. ASSUME NEW k \in Sockets, NEW u \in Users, NEW ch \in Channels, HandleSubscribe(k, u, ch)
      PROVE  GatewayInv'
  <2> DEFINE s == [userId |-> IF userSubscriptions[k].userId = None THEN u
                                                                 ELSE userSubscriptions[k].userId,
                   channels |-> userSubscriptions[k].channels \cup {ch}]
  <2>1. s \in Subscription /\ userSubscriptions \in [Sockets -> Subscription]
    BY DEF GatewayInv, GatewayTypeOK
  <2>2. userSubscriptions' = [userSubscriptions EXCEPT ![k] = s]
    BY <1>3 DEF HandleSubscribe
  <2>3. \A j \in Sockets : userSubscriptions'[j] = IF j = k THEN s ELSE userSubscriptions[j]
    BY <2>1, <2>2
  <2>4. line' = line /\ line[k] = "up"
    BY <1>3 DEF HandleSubscribe
  <2>5. userSubscriptions' \in [Sockets -> Subscription]
    <3> HIDE DEF s
    <3> QED BY <2>1, <2>2
  <2>6. CASE userSubscriptions[k].userId = None
    <3>1. userSockets' = [userSockets EXCEPT ![u] = @ \cup {k}] /\ s.userId = u
      BY <1>3, <2>6 DEF HandleSubscribe, Enrolled
    <3> QED BY <2>3, <2>4, <2>5, <2>6, <3>1 DEF GatewayInv, GatewayTypeOK, SubscriptionsAgree
  <2>7. CASE userSubscriptions[k].userId # None
    <3>1. userSockets' = userSockets /\ s.userId = userSubscriptions[k].userId
      BY <1>3, <2>7 DEF HandleSubscribe, Enrolled
    <3> QED BY <2>3, <2>4, <2>5, <3>1 DEF GatewayInv, GatewayTypeOK, SubscriptionsAgree
  <2> QED BY <2>6, <2>7
<1> QED BY <1>1, <1>2, <1>3 DEF GatewayNext

LEMMA GatewayInvKept ==
  ASSUME GatewayInv, UNCHANGED gateway
  PROVE  GatewayInv'
BY DEF gateway, GatewayInv, GatewayTypeOK, SubscriptionsAgree

=============================================================================
