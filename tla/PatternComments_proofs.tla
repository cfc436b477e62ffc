------------------------ MODULE PatternComments_proofs ------------------------
(***************************************************************************)
(* Theorems about PatternComments, and with it about the requests of       *)
(* Membership, for every number of users, projects, slots and requests,    *)
(* and their proofs.  Five invariants build on each other:                 *)
(*   Inv        what requests are doing, and what names a row;             *)
(*   Answering  rows and copies of one invitation agree on its project;    *)
(*   Alone      one request at a time: it knows the invitation it answers; *)
(*   Hearing    one request at a time: sockets know the comments;          *)
(*   Typed      types.                                                     *)
(* The step of each of them has a lemma per action.                        *)
(***************************************************************************)
EXTENDS PatternComments, NotificationGateway_proofs

---------------------------------------------------------------------------
(***************************************************************************)
(* What a request is doing, and what it has in hand.                       *)
(***************************************************************************)

\* A request of kind k can be at query pc.
Fits(k, pc) ==
  /\ pc = "idle" => k = "none"
  /\ pc \in {"findName", "insertProject"} => k = "create"
  /\ pc = "permit" => k \in {"delete", "add", "send"}
  /\ pc = "deleteProject" => k = "delete"
  /\ pc \in {"owns", "deleteCollaborator"} => k = "remove"
  /\ pc = "findCollaborator" => k \in {"add", "send", "accept"}
  /\ pc \in {"findPending", "insertInvitation"} => k = "send"
  /\ pc = "insertCollaborator" => k \in {"add", "accept"}
  /\ pc = "findInvitation" => k \in {"accept", "reject", "cancel"}
  /\ pc = "mark" => k \in {"accept", "reject"}
  /\ pc = "deleteInvitation" => k = "cancel"
  /\ pc = "tell" => k \in {"send", "accept", "reject"}
  /\ pc = "mayComment" => k \in {"comment", "move"}
  /\ pc = "insertComment" => k = "comment"
  /\ pc = "findComment" => k \in {"move", "uncomment"}
  /\ pc = "saveComment" => k = "move"
  /\ pc = "removeComment" => k = "uncomment"
  /\ pc \in {"findMembers", "findOwner"} => k \in {"comment", "move"}

\* Queries that need a project that a request can be about.
AboutProject == (PCs \ {"idle", "findInvitation"}) \cup {"mayComment", "insertComment"}

CommentFields == {"pc", "kind", "id", "caller", "project", "comment", "row", "members"}
RowFields     == {"id", "project", "author", "place"}

TaskOK(t) ==
  /\ t.pc \in PCs \cup CommentPCs
  /\ Fits(t.kind, t.pc)
  /\ t.pc # "idle" => t.caller \in Users
  /\ t.pc \in AboutProject => t.project \in Projects
  /\ t.pc \in CommentPCs => DOMAIN t = CommentFields
  /\ t.pc = "saveComment" => t.row.project \in Projects /\ DOMAIN t.row = RowFields

\* The request that accepts an invitation, once it is past the insertion.
Accepting(t) == t.kind = "accept" /\ t.pc \in {"mark", "tell"}

\* A request that is still to insert the row that will have its number.
Before(t) ==
  \/ t.kind = "send" /\ t.pc \in {"permit", "findCollaborator", "findPending", "insertInvitation"}
  \/ t.kind = "comment" /\ t.pc \in {"mayComment", "insertComment"}

\* Request t has a copy of the row with number n, which it may yet save.
Holds(t, n) ==
  \/ /\ t.pc = "mark" \/ (t.kind = "accept" /\ t.pc \in {"findCollaborator", "insertCollaborator"})
     /\ t.invitation = n
  \/ t.pc = "saveComment" /\ t.row.id = n

RowNamed(n) == (\E v \in invitations : v.id = n) \/ (\E c \in comments : c.id = n)
Named(n)    == RowNamed(n) \/ \E s \in Slots : Holds(task[s], n)

---------------------------------------------------------------------------
(***************************************************************************)
(* The inductive invariant.                                                *)
(***************************************************************************)

TasksInv ==
  /\ DOMAIN task = Slots
  /\ requests \in Nat
  /\ \A s \in Slots : TaskOK(task[s])
  /\ \A s \in Slots : task[s].pc # "idle" => task[s].id \in 1..requests
  /\ \A s, x \in Slots : s # x /\ task[s].pc # "idle" /\ task[x].pc # "idle"
                           => task[s].id # task[x].id

\* A number names a row, or a copy of it, only when its request has inserted it.
NamesInv ==
  \A n : Named(n) => /\ n \in 1..requests
                     /\ \A s \in Slots : Before(task[s]) => task[s].id # n

AcceptingJoined == \A s \in Slots : Accepting(task[s]) => task[s].invitation \in joined

RowsTyped ==
  /\ owner \in [Projects -> Users \cup {None}]
  /\ \A r \in collaborators : r.project \in Projects
  /\ \A v \in invitations : v.project \in Projects
  /\ \A c \in comments : c.project \in Projects /\ DOMAIN c = RowFields

RowsInv == RowsTyped /\ CommentsRefer /\ AcceptedHasJoined

Inv == TasksInv /\ NamesInv /\ AcceptingJoined /\ RowsInv

LEMMA NoRequestOK ==
  /\ TaskOK(NoRequest) /\ NoRequest.pc = "idle" /\ ~Accepting(NoRequest) /\ ~Before(NoRequest)
  /\ \A n : ~Holds(NoRequest, n)
<1>1. NoRequest.pc = "idle" /\ NoRequest.kind = "none"
  BY DEF NoRequest, RequestAt
<1> QED BY <1>1 DEF TaskOK, Fits, PCs, CommentPCs, AboutProject, Accepting, Before, Holds

LEMMA InvInit == CommentsInit => Inv
<1> SUFFICES ASSUME CommentsInit PROVE Inv
  OBVIOUS
<1>1. /\ task = [s \in Slots |-> NoRequest] /\ requests = 0 /\ invitations = {} /\ comments = {}
      /\ collaborators = {} /\ told = {} /\ owner = [p \in Projects |-> None]
  BY DEF CommentsInit, Init
<1>2. TasksInv
  BY <1>1, NoRequestOK DEF TasksInv
<1>3. NamesInv
  BY <1>1, NoRequestOK DEF NamesInv, Named, RowNamed
<1>4. AcceptingJoined
  BY <1>1, NoRequestOK DEF AcceptingJoined
<1>5. RowsInv
  BY <1>1 DEF RowsInv, RowsTyped, CommentsRefer, RowsRefer, AcceptedHasJoined
<1> QED BY <1>2, <1>3, <1>4, <1>5 DEF Inv

---------------------------------------------------------------------------
(***************************************************************************)
(* Steps of requests.                                                      *)
(***************************************************************************)

\* The request in slot s becomes t, the same one at another query, or none.
LEMMA TaskReplaced ==
  ASSUME TasksInv, NEW s \in Slots, task[s].pc # "idle", NEW t, TaskOK(t),
         t.pc = "idle" \/ t.id = task[s].id,
         task' = [task EXCEPT ![s] = t], requests' = requests
  PROVE  /\ TasksInv'
         /\ \A x \in Slots : task'[x] = IF x = s THEN t ELSE task[x]
<1>1. DOMAIN task' = Slots /\ \A x \in Slots : task'[x] = IF x = s THEN t ELSE task[x]
  BY DEF TasksInv
<1>2. \A x \in Slots : TaskOK(task'[x])
  BY <1>1 DEF TasksInv
<1>3. \A x \in Slots : task'[x].pc # "idle" => task'[x].id \in 1..requests'
  BY <1>1 DEF TasksInv
<1>4. \A x, y \in Slots : x # y /\ task'[x].pc # "idle" /\ task'[y].pc # "idle"
                           => task'[x].id # task'[y].id
  BY <1>1 DEF TasksInv
<1>5. TasksInv' <=>
        /\ DOMAIN task' = Slots
        /\ requests' \in Nat
        /\ \A x \in Slots : TaskOK(task'[x])
        /\ \A x \in Slots : task'[x].pc # "idle" => task'[x].id \in 1..requests'
        /\ \A x, y \in Slots : x # y /\ task'[x].pc # "idle" /\ task'[y].pc # "idle"
                                 => task'[x].id # task'[y].id
  BY DEF TasksInv, TaskOK
<1> QED BY <1>1, <1>2, <1>3, <1>4, <1>5 DEF TasksInv

\* No name is new, except that a request which has inserted its row gives the
\* row its number.
LEMMA NamesKept ==
  ASSUME TasksInv, NamesInv, NEW s \in Slots, task[s].pc # "idle", NEW t,
         \A x \in Slots : task'[x] = IF x = s THEN t ELSE task[x],
         requests' = requests,
         Before(t) => Before(task[s]) /\ t.id = task[s].id,
         \/ /\ \A n : RowNamed(n)' => Named(n)
            /\ \A n : Holds(t, n) => Named(n)
         \/ /\ \A n : RowNamed(n)' => RowNamed(n) \/ n = task[s].id
            /\ \A n : ~Holds(t, n)
            /\ ~Before(t)
  PROVE  NamesInv'
<1>1. ASSUME NEW n, Named(n)'
      PROVE  \/ Named(n)
             \/ n = task[s].id /\ ~Before(t)
  <2>1. CASE RowNamed(n)'
    BY <2>1 DEF Named
  <2>2. ASSUME NEW x \in Slots, Holds(task'[x], n)
        PROVE  Named(n)
    <3>1. CASE x = s
      <4>1. Holds(t, n)
        BY <2>2, <3>1
      <4> QED BY <4>1
    <3>2. CASE x # s
      <4>1. Holds(task[x], n)
        BY <2>2, <3>2
      <4> QED BY <4>1 DEF Named
    <3> QED BY <3>1, <3>2
  <2>3. RowNamed(n)' \/ \E x \in Slots : Holds(task'[x], n)
    BY <1>1 DEF Named, Holds
  <2> QED BY <2>1, <2>2, <2>3
<1>2. ASSUME NEW n, Named(n)'
      PROVE  n \in 1..requests /\ \A x \in Slots : Before(task'[x]) => task'[x].id # n
  <2>1. n \in 1..requests
    BY <1>1, <1>2 DEF NamesInv, TasksInv
  <2>2. ASSUME NEW x \in Slots, Before(task'[x])
        PROVE  task'[x].id # n
    <3>1. CASE x = s
      <4>1. Before(t) /\ task'[x] = t
        BY <2>2, <3>1
      <4>2. Named(n) /\ Before(task[s]) /\ t.id = task[s].id
        BY <1>1, <1>2, <4>1
      <4> QED BY <4>1, <4>2 DEF NamesInv
    <3>2. CASE x # s
      <4>1. Before(task[x]) /\ task'[x] = task[x]
        BY <2>2, <3>2
      <4>2. task[x].pc # "idle"
        BY <4>1 DEF Before
      <4> QED BY <1>1, <1>2, <3>2, <4>1, <4>2 DEF NamesInv, TasksInv
    <3> QED BY <3>1, <3>2
  <2> QED BY <2>1, <2>2
<1>3. NamesInv' <=> \A n : Named(n)' => /\ n \in 1..requests'
                                        /\ \A x \in Slots : Before(task'[x]) => task'[x].id # n
  BY DEF NamesInv, Before
<1> QED BY <1>2, <1>3

LEMMA JoinedKept ==
  ASSUME AcceptingJoined, NEW s \in Slots, NEW t,
         \A x \in Slots : task'[x] = IF x = s THEN t ELSE task[x],
         joined \subseteq joined',
         Accepting(t) => t.invitation \in joined'
  PROVE  AcceptingJoined'
<1>1. \A x \in Slots : Accepting(task'[x]) => task'[x].invitation \in joined'
  BY DEF AcceptingJoined
<1> QED BY <1>1 DEF AcceptingJoined, Accepting

\* What the tables say and who was told stays true when rows only go, and the
\* projects do not.
LEMMA RowsKept ==
  ASSUME RowsInv, owner' = owner, collaborators' \subseteq collaborators,
         invitations' \subseteq invitations, comments' \subseteq comments, joined \subseteq joined',
         \A n \in told' : n \in told \/ (n.event = "accepted" => n.invitation \in joined')
  PROVE  RowsInv'
BY DEF RowsInv, RowsTyped, CommentsRefer, RowsRefer, AcceptedHasJoined, Live

\* A request goes on or ends without adding a row or a project.
LEMMA QuietStep ==
  ASSUME Inv, NEW s \in Slots, task[s].pc # "idle", NEW t, TaskOK(t),
         t.pc = "idle" \/ t.id = task[s].id,
         Before(t) => Before(task[s]) /\ t.id = task[s].id,
         \A n : Holds(t, n) => Named(n),
         Accepting(t) => Accepting(task[s]) /\ t.invitation = task[s].invitation,
         task' = [task EXCEPT ![s] = t], requests' = requests,
         owner' = owner, collaborators' \subseteq collaborators,
         invitations' \subseteq invitations, comments' \subseteq comments, joined' = joined,
         \A n \in told' : n \in told \/ (n.event = "accepted" => n.invitation \in joined')
  PROVE  Inv'
<1>0. TasksInv /\ NamesInv /\ AcceptingJoined /\ RowsInv
  BY DEF Inv
<1>1. TasksInv' /\ \A x \in Slots : task'[x] = IF x = s THEN t ELSE task[x]
  BY <1>0, TaskReplaced
<1>2. \A n : RowNamed(n)' => Named(n)
  BY DEF Named, RowNamed
<1>3. NamesInv'
  BY <1>0, <1>1, <1>2, NamesKept
<1>4. AcceptingJoined'
  <2>1. Accepting(t) => t.invitation \in joined'
    BY <1>0 DEF AcceptingJoined
  <2> QED BY <1>0, <1>1, <2>1, JoinedKept
<1>5. RowsInv'
  BY <1>0, RowsKept
<1> QED BY <1>1, <1>3, <1>4, <1>5 DEF Inv

\* What follows the queries of a request but findInvitation and insertInvitation.
NextQuery(t) ==
  /\ t.pc = "findName" => After(t) = "insertProject"
  /\ t.pc = "permit" => After(t) = IF t.kind = "delete" THEN "deleteProject" ELSE "findCollaborator"
  /\ t.pc = "owns" => After(t) = "deleteCollaborator"
  /\ t.pc = "findCollaborator" =>
       After(t) = IF t.kind = "send" THEN "findPending" ELSE "insertCollaborator"
  /\ t.pc = "findPending" => After(t) = "insertInvitation"
  /\ t.pc = "insertCollaborator" => After(t) = IF t.kind = "accept" THEN "mark" ELSE "idle"
  /\ t.pc = "mark" => After(t) = "tell"
  /\ t.pc \in {"insertProject", "deleteProject", "deleteCollaborator", "tell", "deleteInvitation"}
       => After(t) = "idle"

LEMMA AfterIs ==
  ASSUME NEW t
  PROVE  NextQuery(t)
<1>1. t.pc = "findName" => After(t) = "insertProject"
  BY DEF After
<1>2. t.pc = "permit" => After(t) = IF t.kind = "delete" THEN "deleteProject" ELSE "findCollaborator"
  BY DEF After
<1>3. t.pc = "owns" => After(t) = "deleteCollaborator"
  BY DEF After
<1>4. t.pc = "findCollaborator" =>
        After(t) = IF t.kind = "send" THEN "findPending" ELSE "insertCollaborator"
  BY DEF After
<1>5. t.pc = "findPending" => After(t) = "insertInvitation"
  BY DEF After
<1>6. t.pc = "insertCollaborator" => After(t) = IF t.kind = "accept" THEN "mark" ELSE "idle"
  BY DEF After
<1>7. t.pc = "mark" => After(t) = "tell"
  BY DEF After
<1>8. t.pc \in {"insertProject", "deleteProject", "deleteCollaborator", "tell", "deleteInvitation"}
        => After(t) = "idle"
  BY DEF After
<1> QED BY <1>1, <1>2, <1>3, <1>4, <1>5, <1>6, <1>7, <1>8 DEF NextQuery

\* The next query of a request fits its kind, and nothing else of it changes.
LEMMA AtOK ==
  ASSUME NEW t, TaskOK(t), t.pc \in PCs \ {"idle", "findInvitation", "insertInvitation"},
         After(t) # "idle"
  PROVE  LET n == At(t, After(t)) IN
         /\ TaskOK(n) /\ n.id = t.id /\ n.invitation = t.invitation
         /\ Before(n) => Before(t)
         /\ \A m : Holds(n, m) => Holds(t, m)
         /\ Accepting(n) => Accepting(t) \/ (t.pc = "insertCollaborator" /\ t.kind = "accept")
<1> DEFINE n == At(t, After(t))
<1>1. /\ n.pc = After(t) /\ n.kind = t.kind /\ n.id = t.id /\ n.caller = t.caller
      /\ n.project = t.project /\ n.invitation = t.invitation
  BY DEF At, RequestAt
<1>2. NextQuery(t)
  BY AfterIs
<1>3. t.pc \in {"findName", "permit", "owns", "findCollaborator", "findPending",
                "insertCollaborator", "mark"}
  BY <1>2 DEF NextQuery, PCs
<1>4. Fits(t.kind, t.pc)
  BY DEF TaskOK
<1>5. /\ t.pc = "findName" => t.kind = "create"
      /\ t.pc = "permit" => t.kind \in {"delete", "add", "send"}
      /\ t.pc = "owns" => t.kind = "remove"
      /\ t.pc = "findCollaborator" => t.kind \in {"add", "send", "accept"}
      /\ t.pc = "findPending" => t.kind = "send"
      /\ t.pc = "insertCollaborator" => t.kind \in {"add", "accept"}
      /\ t.pc = "mark" => t.kind \in {"accept", "reject"}
  BY <1>3, <1>4 DEF Fits
<1>6. After(t) \in PCs /\ Fits(t.kind, After(t))
  BY <1>2, <1>3, <1>5 DEF NextQuery, Fits, PCs, CommentPCs
<1>7. t.pc \in AboutProject /\ After(t) \notin CommentPCs
  BY <1>3, <1>6 DEF AboutProject, PCs, CommentPCs
<1> HIDE DEF n
<1>8. TaskOK(n)
  BY <1>1, <1>6, <1>7, <1>3 DEF TaskOK, CommentPCs
<1>9. /\ Before(n) => Before(t)
      /\ \A m : Holds(n, m) => Holds(t, m)
      /\ Accepting(n) => Accepting(t) \/ (t.pc = "insertCollaborator" /\ t.kind = "accept")
  BY <1>1, <1>2, <1>3, <1>5 DEF NextQuery, Before, Holds, Accepting
<1> QED BY <1>1, <1>8, <1>9 DEF n

\* A request that is going on or ends is at t next.
LEMMA GoOnOrEnd ==
  ASSUME TasksInv, NEW s \in Slots, task[s].pc \in PCs \ {"idle", "findInvitation", "insertInvitation"},
         GoOn(s) \/ Ended(s)
  PROVE  \E t : /\ task' = [task EXCEPT ![s] = t]
                /\ TaskOK(t) /\ (t.pc = "idle" \/ t.id = task[s].id)
                /\ Before(t) => Before(task[s]) /\ t.id = task[s].id
                /\ \A m : Holds(t, m) => Holds(task[s], m)
                /\ Accepting(t) => /\ t.invitation = task[s].invitation
                                   /\ \/ Accepting(task[s])
                                      \/ task[s].pc = "insertCollaborator" /\ task[s].kind = "accept"
<1>1. CASE Ended(s)
  <2>1. task' = [task EXCEPT ![s] = NoRequest]
    BY <1>1 DEF Ended
  <2> QED BY <2>1, NoRequestOK
<1>2. CASE GoOn(s) /\ ~Ended(s)
  <2> DEFINE t == At(task[s], After(task[s]))
  <2>1. After(task[s]) # "idle" /\ task' = [task EXCEPT ![s] = t]
    BY <1>2 DEF GoOn
  <2>2. TaskOK(task[s])
    BY DEF TasksInv
  <2>3. /\ TaskOK(t) /\ t.id = task[s].id /\ t.invitation = task[s].invitation
        /\ Before(t) => Before(task[s])
        /\ \A m : Holds(t, m) => Holds(task[s], m)
        /\ Accepting(t) => \/ Accepting(task[s])
                           \/ task[s].pc = "insertCollaborator" /\ task[s].kind = "accept"
    BY <2>1, <2>2, AtOK
  <2> HIDE DEF t
  <2> QED BY <2>1, <2>3
<1> QED BY <1>1, <1>2

\* A request goes on or ends, and adds no row.
LEMMA QuietGoOnOrEnd ==
  ASSUME Inv, NEW s \in Slots,
         task[s].pc \in PCs \ {"idle", "findInvitation", "insertInvitation", "insertCollaborator"},
         GoOn(s) \/ Ended(s), requests' = requests,
         owner' = owner, collaborators' \subseteq collaborators,
         invitations' \subseteq invitations, comments' \subseteq comments, joined' = joined,
         \A n \in told' : n \in told \/ (n.event = "accepted" => n.invitation \in joined')
  PROVE  Inv'
<1>1. PICK t : /\ task' = [task EXCEPT ![s] = t]
               /\ TaskOK(t) /\ (t.pc = "idle" \/ t.id = task[s].id)
               /\ Before(t) => Before(task[s]) /\ t.id = task[s].id
               /\ \A m : Holds(t, m) => Holds(task[s], m)
               /\ Accepting(t) => /\ t.invitation = task[s].invitation
                                  /\ \/ Accepting(task[s])
                                     \/ task[s].pc = "insertCollaborator" /\ task[s].kind = "accept"
  BY GoOnOrEnd DEF Inv
<1>2. \A m : Holds(t, m) => Named(m)
  BY <1>1 DEF Named
<1> QED BY <1>1, <1>2, QuietStep

\* A request ends, and adds no row.
LEMMA QuietEnd ==
  ASSUME Inv, NEW s \in Slots, task[s].pc # "idle",
         Ended(s), requests' = requests,
         owner' = owner, collaborators' \subseteq collaborators,
         invitations' \subseteq invitations, comments' \subseteq comments, joined' = joined,
         \A n \in told' : n \in told \/ (n.event = "accepted" => n.invitation \in joined')
  PROVE  Inv'
<1>1. task' = [task EXCEPT ![s] = NoRequest]
  BY DEF Ended
<1> QED BY <1>1, NoRequestOK, QuietStep

\* What a request about invitations and collaborators has in hand.
InHand(t) ==
  /\ t.kind = "add" => t.user \in Users /\ t.role = "editor" /\ t.invitation = 0
  /\ t.kind = "send" => t.user \in Users /\ t.role \in Roles
  /\ t.kind \in {"accept", "reject", "cancel"} /\ t.pc # "findInvitation" =>
       t.user \in Users /\ t.role \in Roles /\ t.invitation \in Ids /\ t.inviter \in Users
  /\ t.pc = "tell" => t.invitation \in Ids

\* Request t comes in, and takes slot s.
Arrives(s, t) ==
  /\ task[s].pc = "idle"
  /\ \A x \in Slots : task'[x] = IF x = s THEN t ELSE task[x]
  /\ DOMAIN task' = DOMAIN task
  /\ t.pc \in {"findName", "permit", "owns", "findInvitation", "mayComment", "findComment"}
  /\ TaskOK(t)
  /\ InHand(t)
  /\ t.id = requests + 1
  /\ t.kind = "create" => t.project \notin deleted /\ ~Live(t.project)
  /\ requests' = requests + 1
  /\ requests < MaxRequests
  /\ overlapped' = (overlapped \/ FreeSlots # Slots)
  /\ UNCHANGED <<gateway, tables, joined, told, failures>>

LEMMA RequestArrives ==
  ASSUME TasksInv, Request
  PROVE  \E s \in Slots : \E t : Arrives(s, t)
<1>1. ASSUME NEW k, NEW pc, NEW c \in Users, NEW p, NEW u, NEW r, NEW v, Begin(k, pc, c, p, u, r, v),
             Fits(k, pc), pc \in {"findName", "permit", "owns", "findInvitation"},
             pc # "findInvitation" => p \in Projects,
             k = "add" => u \in Users /\ r = "editor" /\ v = 0,
             k = "send" => u \in Users /\ r \in Roles,
             k = "create" => p \notin deleted /\ ~Live(p)
      PROVE  \E s \in Slots : \E t : Arrives(s, t)
  <2> DEFINE t == RequestAt(pc, k, requests + 1, c, p, u, r, v, None)
  <2>1. PICK s \in Slots : task[s].pc = "idle" /\ task' = [task EXCEPT ![s] = t]
    BY <1>1 DEF Begin, FreeSlots
  <2>2. /\ requests' = requests + 1
        /\ requests < MaxRequests
        /\ overlapped' = (overlapped \/ FreeSlots # Slots)
        /\ UNCHANGED <<gateway, tables, joined, told, failures>>
    BY <1>1 DEF Begin
  <2>3. /\ t.pc = pc /\ t.kind = k /\ t.id = requests + 1 /\ t.caller = c /\ t.project = p
        /\ t.user = u /\ t.role = r /\ t.invitation = v
    BY DEF RequestAt
  <2> HIDE DEF t
  <2>4. TaskOK(t)
    BY <1>1, <2>3 DEF TaskOK, PCs, CommentPCs, AboutProject
  <2>5. t.kind \in {"accept", "reject", "cancel"} => t.pc = "findInvitation"
    BY <1>1, <2>3 DEF Fits
  <2>6. InHand(t)
    BY <1>1, <2>3, <2>5 DEF InHand
  <2>7. (\A x \in Slots : task'[x] = IF x = s THEN t ELSE task[x]) /\ DOMAIN task' = DOMAIN task
    BY <2>1 DEF TasksInv
  <2>8. Arrives(s, t)
    BY <1>1, <2>1, <2>2, <2>3, <2>4, <2>6, <2>7 DEF Arrives
  <2> QED BY <2>8
<1>2. PICK c \in Users :
        \/ \E p \in Projects :
             \/ CreateProject(c, p) \/ DeleteProject(c, p)
             \/ \E u \in Users :
                  \/ AddCollaborator(c, p, u) \/ RemoveCollaborator(c, p, u)
                  \/ \E r \in Roles : SendInvitation(c, p, u, r)
        \/ \E v \in Ids : AcceptInvitation(c, v) \/ RejectInvitation(c, v) \/ CancelInvitation(c, v)
  BY DEF Request
<1>3. ASSUME NEW p \in Projects, CreateProject(c, p) \/ DeleteProject(c, p)
      PROVE  \E s \in Slots : \E t : Arrives(s, t)
  BY <1>1, <1>3 DEF CreateProject, DeleteProject, Fits, CommentPCs
<1>4. ASSUME NEW p \in Projects, NEW u \in Users, AddCollaborator(c, p, u) \/ RemoveCollaborator(c, p, u)
      PROVE  \E s \in Slots : \E t : Arrives(s, t)
  BY <1>1, <1>4 DEF AddCollaborator, RemoveCollaborator, Fits, CommentPCs
<1>5. ASSUME NEW p \in Projects, NEW u \in Users, NEW r \in Roles, SendInvitation(c, p, u, r)
      PROVE  \E s \in Slots : \E t : Arrives(s, t)
  BY <1>1, <1>5 DEF SendInvitation, Fits, CommentPCs
<1>6. ASSUME NEW v \in Ids, AcceptInvitation(c, v) \/ RejectInvitation(c, v) \/ CancelInvitation(c, v)
      PROVE  \E s \in Slots : \E t : Arrives(s, t)
  BY <1>1, <1>6 DEF AcceptInvitation, RejectInvitation, CancelInvitation, Fits, CommentPCs
<1> QED BY <1>2, <1>3, <1>4, <1>5, <1>6

LEMMA CommentRequestArrives ==
  ASSUME TasksInv, CommentRequest
  PROVE  (\E s \in Slots : \E t : Arrives(s, t)) /\ UNCHANGED commentVars
<1> DEFINE G == (\E s \in Slots : \E t : Arrives(s, t)) /\ UNCHANGED commentVars
<1>1. ASSUME NEW k, NEW pc, NEW c \in Users, NEW p, NEW i, BeginComment(k, pc, c, p, i),
             Fits(k, pc), pc \in {"mayComment", "findComment"},
             k \in {"comment", "move", "uncomment"}, pc = "mayComment" => p \in Projects
      PROVE  G
  <2> DEFINE t == CommentAt(pc, k, requests + 1, c, p, i, NoRow, FALSE)
  <2>1. PICK s \in Slots : task[s].pc = "idle" /\ task' = [task EXCEPT ![s] = t]
    BY <1>1 DEF BeginComment, FreeSlots
  <2>2. /\ requests' = requests + 1
        /\ requests < MaxRequests
        /\ overlapped' = (overlapped \/ FreeSlots # Slots)
        /\ UNCHANGED <<gateway, tables, joined, told, failures, commentVars>>
    BY <1>1 DEF BeginComment
  <2>3. /\ t.pc = pc /\ t.kind = k /\ t.id = requests + 1 /\ t.caller = c /\ t.project = p
        /\ DOMAIN t = CommentFields
    BY DEF CommentAt, CommentFields
  <2> HIDE DEF t
  <2>4. TaskOK(t) /\ InHand(t)
    BY <1>1, <2>3 DEF TaskOK, CommentPCs, PCs, AboutProject, InHand
  <2>5. (\A x \in Slots : task'[x] = IF x = s THEN t ELSE task[x]) /\ DOMAIN task' = DOMAIN task
    BY <2>1 DEF TasksInv
  <2>6. Arrives(s, t)
    BY <1>1, <2>1, <2>2, <2>3, <2>4, <2>5 DEF Arrives
  <2> QED BY <2>2, <2>6
<1> HIDE DEF G
<1>2. PICK c \in Users :
        \/ \E p \in Projects :
             \/ CreateComment(c, p)
             \/ \E i \in 1..requests : UpdateCommentPosition(c, p, i)
        \/ \E i \in 1..requests : DeleteComment(c, i)
  BY DEF CommentRequest
<1>3. ASSUME NEW p \in Projects, NEW i, CreateComment(c, p) \/ UpdateCommentPosition(c, p, i)
      PROVE  G
  BY <1>1, <1>3 DEF CreateComment, UpdateCommentPosition, Fits, CommentPCs
<1>4. ASSUME NEW i, DeleteComment(c, i)
      PROVE  G
  BY <1>1, <1>4 DEF DeleteComment, Fits, CommentPCs
<1>5. G
  BY <1>2, <1>3, <1>4
<1> QED BY <1>5 DEF G

LEMMA ArrivesStep ==
  ASSUME Inv, NEW s \in Slots, NEW t, Arrives(s, t), comments' \subseteq comments
  PROVE  Inv'
<1>0. /\ TasksInv /\ NamesInv /\ AcceptingJoined /\ RowsInv /\ requests \in Nat
      /\ task[s].pc = "idle" /\ requests' = requests + 1 /\ t.id = requests + 1
      /\ UNCHANGED <<owner, collaborators, invitations, joined, told>>
  BY DEF Inv, TasksInv, Arrives, tables
<1>1. ~Accepting(t) /\ \A n : ~Holds(t, n)
  BY DEF Arrives, Accepting, Holds
<1>2. /\ DOMAIN task' = Slots /\ TaskOK(t)
      /\ \A x \in Slots : task'[x] = IF x = s THEN t ELSE task[x]
  BY <1>0 DEF TasksInv, Arrives
<1>3. TasksInv'
  <2>1. \A x \in Slots : TaskOK(task'[x])
    BY <1>0, <1>2 DEF TasksInv
  <2>2. \A x \in Slots : task'[x].pc # "idle" => task'[x].id \in 1..requests'
    BY <1>0, <1>2 DEF TasksInv
  <2>3. \A x, y \in Slots : x # y /\ task'[x].pc # "idle" /\ task'[y].pc # "idle"
                             => task'[x].id # task'[y].id
    BY <1>0, <1>2 DEF TasksInv
  <2>4. TasksInv' <=>
          /\ DOMAIN task' = Slots
          /\ requests' \in Nat
          /\ \A x \in Slots : TaskOK(task'[x])
          /\ \A x \in Slots : task'[x].pc # "idle" => task'[x].id \in 1..requests'
          /\ \A x, y \in Slots : x # y /\ task'[x].pc # "idle" /\ task'[y].pc # "idle"
                                   => task'[x].id # task'[y].id
    BY DEF TasksInv, TaskOK
  <2> QED BY <1>0, <1>2, <2>1, <2>2, <2>3, <2>4
<1>4. NamesInv'
  <2>1. ASSUME NEW n, Named(n)'
        PROVE  Named(n)
    <3>1. CASE RowNamed(n)'
      BY <1>0, <3>1 DEF Named, RowNamed
    <3>2. ASSUME NEW x \in Slots, Holds(task'[x], n)
          PROVE  Named(n)
      <4>1. task'[x] = task[x]
        BY <1>1, <1>2, <3>2
      <4>2. Holds(task[x], n)
        BY <3>2, <4>1
      <4> QED BY <4>2 DEF Named
    <3>3. RowNamed(n)' \/ \E x \in Slots : Holds(task'[x], n)
      BY <2>1 DEF Named, Holds
    <3> QED BY <3>1, <3>2, <3>3
  <2>2. ASSUME NEW n, Named(n)'
        PROVE  n \in 1..requests' /\ \A x \in Slots : Before(task'[x]) => task'[x].id # n
    <3>1. n \in 1..requests /\ \A x \in Slots : Before(task[x]) => task[x].id # n
      BY <1>0, <2>1, <2>2 DEF NamesInv
    <3>2. requests + 1 # n /\ n \in 1..requests'
      BY <1>0, <3>1
    <3> QED BY <1>0, <1>2, <3>1, <3>2
  <2>3. NamesInv' <=> \A n : Named(n)' => /\ n \in 1..requests'
                                          /\ \A x \in Slots : Before(task'[x]) => task'[x].id # n
    BY DEF NamesInv, Before
  <2> QED BY <2>2, <2>3
<1>5. AcceptingJoined'
  BY <1>0, <1>1, <1>2, JoinedKept
<1>6. RowsInv'
  BY <1>0, RowsKept
<1> QED BY <1>3, <1>4, <1>5, <1>6 DEF Inv

\* A request ends when it has changed projects or rows.
LEMMA TaskEnds ==
  ASSUME Inv, NEW s \in Slots, task[s].pc # "idle", Ended(s), requests' = requests,
         joined' = joined, \A n : RowNamed(n)' => RowNamed(n)
  PROVE  TasksInv' /\ NamesInv' /\ AcceptingJoined'
<1>0. TasksInv /\ NamesInv /\ AcceptingJoined /\ task' = [task EXCEPT ![s] = NoRequest]
  BY DEF Inv, Ended
<1>1. TasksInv' /\ \A x \in Slots : task'[x] = IF x = s THEN NoRequest ELSE task[x]
  <2>1. TaskOK(NoRequest) /\ NoRequest.pc = "idle"
    BY NoRequestOK
  <2>2. ASSUME NEW t, t = NoRequest
        PROVE  TasksInv' /\ \A x \in Slots : task'[x] = IF x = s THEN t ELSE task[x]
    <3>1. TaskOK(t) /\ t.pc = "idle" /\ task' = [task EXCEPT ![s] = t]
      BY <1>0, <2>1, <2>2
    <3> QED BY <1>0, <3>1, TaskReplaced
  <2> QED BY <2>2
<1>2. \A n : RowNamed(n)' => Named(n)
  BY DEF Named
<1>3. NamesInv'
  BY <1>0, <1>1, <1>2, NoRequestOK, NamesKept
<1>4. AcceptingJoined'
  BY <1>0, <1>1, NoRequestOK, JoinedKept
<1> QED BY <1>1, <1>3, <1>4

LEMMA InsertProjectStep ==
  ASSUME Inv, NEW s \in Slots, InsertProject(s), comments' \subseteq comments
  PROVE  Inv'
<1> DEFINE p == task[s].project
<1>0. /\ TaskOK(task[s]) /\ task[s].pc = "insertProject" /\ Ended(s) /\ RowsInv
      /\ owner' = [owner EXCEPT ![p] = task[s].caller]
      /\ UNCHANGED <<collaborators, invitations, requests, joined, told>>
  BY DEF InsertProject, Inv, TasksInv
<1>1. task[s].caller \in Users /\ p \in Projects
  BY <1>0 DEF TaskOK, AboutProject, PCs
<1>2. TasksInv' /\ NamesInv' /\ AcceptingJoined'
  BY <1>0, TaskEnds DEF RowNamed
<1>3. /\ owner' \in [Projects -> Users \cup {None}]
      /\ \A q \in Projects : Live(q) => Live(q)'
  BY <1>0, <1>1, GatewayConstants DEF RowsInv, RowsTyped, Live
<1>4. RowsInv'
  BY <1>0, <1>3 DEF RowsInv, RowsTyped, CommentsRefer, RowsRefer, AcceptedHasJoined
<1> QED BY <1>2, <1>4 DEF Inv

LEMMA DeleteRowStep ==
  ASSUME Inv, NEW s \in Slots, DeleteRow(s), comments' \subseteq comments,
         \A c \in comments' : Live(c.project)'
  PROVE  Inv'
<1> DEFINE p == task[s].project
<1>0. /\ TaskOK(task[s]) /\ task[s].pc = "deleteProject" /\ Ended(s) /\ RowsInv
      /\ UNCHANGED <<collaborators, requests, joined, told>>
  BY DEF DeleteRow, Inv, TasksInv, tables
<1>1. CASE \E r \in collaborators : r.project = p
  <2>1. UNCHANGED <<owner, invitations>>
    BY <1>1 DEF DeleteRow, tables
  <2> QED BY <1>0, <2>1, QuietEnd
<1>2. CASE ~\E r \in collaborators : r.project = p
  <2>1. owner' = [owner EXCEPT ![p] = None] /\ invitations' = Cascaded(p)
    BY <1>2 DEF DeleteRow
  <2>2. invitations' \subseteq invitations /\ \A v \in invitations' : v.project # p
    BY <2>1 DEF Cascaded
  <2>3. TasksInv' /\ NamesInv' /\ AcceptingJoined'
    BY <1>0, <2>2, TaskEnds DEF RowNamed
  <2>4. /\ owner' \in [Projects -> Users \cup {None}]
        /\ \A q \in Projects : q # p => (Live(q) => Live(q)')
    BY <1>0, <2>1 DEF RowsInv, RowsTyped, Live
  <2>5. RowsInv'
    BY <1>0, <1>2, <2>2, <2>4 DEF RowsInv, RowsTyped, CommentsRefer, RowsRefer, AcceptedHasJoined
  <2> QED BY <2>3, <2>5 DEF Inv
<1> QED BY <1>1, <1>2

LEMMA InsertCollaboratorStep ==
  ASSUME Inv, NEW s \in Slots, InsertCollaborator(s), comments' \subseteq comments
  PROVE  Inv'
<1> DEFINE t == task[s]
           r == [id |-> t.id, project |-> t.project, user |-> t.user, role |-> t.role,
                 via |-> t.invitation]
<1>0. /\ TaskOK(t) /\ t.pc = "insertCollaborator" /\ RowsInv /\ TasksInv /\ NamesInv /\ AcceptingJoined
      /\ UNCHANGED <<owner, invitations, requests, told>>
  BY DEF InsertCollaborator, Inv, TasksInv
<1>1. t.project \in Projects
  BY <1>0 DEF TaskOK, AboutProject, PCs
<1>2. CASE ~Live(t.project)
  <2>1. Ended(s) /\ UNCHANGED <<collaborators, joined>>
    BY <1>2 DEF InsertCollaborator
  <2> QED BY <1>0, <2>1, QuietEnd
<1>3. CASE Live(t.project)
  <2>1. /\ collaborators' = collaborators \cup {r} /\ GoOn(s)
        /\ joined' = IF t.kind = "accept" THEN joined \cup {t.invitation} ELSE joined
    BY <1>3 DEF InsertCollaborator
  <2>2. joined \subseteq joined' /\ (t.kind = "accept" => t.invitation \in joined')
    BY <2>1
  <2>3. task[s].pc \in PCs \ {"idle", "findInvitation", "insertInvitation"}
    BY <1>0 DEF PCs
  <2>4. PICK u : /\ task' = [task EXCEPT ![s] = u]
                 /\ TaskOK(u) /\ (u.pc = "idle" \/ u.id = task[s].id)
                 /\ Before(u) => Before(task[s]) /\ u.id = task[s].id
                 /\ \A m : Holds(u, m) => Holds(task[s], m)
                 /\ Accepting(u) => /\ u.invitation = task[s].invitation
                                    /\ \/ Accepting(task[s])
                                       \/ task[s].pc = "insertCollaborator" /\ task[s].kind = "accept"
    BY <1>0, <2>1, <2>3, GoOnOrEnd
  <2>5. TasksInv' /\ \A x \in Slots : task'[x] = IF x = s THEN u ELSE task[x]
    BY <1>0, <2>4, TaskReplaced
  <2>6. (\A n : RowNamed(n)' => Named(n)) /\ \A n : Holds(u, n) => Named(n)
    BY <1>0, <2>4 DEF Named, RowNamed
  <2>7. NamesInv'
    BY <1>0, <2>4, <2>5, <2>6, NamesKept
  <2>8. AcceptingJoined'
    <3>1. Accepting(u) => u.invitation \in joined'
      BY <1>0, <2>2, <2>4 DEF AcceptingJoined
    <3> QED BY <1>0, <2>2, <2>5, <3>1, JoinedKept
  <2>9. RowsInv'
    <3>1. \A x \in collaborators' : x.project \in Projects /\ Live(x.project)
      BY <1>0, <1>1, <1>3, <2>1 DEF RowsInv, RowsTyped, CommentsRefer, RowsRefer
    <3> QED BY <1>0, <2>2, <3>1 DEF RowsInv, RowsTyped, CommentsRefer, RowsRefer, AcceptedHasJoined, Live
  <2> QED BY <2>5, <2>7, <2>8, <2>9 DEF Inv
<1> QED BY <1>2, <1>3

LEMMA InsertInvitationStep ==
  ASSUME Inv, NEW s \in Slots, InsertInvitation(s), comments' \subseteq comments
  PROVE  Inv'
<1> DEFINE t == task[s]
           v == [id |-> t.id, project |-> t.project, inviter |-> t.caller,
                 invitee |-> t.user, role |-> t.role, status |-> "pending"]
           u == RequestAt("tell", t.kind, t.id, t.caller, t.project, t.user, t.role, t.id, t.caller)
<1>0. /\ TaskOK(t) /\ t.pc = "insertInvitation" /\ RowsInv /\ TasksInv /\ NamesInv /\ AcceptingJoined
      /\ UNCHANGED <<owner, collaborators, requests, joined, told>>
  BY DEF InsertInvitation, Inv, TasksInv
<1>1. t.project \in Projects /\ t.kind = "send" /\ t.caller \in Users
  BY <1>0 DEF TaskOK, AboutProject, PCs, Fits
<1>2. CASE ~Live(t.project)
  <2>1. Ended(s) /\ UNCHANGED invitations
    BY <1>2 DEF InsertInvitation
  <2> QED BY <1>0, <2>1, QuietEnd
<1>3. CASE Live(t.project)
  <2>1. invitations' = invitations \cup {v} /\ task' = [task EXCEPT ![s] = u]
    BY <1>3 DEF InsertInvitation
  <2>2. /\ u.pc = "tell" /\ u.kind = "send" /\ u.id = t.id /\ u.caller = t.caller
        /\ u.project = t.project
    BY <1>1 DEF RequestAt
  <2>3. v.id = t.id /\ v.project = t.project /\ v.status = "pending"
    OBVIOUS
  <2>4. \A w \in invitations : w.id # t.id
    <3>1. Before(t)
      BY <1>0, <1>1 DEF Before
    <3> QED BY <1>0, <3>1 DEF NamesInv, Named, RowNamed
  <2> HIDE DEF u, v
  <2>5. TaskOK(u) /\ ~Before(u) /\ ~Accepting(u) /\ \A n : ~Holds(u, n)
    BY <1>1, <2>2 DEF TaskOK, Fits, PCs, CommentPCs, Before, Accepting, Holds
  <2>6. TasksInv' /\ \A x \in Slots : task'[x] = IF x = s THEN u ELSE task[x]
    BY <1>0, <2>1, <2>2, <2>5, TaskReplaced
  <2>7. \A n : RowNamed(n)' => RowNamed(n) \/ n = task[s].id
    BY <2>1, <2>3 DEF RowNamed
  <2>8. NamesInv'
    BY <1>0, <2>5, <2>6, <2>7, NamesKept
  <2>9. AcceptingJoined'
    BY <1>0, <2>5, <2>6, JoinedKept
  <2>10. RowsInv'
    BY <1>0, <1>1, <1>3, <2>1, <2>3, <2>4
       DEF RowsInv, RowsTyped, CommentsRefer, RowsRefer, AcceptedHasJoined, Live
  <2> QED BY <2>6, <2>8, <2>9, <2>10 DEF Inv
<1> QED BY <1>2, <1>3

LEMMA MarkStep ==
  ASSUME Inv, NEW s \in Slots, Mark(s), comments' \subseteq comments
  PROVE  Inv'
<1> DEFINE t == task[s]
           v == Marked(t)
<1>0. /\ TaskOK(t) /\ t.pc = "mark" /\ RowsInv /\ TasksInv /\ NamesInv /\ AcceptingJoined
      /\ UNCHANGED <<owner, collaborators, requests, joined, told>>
  BY DEF Mark, Inv, TasksInv
<1>1. t.project \in Projects
  BY <1>0 DEF TaskOK, AboutProject, PCs
<1>2. CASE ~Live(t.project)
  <2>1. Ended(s) /\ UNCHANGED invitations
    BY <1>2 DEF Mark
  <2> QED BY <1>0, <2>1, QuietEnd
<1>3. CASE Live(t.project)
  <2>1. invitations' = {w \in invitations : w.id # t.invitation} \cup {v} /\ GoOn(s)
    BY <1>3 DEF Mark
  <2>2. v.id = t.invitation /\ v.project = t.project /\ (v.status = "accepted" => t.kind = "accept")
    BY DEF Marked, Copy
  <2>3. v.status = "accepted" => v.id \in joined
    BY <1>0, <2>2 DEF AcceptingJoined, Accepting
  <2>4. task[s].pc \in PCs \ {"idle", "findInvitation", "insertInvitation"}
    BY <1>0 DEF PCs
  <2>5. PICK u : /\ task' = [task EXCEPT ![s] = u]
                 /\ TaskOK(u) /\ (u.pc = "idle" \/ u.id = task[s].id)
                 /\ Before(u) => Before(task[s]) /\ u.id = task[s].id
                 /\ \A m : Holds(u, m) => Holds(task[s], m)
                 /\ Accepting(u) => /\ u.invitation = task[s].invitation
                                    /\ \/ Accepting(task[s])
                                       \/ task[s].pc = "insertCollaborator" /\ task[s].kind = "accept"
    BY <1>0, <2>1, <2>4, GoOnOrEnd
  <2> HIDE DEF v
  <2>6. TasksInv' /\ \A x \in Slots : task'[x] = IF x = s THEN u ELSE task[x]
    BY <1>0, <2>5, TaskReplaced
  <2>7. Holds(task[s], v.id)
    BY <1>0, <2>2 DEF Holds
  <2>8. (\A n : RowNamed(n)' => Named(n)) /\ \A n : Holds(u, n) => Named(n)
    BY <1>0, <2>1, <2>5, <2>7 DEF Named, RowNamed
  <2>9. NamesInv'
    BY <1>0, <2>5, <2>6, <2>8, NamesKept
  <2>10. AcceptingJoined'
    <3>1. Accepting(u) => u.invitation \in joined'
      BY <1>0, <2>5 DEF AcceptingJoined
    <3> QED BY <1>0, <2>6, <3>1, JoinedKept
  <2>11. RowsInv'
    BY <1>0, <1>1, <1>3, <2>1, <2>2, <2>3
       DEF RowsInv, RowsTyped, CommentsRefer, RowsRefer, AcceptedHasJoined, Live
  <2> QED BY <2>6, <2>9, <2>10, <2>11 DEF Inv
<1> QED BY <1>2, <1>3

LEMMA FindInvitationStep ==
  ASSUME Inv, NEW s \in Slots, FindInvitation(s), comments' \subseteq comments
  PROVE  Inv'
<1> DEFINE c == task[s]
<1>0. /\ TaskOK(c) /\ c.pc = "findInvitation" /\ RowsInv /\ TasksInv
      /\ UNCHANGED <<owner, collaborators, invitations, requests, joined, told>>
  BY DEF FindInvitation, Inv, TasksInv, tables
<1>1. CASE Ended(s)
  BY <1>0, <1>1, QuietEnd
<1>2. CASE ~Ended(s)
  <2>1. PICK v \in invitations : task' = [task EXCEPT ![s] = At(Found(c, v), After(c))]
    BY <1>2 DEF FindInvitation
  <2> DEFINE t == At(Found(c, v), After(c))
  <2>2. /\ t.pc = After(c) /\ t.kind = c.kind /\ t.id = c.id /\ t.caller = c.caller
        /\ t.project = v.project /\ t.invitation = v.id
    BY DEF At, Found, RequestAt
  <2>3. c.kind \in {"accept", "reject", "cancel"} /\ c.caller \in Users
    BY <1>0 DEF TaskOK, Fits, PCs
  <2>4. After(c) = CASE c.kind = "accept" -> "findCollaborator"
                     [] c.kind = "reject" -> "mark"
                     [] c.kind = "cancel" -> "deleteInvitation"
    BY <1>0 DEF After
  <2>5. /\ c.kind = "accept" => After(c) = "findCollaborator"
        /\ c.kind = "reject" => After(c) = "mark"
        /\ c.kind = "cancel" => After(c) = "deleteInvitation"
    BY <2>4
  <2>6. v.project \in Projects /\ Named(v.id)
    BY <1>0 DEF RowsInv, RowsTyped, Named, RowNamed
  <2> HIDE DEF t
  <2>7. TaskOK(t) /\ ~Before(t) /\ ~Accepting(t)
    BY <2>2, <2>3, <2>5, <2>6 DEF TaskOK, Fits, PCs, CommentPCs, AboutProject, Before, Accepting
  <2>8. \A n : Holds(t, n) => Named(n)
    BY <2>2, <2>3, <2>5, <2>6 DEF Holds
  <2>9. task' = [task EXCEPT ![s] = t]
    BY <2>1 DEF t
  <2> QED BY <1>0, <2>2, <2>7, <2>8, <2>9, QuietStep
<1> QED BY <1>1, <1>2

LEMMA TellStep ==
  ASSUME Inv, NEW s \in Slots, Tell(s) \/ DeleteInvitation(s), comments' \subseteq comments
  PROVE  Inv'
<1> DEFINE t == task[s]
<1>0. /\ TaskOK(t) /\ t.pc \in {"tell", "deleteInvitation"} /\ Ended(s)
      /\ told' = told \cup Notifications(t) /\ invitations' \subseteq invitations
      /\ UNCHANGED <<owner, collaborators, requests, joined>>
  BY DEF Tell, DeleteInvitation, Inv, TasksInv, tables
<1>1. \A n \in Notifications(t) : n.invitation = t.invitation /\ n.event = Event(t)
  BY DEF Notifications
<1>2. /\ t.pc = "tell" => t.kind \in {"send", "accept", "reject"}
      /\ t.pc = "deleteInvitation" => t.kind = "cancel"
  BY <1>0 DEF TaskOK, Fits
<1>3. Event(t) = "accepted" => t.kind = "accept" /\ t.pc = "tell"
  BY <1>0, <1>2 DEF Event
<1>4. Event(t) = "accepted" => t.invitation \in joined'
  BY <1>0, <1>3 DEF Inv, AcceptingJoined, Accepting
<1> QED BY <1>0, <1>1, <1>4, QuietEnd

LEMMA QueryStep ==
  ASSUME Inv, NEW s \in Slots, Query(s) \/ WriteFails(s), comments' \subseteq comments,
         \A c \in comments' : Live(c.project)'
  PROVE  Inv'
<1>1. CASE FindName(s) \/ Permit(s) \/ Owns(s) \/ FindCollaborator(s) \/ FindPending(s)
  <2>1. /\ task[s].pc \in {"findName", "permit", "owns", "findCollaborator", "findPending"}
        /\ GoOn(s) \/ Ended(s)
        /\ UNCHANGED <<owner, collaborators, invitations, requests, joined, told>>
    BY <1>1 DEF FindName, Permit, Owns, FindCollaborator, FindPending, Check, tables
  <2>2. task[s].pc \in PCs \ {"idle", "findInvitation", "insertInvitation", "insertCollaborator"}
    BY <2>1 DEF PCs
  <2> QED BY <2>1, <2>2, QuietGoOnOrEnd
<1>2. CASE DeleteCollaborator(s) \/ WriteFails(s)
  <2>1. /\ task[s].pc # "idle" /\ Ended(s) /\ collaborators' \subseteq collaborators
        /\ UNCHANGED <<owner, invitations, requests, joined, told>>
    BY <1>2 DEF DeleteCollaborator, WriteFails, tables
  <2> QED BY <2>1, QuietEnd
<1> QED BY <1>1, <1>2, FindInvitationStep, InsertProjectStep, DeleteRowStep, InsertCollaboratorStep,
           InsertInvitationStep, MarkStep, TellStep DEF Query

---------------------------------------------------------------------------
(***************************************************************************)
(* Steps of requests about comments.                                       *)
(***************************************************************************)

LEMMA MayCommentStep ==
  ASSUME Inv, NEW s \in Slots, MayComment(s)
  PROVE  Inv'
<1> DEFINE c == task[s]
<1>0. /\ TaskOK(c) /\ c.pc = "mayComment"
      /\ UNCHANGED <<owner, collaborators, invitations, requests, joined, told, comments>>
  BY DEF MayComment, Inv, TasksInv, tables, commentVars
<1>1. DOMAIN c = CommentFields /\ c.kind \in {"comment", "move"} /\ c.caller \in Users /\ c.project \in Projects
  BY <1>0 DEF TaskOK, Fits, CommentPCs, AboutProject
<1>2. PICK role :
        task' = [task EXCEPT ![s] =
          IF role = None THEN NoRequest
          ELSE Going(c, IF c.kind = "comment" THEN "insertComment" ELSE "findComment")]
  BY DEF MayComment
<1>3. \/ task' = [task EXCEPT ![s] = NoRequest]
      \/ c.kind = "comment" /\ task' = [task EXCEPT ![s] = Going(c, "insertComment")]
      \/ c.kind = "move" /\ task' = [task EXCEPT ![s] = Going(c, "findComment")]
  <2> HIDE DEF c
  <2>1. CASE role = None
    BY <1>2, <2>1
  <2>2. CASE role # None /\ c.kind = "comment"
    BY <1>2, <2>2
  <2>3. CASE role # None /\ c.kind = "move"
    BY <1>2, <2>3
  <2> QED BY <1>1, <2>1, <2>2, <2>3
<1>4. ASSUME NEW pc \in {"insertComment", "findComment"}, task' = [task EXCEPT ![s] = Going(c, pc)],
             c.kind = IF pc = "insertComment" THEN "comment" ELSE "move"
      PROVE  Inv'
  <2> DEFINE t == Going(c, pc)
  <2>1. /\ t.pc = pc /\ t.kind = c.kind /\ t.id = c.id /\ t.caller = c.caller
        /\ t.project = c.project /\ DOMAIN t = CommentFields
    BY <1>1 DEF Going, CommentFields
  <2> HIDE DEF t
  <2>2. TaskOK(t)
    BY <1>1, <1>4, <2>1 DEF TaskOK, Fits, CommentPCs, PCs, AboutProject
  <2>3. ~Accepting(t) /\ (\A n : ~Holds(t, n)) /\ (Before(t) => Before(c))
    BY <1>0, <1>4, <2>1 DEF Accepting, Holds, Before
  <2>4. task' = [task EXCEPT ![s] = t]
    BY <1>4 DEF t
  <2> QED BY <1>0, <2>1, <2>2, <2>3, <2>4, QuietStep
<1>5. CASE task' = [task EXCEPT ![s] = NoRequest]
  BY <1>0, <1>5, QuietEnd DEF Ended
<1> QED BY <1>3, <1>4, <1>5

LEMMA InsertCommentStep ==
  ASSUME Inv, NEW s \in Slots, InsertComment(s)
  PROVE  Inv'
<1> DEFINE c == task[s]
           row == [id |-> c.id, project |-> c.project, author |-> c.caller, place |-> c.id]
           t == [Going(c, "findMembers") EXCEPT !.row = row]
<1>0. /\ TaskOK(c) /\ c.pc = "insertComment" /\ RowsInv /\ TasksInv /\ NamesInv /\ AcceptingJoined
      /\ UNCHANGED <<owner, collaborators, invitations, requests, joined, told>>
  BY DEF InsertComment, Inv, TasksInv, tables
<1>1. DOMAIN c = CommentFields /\ c.kind = "comment" /\ c.caller \in Users /\ c.project \in Projects
  BY <1>0 DEF TaskOK, Fits, CommentPCs, AboutProject
<1>2. CASE ~Live(c.project)
  <2>1. Ended(s) /\ UNCHANGED comments
    BY <1>2 DEF InsertComment
  <2> QED BY <1>0, <2>1, QuietEnd
<1>3. CASE Live(c.project)
  <2>1. comments' = comments \cup {row} /\ task' = [task EXCEPT ![s] = t]
    BY <1>3 DEF InsertComment
  <2>2. row.id = c.id /\ row.project = c.project /\ DOMAIN row = RowFields
    BY DEF RowFields
  <2> HIDE DEF row
  <2>3. /\ t.pc = "findMembers" /\ t.kind = c.kind /\ t.id = c.id /\ t.caller = c.caller
        /\ DOMAIN t = CommentFields
    BY <1>1 DEF Going, CommentFields
  <2> HIDE DEF t
  <2>4. TaskOK(t) /\ ~Before(t) /\ ~Accepting(t) /\ \A n : ~Holds(t, n)
    BY <1>1, <2>3 DEF TaskOK, Fits, PCs, CommentPCs, AboutProject, Before, Accepting, Holds
  <2>5. \A d \in comments : d.id # c.id
    <3>1. Before(c)
      BY <1>0, <1>1 DEF Before
    <3> QED BY <1>0, <3>1 DEF NamesInv, Named, RowNamed
  <2>6. TasksInv' /\ \A x \in Slots : task'[x] = IF x = s THEN t ELSE task[x]
    BY <1>0, <2>1, <2>3, <2>4, TaskReplaced
  <2>7. \A n : RowNamed(n)' => RowNamed(n) \/ n = task[s].id
    BY <1>0, <2>1, <2>2 DEF RowNamed
  <2>8. NamesInv'
    BY <1>0, <2>4, <2>6, <2>7, NamesKept
  <2>9. AcceptingJoined'
    BY <1>0, <2>4, <2>6, JoinedKept
  <2>10. RowsInv'
    BY <1>0, <1>1, <1>3, <2>1, <2>2, <2>5
       DEF RowsInv, RowsTyped, CommentsRefer, RowsRefer, AcceptedHasJoined, Live
  <2> QED BY <2>6, <2>8, <2>9, <2>10 DEF Inv
<1> QED BY <1>2, <1>3

LEMMA FindCommentStep ==
  ASSUME Inv, NEW s \in Slots, FindComment(s)
  PROVE  Inv'
<1> DEFINE c == task[s]
           next == IF c.kind = "move" THEN "saveComment" ELSE "removeComment"
<1>0. /\ TaskOK(c) /\ c.pc = "findComment" /\ RowsInv
      /\ UNCHANGED <<owner, collaborators, invitations, requests, joined, told, comments>>
  BY DEF FindComment, Inv, TasksInv, tables, commentVars
<1>1. DOMAIN c = CommentFields /\ c.kind \in {"move", "uncomment"} /\ c.caller \in Users
  BY <1>0 DEF TaskOK, Fits, CommentPCs
<1>2. CASE Ended(s)
  BY <1>0, <1>2, QuietEnd
<1>3. CASE ~Ended(s)
  <2>1. PICK d \in comments : task' = [task EXCEPT ![s] = [Going(c, next) EXCEPT !.row = d]]
    BY <1>3 DEF FindComment
  <2> DEFINE t == [Going(c, next) EXCEPT !.row = d]
  <2>2. next \in {"saveComment", "removeComment"} /\ (next = "saveComment" <=> c.kind = "move")
    OBVIOUS
  <2> HIDE DEF next
  <2>3. /\ t.pc = next /\ t.kind = c.kind /\ t.id = c.id /\ t.caller = c.caller /\ t.row = d
        /\ DOMAIN t = CommentFields
    BY <1>1 DEF Going, CommentFields
  <2>4. d.project \in Projects /\ DOMAIN d = RowFields /\ Named(d.id)
    BY <1>0 DEF RowsInv, RowsTyped, Named, RowNamed
  <2> HIDE DEF t
  <2>5. TaskOK(t) /\ ~Before(t) /\ ~Accepting(t)
    BY <1>1, <2>2, <2>3, <2>4 DEF TaskOK, Fits, PCs, CommentPCs, AboutProject, Before, Accepting
  <2>6. \A n : Holds(t, n) => Named(n)
    BY <2>2, <2>3, <2>4 DEF Holds
  <2>7. task' = [task EXCEPT ![s] = t]
    BY <2>1 DEF t
  <2> QED BY <1>0, <2>3, <2>5, <2>6, <2>7, QuietStep
<1> QED BY <1>2, <1>3

LEMMA SaveCommentStep ==
  ASSUME Inv, NEW s \in Slots, SaveComment(s)
  PROVE  Inv'
<1> DEFINE c == task[s]
           row == [c.row EXCEPT !.place = c.id]
           t == [Going(c, "findMembers") EXCEPT !.row = row]
<1>0. /\ TaskOK(c) /\ c.pc = "saveComment" /\ RowsInv /\ TasksInv /\ NamesInv /\ AcceptingJoined
      /\ UNCHANGED <<owner, collaborators, invitations, requests, joined, told>>
  BY DEF SaveComment, Inv, TasksInv, tables
<1>1. /\ DOMAIN c = CommentFields /\ c.kind = "move" /\ c.caller \in Users
      /\ c.row.project \in Projects /\ DOMAIN c.row = RowFields
  BY <1>0 DEF TaskOK, Fits, CommentPCs
<1>2. row.id = c.row.id /\ row.project = c.row.project /\ DOMAIN row = RowFields
  BY <1>1 DEF RowFields
<1>3. CASE ~Live(row.project)
  <2>1. Ended(s) /\ UNCHANGED comments
    BY <1>3 DEF SaveComment
  <2> QED BY <1>0, <2>1, QuietEnd
<1>4. CASE Live(row.project)
  <2>1. /\ comments' = {d \in comments : d.id # row.id} \cup {row}
        /\ task' = [task EXCEPT ![s] = t]
    BY <1>4 DEF SaveComment
  <2> HIDE DEF row
  <2>2. /\ t.pc = "findMembers" /\ t.kind = c.kind /\ t.id = c.id /\ t.caller = c.caller
        /\ DOMAIN t = CommentFields
    BY <1>1 DEF Going, CommentFields
  <2> HIDE DEF t
  <2>3. TaskOK(t) /\ ~Before(t) /\ ~Accepting(t) /\ \A n : ~Holds(t, n)
    BY <1>1, <2>2 DEF TaskOK, Fits, PCs, CommentPCs, AboutProject, Before, Accepting, Holds
  <2>4. TasksInv' /\ \A x \in Slots : task'[x] = IF x = s THEN t ELSE task[x]
    BY <1>0, <2>1, <2>2, <2>3, TaskReplaced
  <2>5. Holds(task[s], row.id)
    BY <1>0, <1>2 DEF Holds
  <2>6. \A n : RowNamed(n)' => Named(n)
    BY <1>0, <2>1, <2>5 DEF Named, RowNamed
  <2>7. NamesInv'
    BY <1>0, <2>3, <2>4, <2>6, NamesKept
  <2>8. AcceptingJoined'
    BY <1>0, <2>3, <2>4, JoinedKept
  <2>9. RowsInv'
    BY <1>0, <1>1, <1>2, <1>4, <2>1
       DEF RowsInv, RowsTyped, CommentsRefer, RowsRefer, AcceptedHasJoined, Live
  <2> QED BY <2>4, <2>7, <2>8, <2>9 DEF Inv
<1> QED BY <1>3, <1>4

LEMMA FindMembersStep ==
  ASSUME Inv, NEW s \in Slots, FindMembers(s)
  PROVE  Inv'
<1> DEFINE c == task[s]
           b == \E r \in collaborators : r.project = c.project
           t == [Going(c, "findOwner") EXCEPT !.members = b]
<1>0. /\ TaskOK(c) /\ c.pc = "findMembers"
      /\ UNCHANGED <<owner, collaborators, invitations, requests, joined, told, comments>>
      /\ Ended(s) \/ (c.kind # "comment" /\ task' = [task EXCEPT ![s] = t])
  BY DEF FindMembers, Inv, TasksInv, tables
<1>1. DOMAIN c = CommentFields /\ c.kind \in {"comment", "move"} /\ c.caller \in Users
  BY <1>0 DEF TaskOK, Fits, CommentPCs
<1>2. CASE Ended(s)
  BY <1>0, <1>2, QuietEnd
<1>3. CASE task' = [task EXCEPT ![s] = t]
  <2> HIDE DEF b
  <2>1. /\ t.pc = "findOwner" /\ t.kind = c.kind /\ t.id = c.id /\ t.caller = c.caller
        /\ DOMAIN t = CommentFields
    BY <1>1 DEF Going, CommentFields
  <2> HIDE DEF t
  <2>2. TaskOK(t) /\ ~Before(t) /\ ~Accepting(t) /\ \A n : ~Holds(t, n)
    BY <1>1, <2>1 DEF TaskOK, Fits, PCs, CommentPCs, AboutProject, Before, Accepting, Holds
  <2> QED BY <1>0, <1>3, <2>1, <2>2, QuietStep
<1> QED BY <1>0, <1>2, <1>3

LEMMA CommentQueryStep ==
  ASSUME Inv, NEW s \in Slots, CommentQuery(s)
  PROVE  Inv'
<1>1. CASE FindOwner(s) \/ RemoveComment(s) \/ CommentFails(s)
  <2>1. /\ task[s].pc # "idle" /\ Ended(s) /\ comments' \subseteq comments
        /\ UNCHANGED <<owner, collaborators, invitations, requests, joined, told>>
    BY <1>1 DEF FindOwner, RemoveComment, CommentFails, CommentPCs, tables, commentVars
  <2> QED BY <2>1, QuietEnd
<1> QED BY <1>1, MayCommentStep, InsertCommentStep, FindCommentStep, SaveCommentStep,
           FindMembersStep DEF CommentQuery

LEMMA UnchangedStep ==
  ASSUME Inv, UNCHANGED <<tables, task, requests, joined, told>>, comments' \subseteq comments
  PROVE  Inv'
<1>0. TasksInv /\ NamesInv /\ AcceptingJoined /\ RowsInv
      /\ UNCHANGED <<owner, collaborators, invitations, task, requests, joined, told>>
  BY DEF Inv, tables
<1>1. TasksInv' /\ AcceptingJoined'
  BY <1>0 DEF TasksInv, AcceptingJoined
<1>2. \A n : Named(n)' => Named(n)
  BY <1>0 DEF Named, RowNamed
<1>3. NamesInv'
  BY <1>0, <1>2 DEF NamesInv
<1>4. RowsInv'
  BY <1>0, RowsKept
<1> QED BY <1>1, <1>3, <1>4 DEF Inv

LEMMA InvStep == Inv /\ [CommentsNext]_<<vars, commentVars>> => Inv'
<1> SUFFICES ASSUME Inv, [CommentsNext]_<<vars, commentVars>> PROVE Inv'
  OBVIOUS
<1>1. CASE MembershipStep
  <2>1. comments' \subseteq comments /\ \A c \in comments' : Live(c.project)'
    BY <1>1 DEF MembershipStep, Kept, Live
  <2>2. Next
    BY <1>1 DEF MembershipStep
  <2>3. CASE Gateway
    BY <2>1, <2>3, UnchangedStep DEF Gateway
  <2>4. CASE Request
    BY <2>1, <2>4, RequestArrives, ArrivesStep DEF Inv
  <2>5. ASSUME NEW s \in Slots, Query(s) \/ WriteFails(s)
        PROVE  Inv'
    BY <2>1, <2>5, QueryStep
  <2> QED BY <2>2, <2>3, <2>4, <2>5 DEF Next
<1>2. CASE CommentRequest
  BY <1>2, CommentRequestArrives, ArrivesStep DEF Inv, commentVars
<1>3. ASSUME NEW s \in Slots, CommentQuery(s)
      PROVE  Inv'
  BY <1>3, CommentQueryStep
<1>4. CASE UNCHANGED <<vars, commentVars>>
  BY <1>4, UnchangedStep DEF vars, commentVars
<1> QED BY <1>1, <1>2, <1>3, <1>4 DEF CommentsNext

LEMMA Invariance == CommentsSpec => []Inv
BY InvInit, InvStep, PTL DEF CommentsSpec

---------------------------------------------------------------------------
(***************************************************************************)
(* Answers: an invitation through which somebody has joined does not stay  *)
(* pending.                                                                *)
(***************************************************************************)

\* Request t has a copy of invitation n.
HasCopy(t, n) == Holds(t, n) /\ t.pc # "saveComment"

\* A row or a copy of invitation n is about project p.
About(n, p) ==
  \/ \E v \in invitations : v.id = n /\ v.project = p
  \/ \E s \in Slots : HasCopy(task[s], n) /\ task[s].project = p

CopiesAgree == \A n, p, q : About(n, p) /\ About(n, q) => p = q

\* Nothing is yet to be inserted with number n.
Given(n) == n \in 1..requests /\ \A s \in Slots : Before(task[s]) => task[s].id # n

Answering ==
  /\ failures \in Nat
  /\ \A n \in joined : Given(n)
  /\ CopiesAgree
  /\ JoinedIsAnswered

LEMMA AnsweringInit == CommentsInit => Answering
<1> SUFFICES ASSUME CommentsInit PROVE Answering
  OBVIOUS
<1>1. /\ task = [s \in Slots |-> NoRequest] /\ invitations = {} /\ joined = {} /\ failures = 0
  BY DEF CommentsInit, Init
<1>2. \A n, p : ~About(n, p)
  BY <1>1, NoRequestOK DEF About, HasCopy
<1> QED BY <1>1, <1>2 DEF Answering, CopiesAgree, JoinedIsAnswered

LEMMA GivenKept ==
  ASSUME NEW s \in Slots, NEW t, \A x \in Slots : task'[x] = IF x = s THEN t ELSE task[x],
         requests \in Nat, requests' \in {requests, requests + 1},
         Before(t) => \/ Before(task[s]) /\ t.id = task[s].id
                      \/ t.id = requests + 1
  PROVE  \A n : Given(n) => Given(n)'
<1> TAKE n
<1> HAVE Given(n)
<1>1. n \in 1..requests' /\ n # requests + 1
  BY DEF Given
<1>2. ASSUME NEW x \in Slots, Before(task'[x])
      PROVE  task'[x].id # n
  <2>1. CASE x = s
    BY <1>1, <1>2, <2>1 DEF Given
  <2>2. CASE x # s
    <3>1. Before(task[x]) /\ task'[x] = task[x]
      BY <1>2, <2>2
    <3> QED BY <3>1 DEF Given
  <2> QED BY <2>1, <2>2
<1>3. Given(n)' <=> n \in 1..requests' /\ \A x \in Slots : Before(task'[x]) => task'[x].id # n
  BY DEF Given, Before
<1> QED BY <1>1, <1>2, <1>3

LEMMA NamedGiven ==
  ASSUME Inv
  PROVE  /\ \A n : Named(n) => Given(n)
         /\ \A n, p : About(n, p) => Given(n)
<1>1. \A n : Named(n) => Given(n)
  BY DEF Inv, NamesInv, Given
<1>2. \A n, p : About(n, p) => Named(n)
  BY DEF About, Named, RowNamed, HasCopy
<1> QED BY <1>1, <1>2

\* The request in slot s becomes t: what must be true of that.
LEMMA AnsweringKept ==
  ASSUME Inv, Answering, NEW s \in Slots, NEW t,
         \A x \in Slots : task'[x] = IF x = s THEN t ELSE task[x],
         requests' = requests,
         Before(t) => Before(task[s]) /\ t.id = task[s].id,
         \A n : HasCopy(t, n) => About(n, t.project),
         \A w \in invitations' : \/ About(w.id, w.project)
                                 \/ /\ Before(task[s]) /\ w.id = task[s].id
                                    /\ w.project = task[s].project,
         \A w \in invitations' : \/ w.status # "pending"
                                 \/ w \in invitations
                                 \/ Before(task[s]) /\ w.id = task[s].id,
         \A n \in joined' : \/ n \in joined
                            \/ Named(n) /\ t.pc = "mark" /\ t.invitation = n,
         \/ /\ failures' = failures
            /\ task[s].pc = "mark" =>
                 \A w \in invitations' : w.status = "pending" => w.id # task[s].invitation
         \/ failures' = failures + 1
  PROVE  Answering'
<1>0. TasksInv /\ requests \in Nat /\ failures \in Nat
  BY DEF Inv, TasksInv, Answering
<1>1. \A n : Given(n) => Given(n)'
  BY <1>0, GivenKept
<1>2. \A n \in joined' : Given(n)'
  BY <1>1, NamedGiven DEF Answering
<1>3. ASSUME NEW n, NEW p, About(n, p)'
      PROVE  \/ About(n, p)
             \/ Before(task[s]) /\ n = task[s].id /\ p = task[s].project
  <2>1. CASE \E v \in invitations' : v.id = n /\ v.project = p
    BY <2>1
  <2>2. ASSUME NEW x \in Slots, HasCopy(task'[x], n), task'[x].project = p
        PROVE  About(n, p)
    <3>1. CASE x = s
      <4>1. HasCopy(t, n) /\ t.project = p
        BY <2>2, <3>1
      <4> QED BY <4>1
    <3>2. CASE x # s
      <4>1. HasCopy(task[x], n) /\ task[x].project = p
        BY <2>2, <3>2
      <4> QED BY <4>1 DEF About
    <3> QED BY <3>1, <3>2
  <2>3. \/ \E v \in invitations' : v.id = n /\ v.project = p
        \/ \E x \in Slots : HasCopy(task'[x], n) /\ task'[x].project = p
    BY <1>3 DEF About, HasCopy, Holds
  <2> QED BY <2>1, <2>2, <2>3
<1>4. ASSUME NEW n, NEW p, NEW q, About(n, p)', About(n, q)'
      PROVE  p = q
  <2>1. \/ About(n, p)
        \/ Before(task[s]) /\ n = task[s].id /\ p = task[s].project
    BY <1>3, <1>4
  <2>2. \/ About(n, q)
        \/ Before(task[s]) /\ n = task[s].id /\ q = task[s].project
    BY <1>3, <1>4
  <2>3. ~(Before(task[s]) /\ n = task[s].id /\ (About(n, p) \/ About(n, q)))
    BY NamedGiven DEF Given
  <2> QED BY <2>1, <2>2, <2>3 DEF Answering, CopiesAgree
<1>5. CopiesAgree'
  <2>1. CopiesAgree' <=> \A n, p, q : About(n, p)' /\ About(n, q)' => p = q
    BY DEF CopiesAgree, About, HasCopy, Holds
  <2> QED BY <1>4, <2>1
<1>6. JoinedIsAnswered'
  <2>1. SUFFICES ASSUME failures' = 0, NEW w \in invitations', w.status = "pending", w.id \in joined'
                 PROVE  \E x \in Slots : task'[x].pc = "mark" /\ task'[x].invitation = w.id
    BY DEF JoinedIsAnswered
  <2>2. /\ failures = 0
        /\ task[s].pc = "mark" => w.id # task[s].invitation
    BY <1>0, <2>1
  <2>3. CASE w.id \notin joined
    BY <2>1, <2>3
  <2>4. CASE w.id \in joined
    <3>1. w \in invitations
      BY <2>1, <2>4 DEF Answering, Given
    <3>2. PICK x \in Slots : task[x].pc = "mark" /\ task[x].invitation = w.id
      BY <2>1, <2>2, <2>4, <3>1 DEF Answering, JoinedIsAnswered
    <3>3. task'[x] = task[x]
      BY <2>2, <3>2
    <3> QED BY <3>2, <3>3
  <2> QED BY <2>3, <2>4
<1>7. failures' \in Nat
  BY <1>0
<1> QED BY <1>2, <1>5, <1>6, <1>7 DEF Answering

\* Request c goes on to its next query, where it is t, or ends.
Follows(c, t) ==
  \/ t = NoRequest
  \/ t = At(c, After(c)) /\ After(c) # "idle"

LEMMA GoOnTo ==
  ASSUME TasksInv, NEW s \in Slots, GoOn(s) \/ Ended(s)
  PROVE  \E t : /\ \A x \in Slots : task'[x] = IF x = s THEN t ELSE task[x]
                /\ Follows(task[s], t)
                /\ Ended(s) => t = NoRequest
                /\ ~Ended(s) => t = At(task[s], After(task[s])) /\ After(task[s]) # "idle"
<1>1. CASE Ended(s)
  <2>1. \A x \in Slots : task'[x] = IF x = s THEN NoRequest ELSE task[x]
    BY <1>1 DEF Ended, TasksInv
  <2> QED BY <1>1, <2>1 DEF Follows
<1>2. CASE GoOn(s) /\ ~Ended(s)
  <2>1. After(task[s]) # "idle" /\ task' = [task EXCEPT ![s] = At(task[s], After(task[s]))]
    BY <1>2 DEF GoOn
  <2>2. \A x \in Slots : task'[x] = IF x = s THEN At(task[s], After(task[s])) ELSE task[x]
    BY <2>1 DEF TasksInv
  <2> QED BY <1>2, <2>1, <2>2 DEF Follows
<1> QED BY <1>1, <1>2

LEMMA FollowsKeeps ==
  ASSUME NEW c, TaskOK(c), c.pc \in PCs \ {"idle", "findInvitation", "insertInvitation"},
         NEW t, Follows(c, t)
  PROVE  /\ t.pc # "idle" => /\ t.id = c.id /\ t.kind = c.kind /\ t.caller = c.caller
                             /\ t.project = c.project /\ t.user = c.user /\ t.role = c.role
                             /\ t.invitation = c.invitation /\ t.inviter = c.inviter
                             /\ t.pc = After(c)
         /\ Before(t) => Before(c) /\ t.id = c.id
         /\ \A n : HasCopy(t, n) => HasCopy(c, n) /\ t.project = c.project
         /\ t.pc = "mark" => c.pc = "insertCollaborator" /\ c.kind = "accept"
         /\ t.pc = "insertCollaborator" => c.pc = "findCollaborator"
         /\ t.pc = "tell" => c.pc = "mark"
         /\ t.pc # "deleteInvitation"
         /\ t.pc \notin CommentPCs
<1>1. CASE t = NoRequest
  BY <1>1, NoRequestOK DEF HasCopy, CommentPCs
<1>2. CASE t = At(c, After(c)) /\ After(c) # "idle"
  <2>1. /\ t.id = c.id /\ t.kind = c.kind /\ t.caller = c.caller
        /\ t.project = c.project /\ t.user = c.user /\ t.role = c.role
        /\ t.invitation = c.invitation /\ t.inviter = c.inviter /\ t.pc = After(c)
    BY <1>2 DEF At, RequestAt
  <2>2. /\ Before(t) => Before(c)
        /\ \A n : Holds(t, n) => Holds(c, n)
    BY <1>2, AtOK
  <2>3. c.pc # "saveComment"
    BY DEF PCs
  <2>4. NextQuery(c)
    BY AfterIs
  <2>5. /\ t.pc = "mark" => c.pc = "insertCollaborator" /\ c.kind = "accept"
        /\ t.pc = "insertCollaborator" => c.pc = "findCollaborator"
        /\ t.pc = "tell" => c.pc = "mark"
        /\ t.pc # "deleteInvitation"
        /\ t.pc \notin CommentPCs
    BY <2>1, <1>2, <2>4 DEF NextQuery, PCs, CommentPCs
  <2> QED BY <1>2, <2>1, <2>2, <2>3, <2>5 DEF HasCopy
<1> QED BY <1>1, <1>2 DEF Follows

\* The request in slot s goes on or ends, and no invitation is written.
LEMMA AnsweringQuiet ==
  ASSUME Inv, Answering, NEW s \in Slots, NEW t,
         \A x \in Slots : task'[x] = IF x = s THEN t ELSE task[x],
         requests' = requests,
         Before(t) => Before(task[s]) /\ t.id = task[s].id,
         \A n : HasCopy(t, n) => About(n, t.project),
         invitations' \subseteq invitations, joined' = joined,
         failures' = failures + 1 \/ (failures' = failures /\ task[s].pc # "mark")
  PROVE  Answering'
<1>1. \A w \in invitations' : w \in invitations /\ About(w.id, w.project)
  BY DEF About
<1> QED BY <1>1, AnsweringKept

LEMMA AnsweringArrives ==
  ASSUME Inv, Answering, NEW s \in Slots, NEW t, Arrives(s, t)
  PROVE  Answering'
<1>0. /\ requests \in Nat /\ task[s].pc = "idle"
      /\ \A x \in Slots : task'[x] = IF x = s THEN t ELSE task[x]
      /\ requests' = requests + 1 /\ t.id = requests + 1 /\ UNCHANGED <<invitations, joined, failures>>
      /\ \A n : ~Holds(t, n)
  BY DEF Inv, TasksInv, Arrives, tables, Holds
<1>1. \A n : Given(n) => Given(n)'
  BY <1>0, GivenKept
<1>2. ASSUME NEW n, NEW p, About(n, p)'
      PROVE  About(n, p)
  <2>1. CASE \E v \in invitations : v.id = n /\ v.project = p
    BY <2>1 DEF About
  <2>2. ASSUME NEW x \in Slots, HasCopy(task'[x], n), task'[x].project = p
        PROVE  About(n, p)
    <3>1. x # s
      BY <1>0, <2>2 DEF HasCopy
    <3>2. HasCopy(task[x], n) /\ task[x].project = p
      BY <1>0, <2>2, <3>1
    <3> QED BY <3>2 DEF About
  <2>3. \/ \E v \in invitations : v.id = n /\ v.project = p
        \/ \E x \in Slots : HasCopy(task'[x], n) /\ task'[x].project = p
    BY <1>0, <1>2 DEF About, HasCopy, Holds
  <2> QED BY <2>1, <2>2, <2>3
<1>3. CopiesAgree'
  <2>1. CopiesAgree' <=> \A n, p, q : About(n, p)' /\ About(n, q)' => p = q
    BY DEF CopiesAgree, About, HasCopy, Holds
  <2> QED BY <1>2, <2>1 DEF Answering, CopiesAgree
<1>4. JoinedIsAnswered'
  <2>1. SUFFICES ASSUME failures = 0, NEW w \in invitations, w.status = "pending", w.id \in joined
                 PROVE  \E x \in Slots : task'[x].pc = "mark" /\ task'[x].invitation = w.id
    BY <1>0 DEF JoinedIsAnswered
  <2>2. PICK x \in Slots : task[x].pc = "mark" /\ task[x].invitation = w.id
    BY <2>1 DEF Answering, JoinedIsAnswered
  <2>3. task'[x] = task[x]
    BY <1>0, <2>2
  <2> QED BY <2>2, <2>3
<1> QED BY <1>0, <1>1, <1>3, <1>4 DEF Answering

\* The request about comments in slot s becomes t, and leaves invitations alone.
CommentMoves(s, t) ==
  /\ \A x \in Slots : task'[x] = IF x = s THEN t ELSE task[x]
  /\ DOMAIN task' = DOMAIN task
  /\ task[s].pc \in CommentPCs
  /\ t.pc \in CommentPCs \cup {"idle"}
  /\ Before(t) => Before(task[s]) /\ t.id = task[s].id
  /\ UNCHANGED <<gateway, tables, requests, joined, told, overlapped>>
  /\ failures' = failures \/ (failures' = failures + 1 /\ failures < MaxFailures)

LEMMA CommentQueryMoves ==
  ASSUME Inv, NEW s \in Slots, CommentQuery(s)
  PROVE  \E t : CommentMoves(s, t)
<1> DEFINE c == task[s]
<1>0. DOMAIN task = Slots /\ TaskOK(c)
  BY DEF Inv, TasksInv
<1>1. /\ UNCHANGED <<gateway, tables, requests, joined, told, overlapped>>
      /\ failures' = failures \/ (failures' = failures + 1 /\ failures < MaxFailures)
      /\ c.pc \in CommentPCs
  BY DEF CommentQuery, MayComment, InsertComment, FindComment, SaveComment, FindMembers, FindOwner,
         RemoveComment, CommentFails, CommentPCs, tables
<1>2. DOMAIN c = CommentFields
  BY <1>0, <1>1 DEF TaskOK
<1>3. ASSUME NEW t, task' = [task EXCEPT ![s] = t], t.pc \in CommentPCs \cup {"idle"},
             Before(t) => Before(c) /\ t.id = c.id
      PROVE  \E u : CommentMoves(s, u)
  <2>1. (\A x \in Slots : task'[x] = IF x = s THEN t ELSE task[x]) /\ DOMAIN task' = DOMAIN task
    BY <1>0, <1>3
  <2>2. CommentMoves(s, t)
    BY <1>1, <1>3, <2>1 DEF CommentMoves
  <2> QED BY <2>2
<1>4. CASE Ended(s)
  <2>1. ASSUME NEW t, t = NoRequest
        PROVE  \E u : CommentMoves(s, u)
    BY <1>3, <1>4, <2>1, NoRequestOK DEF Ended
  <2> QED BY <2>1
<1>5. ASSUME NEW pc \in CommentPCs \ {"mayComment"}, NEW t,
             t.pc = pc, t.kind = c.kind, t.id = c.id, pc = "insertComment" => c.pc = "mayComment",
             task' = [task EXCEPT ![s] = t]
      PROVE  \E u : CommentMoves(s, u)
  <2>1. Before(t) => Before(c)
    BY <1>0, <1>5 DEF Before, CommentPCs
  <2> QED BY <1>3, <1>5, <2>1
<1>6. ASSUME NEW pc
      PROVE  Going(c, pc).pc = pc /\ Going(c, pc).kind = c.kind /\ Going(c, pc).id = c.id
  BY <1>2 DEF Going, CommentFields
<1>7. CASE MayComment(s)
  <2>1. PICK role :
          task' = [task EXCEPT ![s] =
            IF role = None THEN NoRequest
            ELSE Going(c, IF c.kind = "comment" THEN "insertComment" ELSE "findComment")]
    BY <1>7 DEF MayComment
  <2>2. CASE role = None
    BY <1>4, <2>1, <2>2 DEF Ended
  <2>3. CASE role # None
    <3> DEFINE pc == IF c.kind = "comment" THEN "insertComment" ELSE "findComment"
    <3>1. pc \in CommentPCs \ {"mayComment"} /\ c.pc = "mayComment"
      BY <1>7 DEF CommentPCs, MayComment
    <3>2. task' = [task EXCEPT ![s] = Going(c, pc)]
      BY <2>1, <2>3
    <3> DEFINE t == Going(c, pc)
    <3>3. pc = "insertComment" => c.pc = "mayComment"
      BY <3>1
    <3> HIDE DEF pc, c
    <3>4. t.pc = pc /\ t.kind = c.kind /\ t.id = c.id
      BY <1>6, <3>1
    <3> HIDE DEF t
    <3>5. task' = [task EXCEPT ![s] = t]
      BY <3>2 DEF t
    <3> QED BY <1>5, <3>1, <3>3, <3>4, <3>5
  <2> QED BY <2>2, <2>3
<1>8. CASE InsertComment(s) \/ FindComment(s) \/ SaveComment(s) \/ FindMembers(s)
  <2>1. \/ Ended(s)
        \/ \E r : task' = [task EXCEPT ![s] = [Going(c, "findMembers") EXCEPT !.row = r]]
        \/ \E r : task' = [task EXCEPT ![s] = [Going(c, "saveComment") EXCEPT !.row = r]]
        \/ \E r : task' = [task EXCEPT ![s] = [Going(c, "removeComment") EXCEPT !.row = r]]
        \/ \E r : task' = [task EXCEPT ![s] = [Going(c, "findOwner") EXCEPT !.members = r]]
    <3>1. CASE InsertComment(s)
      BY <3>1 DEF InsertComment
    <3>2. CASE SaveComment(s)
      BY <3>2 DEF SaveComment
    <3>3. CASE FindMembers(s)
      BY <3>3 DEF FindMembers
    <3>4. CASE FindComment(s) /\ c.kind = "move"
      BY <3>4 DEF FindComment
    <3>5. CASE FindComment(s) /\ c.kind # "move"
      BY <3>5 DEF FindComment
    <3> QED BY <1>8, <3>1, <3>2, <3>3, <3>4, <3>5
  <2>2. ASSUME NEW pc \in {"findMembers", "saveComment", "removeComment", "findOwner"}, NEW r,
               \/ task' = [task EXCEPT ![s] = [Going(c, pc) EXCEPT !.row = r]]
               \/ task' = [task EXCEPT ![s] = [Going(c, pc) EXCEPT !.members = r]]
        PROVE  \E u : CommentMoves(s, u)
    <3>1. pc \in CommentPCs \ {"mayComment"} /\ pc # "insertComment"
      BY DEF CommentPCs
    <3>2. PICK t : /\ task' = [task EXCEPT ![s] = t]
                   /\ \/ t = [Going(c, pc) EXCEPT !.row = r]
                      \/ t = [Going(c, pc) EXCEPT !.members = r]
      BY <2>2
    <3> HIDE DEF c
    <3>3. t.pc = pc /\ t.kind = c.kind /\ t.id = c.id
      <4>1. CASE t = [Going(c, pc) EXCEPT !.row = r]
        BY <1>2, <4>1 DEF Going, CommentFields
      <4>2. CASE t = [Going(c, pc) EXCEPT !.members = r]
        BY <1>2, <4>2 DEF Going, CommentFields
      <4> QED BY <3>2, <4>1, <4>2
    <3> QED BY <1>5, <3>1, <3>2, <3>3
  <2> HIDE DEF c
  <2> QED BY <1>4, <2>1, <2>2
<1>9. CASE FindOwner(s) \/ RemoveComment(s) \/ CommentFails(s)
  BY <1>4, <1>9 DEF FindOwner, RemoveComment, CommentFails
<1> QED BY <1>7, <1>8, <1>9 DEF CommentQuery

\* The request in slot s ends, and adds no invitation.
LEMMA AnsweringEnd ==
  ASSUME Inv, Answering, NEW s \in Slots, Ended(s), requests' = requests,
         invitations' \subseteq invitations, joined' = joined,
         failures' = failures + 1 \/ (failures' = failures /\ task[s].pc # "mark")
  PROVE  Answering'
<1>1. \A x \in Slots : task'[x] = IF x = s THEN NoRequest ELSE task[x]
  BY DEF Ended, Inv, TasksInv
<1>2. ~Before(NoRequest) /\ \A n : ~HasCopy(NoRequest, n)
  BY NoRequestOK DEF HasCopy
<1>3. ASSUME NEW t, t = NoRequest
      PROVE  Answering'
  BY <1>1, <1>2, <1>3, AnsweringQuiet
<1> QED BY <1>3

LEMMA AnsweringRead ==
  ASSUME Inv, Answering, NEW s \in Slots,
         FindName(s) \/ Permit(s) \/ Owns(s) \/ FindCollaborator(s) \/ FindPending(s)
  PROVE  Answering'
<1>1. /\ task[s].pc \in {"findName", "permit", "owns", "findCollaborator", "findPending"}
      /\ GoOn(s) \/ Ended(s)
      /\ UNCHANGED <<invitations, requests, joined, failures>>
  BY DEF FindName, Permit, Owns, FindCollaborator, FindPending, Check, tables
<1>2. TasksInv /\ TaskOK(task[s]) /\ task[s].pc \in PCs \ {"idle", "findInvitation", "insertInvitation"}
  BY <1>1 DEF PCs, Inv, TasksInv
<1>3. PICK t : /\ \A x \in Slots : task'[x] = IF x = s THEN t ELSE task[x]
               /\ Follows(task[s], t)
  BY <1>1, <1>2, GoOnTo
<1>4. /\ Before(t) => Before(task[s]) /\ t.id = task[s].id
      /\ \A n : HasCopy(t, n) => HasCopy(task[s], n) /\ t.project = task[s].project
  BY <1>2, <1>3, FollowsKeeps
<1>5. \A n : HasCopy(t, n) => About(n, t.project)
  BY <1>4 DEF About
<1> QED BY <1>1, <1>3, <1>4, <1>5, AnsweringQuiet

LEMMA AnsweringFindInvitation ==
  ASSUME Inv, Answering, NEW s \in Slots, FindInvitation(s)
  PROVE  Answering'
<1> DEFINE c == task[s]
<1>0. /\ c.pc = "findInvitation" /\ DOMAIN task = Slots
      /\ UNCHANGED <<invitations, requests, joined, failures>>
  BY DEF FindInvitation, Inv, TasksInv, tables
<1>1. CASE Ended(s)
  BY <1>0, <1>1, AnsweringEnd
<1>2. CASE ~Ended(s)
  <2>1. PICK v \in invitations : task' = [task EXCEPT ![s] = At(Found(c, v), After(c))]
    BY <1>2 DEF FindInvitation
  <2> DEFINE t == At(Found(c, v), After(c))
  <2>2. t.pc = After(c) /\ t.kind = c.kind /\ t.project = v.project /\ t.invitation = v.id
    BY DEF At, Found, RequestAt
  <2>3. c.kind \in {"accept", "reject", "cancel"}
    BY <1>0 DEF Inv, TasksInv, TaskOK, Fits
  <2>4. \A x \in Slots : task'[x] = IF x = s THEN t ELSE task[x]
    BY <1>0, <2>1
  <2> HIDE DEF t
  <2>5. \A n : HasCopy(t, n) => About(n, t.project)
    BY <2>2 DEF HasCopy, Holds, About
  <2>6. ~Before(t)
    BY <2>2, <2>3 DEF Before
  <2> QED BY <1>0, <2>4, <2>5, <2>6, AnsweringQuiet
<1> QED BY <1>1, <1>2

LEMMA AnsweringInsertCollaborator ==
  ASSUME Inv, Answering, NEW s \in Slots, InsertCollaborator(s)
  PROVE  Answering'
<1> DEFINE c == task[s]
<1>0. /\ c.pc = "insertCollaborator" /\ TasksInv /\ TaskOK(c)
      /\ UNCHANGED <<invitations, requests, failures>>
  BY DEF InsertCollaborator, Inv, TasksInv
<1>1. CASE ~Live(c.project)
  <2>1. Ended(s) /\ UNCHANGED joined
    BY <1>1 DEF InsertCollaborator
  <2> QED BY <1>0, <2>1, AnsweringEnd
<1>2. CASE Live(c.project)
  <2>1. /\ GoOn(s)
        /\ joined' = IF c.kind = "accept" THEN joined \cup {c.invitation} ELSE joined
    BY <1>2 DEF InsertCollaborator
  <2>2. c.pc \in PCs \ {"idle", "findInvitation", "insertInvitation"} /\ NextQuery(c)
    BY <1>0, AfterIs DEF PCs
  <2>3. PICK t : /\ \A x \in Slots : task'[x] = IF x = s THEN t ELSE task[x]
                 /\ Follows(c, t)
                 /\ Ended(s) => t = NoRequest
                 /\ ~Ended(s) => t = At(c, After(c)) /\ After(c) # "idle"
    BY <1>0, <2>1, GoOnTo
  <2>4. /\ Before(t) => Before(c) /\ t.id = c.id
        /\ \A n : HasCopy(t, n) => HasCopy(c, n) /\ t.project = c.project
    BY <1>0, <2>2, <2>3, FollowsKeeps
  <2>5. c.kind = "accept" => t.pc = "mark" /\ t.invitation = c.invitation
    <3>1. SUFFICES ASSUME c.kind = "accept" PROVE t.pc = "mark" /\ t.invitation = c.invitation
      OBVIOUS
    <3>2. After(c) = "mark"
      BY <1>0, <2>2, <3>1 DEF NextQuery
    <3>3. task' = [task EXCEPT ![s] = At(c, After(c))]
      BY <2>1, <3>2 DEF GoOn
    <3>4. t = At(c, After(c))
      BY <1>0, <2>3, <3>3 DEF TasksInv
    <3> QED BY <3>2, <3>4 DEF At, RequestAt
  <2>6. c.kind = "accept" => Named(c.invitation)
    BY <1>0 DEF Named, Holds
  <2>7. \A n : HasCopy(t, n) => About(n, t.project)
    BY <2>4 DEF About
  <2>8. \A n \in joined' : n \in joined \/ (Named(n) /\ t.pc = "mark" /\ t.invitation = n)
    BY <2>1, <2>5, <2>6
  <2>9. \A w \in invitations' : About(w.id, w.project) /\ w \in invitations
    BY <1>0 DEF About
  <2> QED BY <1>0, <2>3, <2>4, <2>7, <2>8, <2>9, AnsweringKept
<1> QED BY <1>1, <1>2

LEMMA AnsweringInsertInvitation ==
  ASSUME Inv, Answering, NEW s \in Slots, InsertInvitation(s)
  PROVE  Answering'
<1> DEFINE c == task[s]
           v == [id |-> c.id, project |-> c.project, inviter |-> c.caller,
                 invitee |-> c.user, role |-> c.role, status |-> "pending"]
           t == RequestAt("tell", c.kind, c.id, c.caller, c.project, c.user, c.role, c.id, c.caller)
<1>0. /\ c.pc = "insertInvitation" /\ TasksInv /\ TaskOK(c) /\ DOMAIN task = Slots
      /\ UNCHANGED <<requests, joined, failures>>
  BY DEF InsertInvitation, Inv, TasksInv
<1>1. CASE ~Live(c.project)
  <2>1. Ended(s) /\ UNCHANGED invitations
    BY <1>1 DEF InsertInvitation
  <2> QED BY <1>0, <2>1, AnsweringEnd
<1>2. CASE Live(c.project)
  <2>1. invitations' = invitations \cup {v} /\ task' = [task EXCEPT ![s] = t]
    BY <1>2 DEF InsertInvitation
  <2>2. t.pc = "tell" /\ v.id = c.id /\ v.project = c.project
    BY DEF RequestAt
  <2> HIDE DEF t, v
  <2>3. Before(c)
    BY <1>0 DEF TaskOK, Fits, Before
  <2>4. ~Before(t) /\ \A n : ~HasCopy(t, n)
    BY <2>2 DEF Before, HasCopy, Holds
  <2>5. \A x \in Slots : task'[x] = IF x = s THEN t ELSE task[x]
    BY <1>0, <2>1
  <2>6. \A w \in invitations' :
          \/ w \in invitations /\ About(w.id, w.project)
          \/ Before(task[s]) /\ w.id = task[s].id /\ w.project = task[s].project
    BY <2>1, <2>2, <2>3 DEF About
  <2> QED BY <1>0, <2>4, <2>5, <2>6, AnsweringKept
<1> QED BY <1>1, <1>2

LEMMA AnsweringMark ==
  ASSUME Inv, Answering, NEW s \in Slots, Mark(s)
  PROVE  Answering'
<1> DEFINE c == task[s]
           m == Marked(c)
<1>0. /\ c.pc = "mark" /\ TasksInv /\ TaskOK(c) /\ HasCopy(c, c.invitation)
      /\ UNCHANGED <<requests, joined, failures>>
  BY DEF Mark, Inv, TasksInv, HasCopy, Holds
<1>1. CASE ~Live(c.project)
  <2>1. Ended(s) /\ UNCHANGED invitations
    BY <1>1 DEF Mark
  <2>2. \A x \in Slots : task'[x] = IF x = s THEN NoRequest ELSE task[x]
    BY <2>1 DEF Ended, Inv, TasksInv
  <2>3. ~Before(NoRequest) /\ \A n : ~HasCopy(NoRequest, n)
    BY NoRequestOK DEF HasCopy
  <2>4. ASSUME NEW w \in invitations
        PROVE  w.id # c.invitation
    <3>1. About(c.invitation, c.project) /\ About(w.id, w.project)
      BY <1>0 DEF About
    <3>2. Live(w.project)
      BY DEF Inv, RowsInv, CommentsRefer, RowsRefer
    <3> QED BY <1>1, <3>1, <3>2 DEF Answering, CopiesAgree
  <2>5. \A w \in invitations' : w \in invitations /\ About(w.id, w.project)
    BY <2>1 DEF About
  <2>6. ASSUME NEW t, t = NoRequest
        PROVE  Answering'
    BY <1>0, <2>1, <2>2, <2>3, <2>4, <2>5, <2>6, AnsweringKept
  <2> QED BY <2>6
<1>2. CASE Live(c.project)
  <2>1. invitations' = {w \in invitations : w.id # c.invitation} \cup {m} /\ GoOn(s)
    BY <1>2 DEF Mark
  <2>2. m.id = c.invitation /\ m.project = c.project /\ m.status # "pending"
    BY DEF Marked, Copy
  <2>3. c.pc \in PCs \ {"idle", "findInvitation", "insertInvitation"}
    BY <1>0 DEF PCs
  <2>4. PICK t : /\ \A x \in Slots : task'[x] = IF x = s THEN t ELSE task[x]
                 /\ Follows(c, t)
    BY <1>0, <2>1, GoOnTo
  <2>5. /\ Before(t) => Before(c) /\ t.id = c.id
        /\ \A n : HasCopy(t, n) => HasCopy(c, n) /\ t.project = c.project
    BY <1>0, <2>3, <2>4, FollowsKeeps
  <2> HIDE DEF m
  <2>6. \A n : HasCopy(t, n) => About(n, t.project)
    BY <2>5 DEF About
  <2>7. \A w \in invitations' : About(w.id, w.project)
    BY <1>0, <2>1, <2>2 DEF About
  <2>8. \A w \in invitations' : w.status # "pending" \/ (w \in invitations /\ w.id # c.invitation)
    BY <2>1, <2>2
  <2> QED BY <1>0, <2>4, <2>5, <2>6, <2>7, <2>8, AnsweringKept
<1> QED BY <1>1, <1>2

LEMMA AnsweringStep == Inv /\ Answering /\ [CommentsNext]_<<vars, commentVars>> => Answering'
<1> SUFFICES ASSUME Inv, Answering, [CommentsNext]_<<vars, commentVars>> PROVE Answering'
  OBVIOUS
<1>1. CASE UNCHANGED <<tables, task, requests, joined, failures>>
  BY <1>1 DEF Answering, Given, CopiesAgree, About, JoinedIsAnswered, tables
<1>2. ASSUME NEW s \in Slots, NEW t, Arrives(s, t)
      PROVE  Answering'
  BY <1>2, AnsweringArrives
<1>3. ASSUME NEW s \in Slots, Query(s) \/ WriteFails(s)
      PROVE  Answering'
  <2>1. CASE \/ InsertProject(s) \/ DeleteRow(s) \/ DeleteCollaborator(s) \/ Tell(s)
             \/ DeleteInvitation(s) \/ WriteFails(s)
    <3>1. /\ Ended(s) /\ UNCHANGED <<requests, joined>> /\ invitations' \subseteq invitations
          /\ failures' = failures + 1 \/ (failures' = failures /\ task[s].pc # "mark")
      BY <2>1 DEF InsertProject, DeleteRow, Cascaded, DeleteCollaborator, Tell, DeleteInvitation,
                  WriteFails, tables
    <3> QED BY <3>1, AnsweringEnd
  <2> QED BY <1>3, <2>1, AnsweringRead, AnsweringFindInvitation, AnsweringInsertCollaborator,
             AnsweringInsertInvitation, AnsweringMark DEF Query
<1>4. ASSUME NEW s \in Slots, CommentQuery(s)
      PROVE  Answering'
  <2>1. PICK t : CommentMoves(s, t)
    BY <1>4, CommentQueryMoves
  <2>2. task[s].pc # "mark" /\ \A n : ~HasCopy(t, n)
    BY <2>1 DEF CommentMoves, CommentPCs, HasCopy, Holds
  <2>3. /\ \A x \in Slots : task'[x] = IF x = s THEN t ELSE task[x]
        /\ Before(t) => Before(task[s]) /\ t.id = task[s].id
        /\ UNCHANGED <<requests, invitations, joined>>
        /\ failures' = failures \/ failures' = failures + 1
    BY <2>1 DEF CommentMoves, tables
  <2> QED BY <2>2, <2>3, AnsweringQuiet
<1>5. CASE MembershipStep
  <2>1. CASE Gateway
    BY <1>1, <2>1 DEF Gateway
  <2>2. CASE Request
    BY <1>2, <2>2, RequestArrives DEF Inv
  <2> QED BY <1>3, <1>5, <2>1, <2>2 DEF MembershipStep, Next
<1>6. CASE CommentRequest
  BY <1>2, <1>6, CommentRequestArrives DEF Inv
<1>7. CASE UNCHANGED <<vars, commentVars>>
  BY <1>1, <1>7 DEF vars
<1> QED BY <1>4, <1>5, <1>6, <1>7 DEF CommentsNext

LEMMA AnsweringInvariance == CommentsSpec => []Answering
BY AnsweringInit, AnsweringStep, Invariance, PTL DEF CommentsSpec

---------------------------------------------------------------------------
(***************************************************************************)
(* As long as requests do not overlap: what was announced is what the      *)
(* table says.                                                             *)
(***************************************************************************)

\* What a request that runs alone knows, when the table is rows, of the
\* invitation it has in hand.
Knows(t, rows) ==
  /\ HasCopy(t, t.invitation) \/ t.pc = "deleteInvitation" =>
       \E v \in rows : v.id = t.invitation /\ v.status = "pending"
  /\ t.pc = "tell" /\ t.kind \in {"accept", "reject"} =>
       \E v \in rows : v.id = t.invitation /\ v.status = Event(t)

OneBusy == \A s, x \in Slots : task[s].pc # "idle" /\ task[x].pc # "idle" => s = x

AnnouncedGiven ==
  \A n \in told : n.event # "received" => Given(n.invitation) /\ n.event # "pending"

Alone ==
  /\ overlapped \in BOOLEAN
  /\ ~overlapped => OneBusy /\ (\A s \in Slots : Knows(task[s], invitations)) /\ AnnouncedGiven
  /\ AloneOneStory

LEMMA KnowsNothing ==
  ASSUME NEW t, NEW rows,
         t.pc \notin {"mark", "findCollaborator", "insertCollaborator", "deleteInvitation", "tell"}
  PROVE  Knows(t, rows)
BY DEF Knows, HasCopy, Holds

LEMMA AloneInit == CommentsInit => Alone
<1> SUFFICES ASSUME CommentsInit PROVE Alone
  OBVIOUS
<1>1. /\ task = [s \in Slots |-> NoRequest] /\ told = {} /\ overlapped = FALSE
  BY DEF CommentsInit, Init
<1>2. NoRequest.pc = "idle" /\ Knows(NoRequest, invitations)
  BY NoRequestOK, KnowsNothing
<1>3. OneBusy /\ \A s \in Slots : Knows(task[s], invitations)
  BY <1>1, <1>2 DEF OneBusy
<1> QED BY <1>1, <1>3 DEF Alone, AnnouncedGiven, AloneOneStory

\* The request in slot s, which runs alone, becomes t: what must be true of that.
LEMMA AloneMoves ==
  ASSUME Inv, Alone, NEW s \in Slots, NEW t, task[s].pc # "idle",
         \A x \in Slots : task'[x] = IF x = s THEN t ELSE task[x],
         requests' = requests, overlapped' = overlapped,
         Before(t) => Before(task[s]) /\ t.id = task[s].id,
         ~overlapped => Knows(t, invitations'),
         ~overlapped => \A n \in told' : \/ n.event = "received"
                                         \/ n \in told
                                         \/ Given(n.invitation) /\ n.event # "pending",
         ~overlapped => AloneOneStory'
  PROVE  Alone'
<1>1. CASE overlapped
  BY <1>1 DEF Alone, AloneOneStory
<1>2. CASE ~overlapped
  <2>1. \A n : Given(n) => Given(n)'
    BY GivenKept DEF Inv, TasksInv
  <2>2. AnnouncedGiven'
    <3>1. ASSUME NEW n \in told', n.event # "received"
          PROVE  Given(n.invitation)' /\ n.event # "pending"
      BY <1>2, <2>1, <3>1 DEF Alone, AnnouncedGiven
    <3> QED BY <3>1 DEF AnnouncedGiven
  <2>3. \A x \in Slots : x # s => task'[x] = task[x] /\ task[x].pc = "idle"
    BY <1>2 DEF Alone, OneBusy
  <2>4. OneBusy'
    BY <2>3 DEF OneBusy
  <2>5. ASSUME NEW x \in Slots
        PROVE  Knows(task'[x], invitations')
    <3>1. CASE x = s
      <4>1. task'[x] = t
        BY <3>1
      <4> QED BY <1>2, <4>1
    <3>2. CASE x # s
      <4>1. task'[x].pc = "idle"
        BY <2>3, <3>2
      <4> QED BY <4>1, KnowsNothing
    <3> QED BY <3>1, <3>2
  <2>6. \A x \in Slots : Knows(task[x], invitations)'
    BY <2>5 DEF Knows, HasCopy, Holds, Event
  <2> QED BY <1>2, <2>2, <2>4, <2>6 DEF Alone
<1> QED BY <1>1, <1>2

LEMMA AloneArrives ==
  ASSUME Inv, Alone, NEW s \in Slots, NEW t, Arrives(s, t)
  PROVE  Alone'
<1>0. /\ requests \in Nat /\ requests' = requests + 1 /\ t.id = requests + 1 /\ task[s].pc = "idle"
      /\ \A x \in Slots : task'[x] = IF x = s THEN t ELSE task[x]
      /\ overlapped' = (overlapped \/ FreeSlots # Slots)
      /\ UNCHANGED <<invitations, told>>
  BY DEF Inv, TasksInv, Arrives, tables
<1>1. CASE overlapped \/ FreeSlots # Slots
  BY <1>0, <1>1 DEF Alone, AloneOneStory
<1>2. CASE ~overlapped /\ FreeSlots = Slots
  <2>1. \A x \in Slots : task[x].pc = "idle"
    BY <1>2 DEF FreeSlots
  <2>2. OneBusy'
    BY <1>0, <2>1 DEF OneBusy
  <2>3. Knows(t, invitations')
    BY KnowsNothing DEF Arrives
  <2>4. ASSUME NEW x \in Slots
        PROVE  Knows(task'[x], invitations')
    <3>1. CASE x = s
      BY <1>0, <2>3, <3>1
    <3>2. CASE x # s
      <4>1. task'[x].pc = "idle"
        BY <1>0, <2>1, <3>2
      <4> QED BY <4>1, KnowsNothing
    <3> QED BY <3>1, <3>2
  <2>5. \A x \in Slots : Knows(task[x], invitations)'
    BY <2>4 DEF Knows, HasCopy, Holds, Event
  <2>6. \A n : Given(n) => Given(n)'
    BY <1>0, GivenKept
  <2>7. AnnouncedGiven'
    BY <1>0, <1>2, <2>6 DEF Alone, AnnouncedGiven
  <2>8. AloneOneStory'
    BY <1>0, <1>2 DEF Alone, AloneOneStory
  <2> QED BY <1>0, <1>2, <2>2, <2>5, <2>7, <2>8 DEF Alone
<1> QED BY <1>1, <1>2

\* The request in slot s goes on without an announcement, and no invitation is written.
LEMMA AloneQuiet ==
  ASSUME Inv, Alone, NEW s \in Slots, NEW t, task[s].pc # "idle",
         \A x \in Slots : task'[x] = IF x = s THEN t ELSE task[x],
         Before(t) => Before(task[s]) /\ t.id = task[s].id,
         ~overlapped => Knows(t, invitations'),
         UNCHANGED <<requests, overlapped, told>>, invitations' \subseteq invitations
  PROVE  Alone'
<1>1. ~overlapped => AloneOneStory'
  BY DEF Alone, AloneOneStory
<1> QED BY <1>1, AloneMoves

LEMMA AloneEnd ==
  ASSUME Inv, Alone, NEW s \in Slots, task[s].pc # "idle", Ended(s),
         UNCHANGED <<requests, overlapped, told>>, invitations' \subseteq invitations
  PROVE  Alone'
<1>1. \A x \in Slots : task'[x] = IF x = s THEN NoRequest ELSE task[x]
  BY DEF Ended, Inv, TasksInv
<1>2. ~Before(NoRequest) /\ Knows(NoRequest, invitations')
  BY NoRequestOK, KnowsNothing
<1>3. ASSUME NEW t, t = NoRequest
      PROVE  Alone'
  BY <1>1, <1>2, <1>3, AloneQuiet
<1> QED BY <1>3

\* The request in slot s goes on, or ends, and writes no invitation.
LEMMA AloneGoesOn ==
  ASSUME Inv, Alone, NEW s \in Slots,
         task[s].pc \in {"findName", "permit", "owns", "findCollaborator", "findPending",
                         "insertCollaborator"},
         GoOn(s) \/ Ended(s),
         UNCHANGED <<requests, overlapped, told, invitations>>
  PROVE  Alone'
<1> DEFINE c == task[s]
<1>1. TasksInv /\ TaskOK(c) /\ c.pc \in PCs \ {"idle", "findInvitation", "insertInvitation"}
  BY DEF PCs, Inv, TasksInv
<1>2. PICK t : /\ \A x \in Slots : task'[x] = IF x = s THEN t ELSE task[x]
               /\ Follows(c, t)
  BY <1>1, GoOnTo
<1>3. /\ t.pc # "idle" => t.invitation = c.invitation
      /\ Before(t) => Before(c) /\ t.id = c.id
      /\ \A n : HasCopy(t, n) => HasCopy(c, n)
      /\ t.pc # "deleteInvitation" /\ t.pc # "tell"
  BY <1>1, <1>2, FollowsKeeps
<1>4. ~overlapped => Knows(c, invitations)
  BY DEF Alone
<1>5. ~overlapped => Knows(t, invitations)
  <2>1. CASE t.pc = "idle"
    BY <2>1, KnowsNothing
  <2>2. CASE t.pc # "idle"
    BY <1>3, <1>4, <2>2 DEF Knows
  <2> QED BY <2>1, <2>2
<1>6. c.pc # "idle"
  OBVIOUS
<1> HIDE DEF c
<1> QED BY <1>2, <1>3, <1>5, <1>6, AloneQuiet DEF c

LEMMA AloneFindInvitation ==
  ASSUME Inv, Alone, NEW s \in Slots, FindInvitation(s)
  PROVE  Alone'
<1> DEFINE c == task[s]
<1>0. /\ c.pc = "findInvitation" /\ DOMAIN task = Slots
      /\ UNCHANGED <<invitations, requests, told, overlapped>>
  BY DEF FindInvitation, Inv, TasksInv, tables
<1>1. CASE Ended(s)
  BY <1>0, <1>1, AloneEnd
<1>2. CASE ~Ended(s)
  <2>1. PICK v \in invitations : /\ Answerable(v, c)
                                 /\ task' = [task EXCEPT ![s] = At(Found(c, v), After(c))]
    BY <1>2 DEF FindInvitation
  <2> DEFINE t == At(Found(c, v), After(c))
  <2>2. t.pc = After(c) /\ t.kind = c.kind /\ t.invitation = v.id /\ v.status = "pending"
    BY <2>1 DEF At, Found, RequestAt, Answerable
  <2>3. c.kind \in {"accept", "reject", "cancel"}
    BY <1>0 DEF Inv, TasksInv, TaskOK, Fits
  <2>4. After(c) = CASE c.kind = "accept" -> "findCollaborator"
                     [] c.kind = "reject" -> "mark"
                     [] c.kind = "cancel" -> "deleteInvitation"
    BY <1>0 DEF After
  <2>5. After(c) # "tell"
    BY <2>3, <2>4
  <2>6. \A x \in Slots : task'[x] = IF x = s THEN t ELSE task[x]
    BY <1>0, <2>1
  <2> HIDE DEF t
  <2>7. Knows(t, invitations)
    BY <2>2, <2>5 DEF Knows
  <2>8. ~Before(t)
    BY <2>2, <2>3 DEF Before
  <2> QED BY <1>0, <2>6, <2>7, <2>8, AloneQuiet
<1> QED BY <1>1, <1>2

LEMMA AloneInsertInvitation ==
  ASSUME Inv, Alone, NEW s \in Slots, InsertInvitation(s)
  PROVE  /\ Alone'
         /\ ~overlapped => \A v \in invitations' : v \in invitations \/ (v.status = "pending" /\ ~Given(v.id))
<1> DEFINE c == task[s]
           v == [id |-> c.id, project |-> c.project, inviter |-> c.caller,
                 invitee |-> c.user, role |-> c.role, status |-> "pending"]
           t == RequestAt("tell", c.kind, c.id, c.caller, c.project, c.user, c.role, c.id, c.caller)
<1>0. /\ c.pc = "insertInvitation" /\ TaskOK(c) /\ DOMAIN task = Slots
      /\ UNCHANGED <<requests, told, overlapped>>
  BY DEF InsertInvitation, Inv, TasksInv
<1>1. CASE ~Live(c.project)
  <2>1. Ended(s) /\ UNCHANGED invitations
    BY <1>1 DEF InsertInvitation
  <2> QED BY <1>0, <2>1, AloneEnd
<1>2. CASE Live(c.project)
  <2>1. invitations' = invitations \cup {v} /\ task' = [task EXCEPT ![s] = t]
    BY <1>2 DEF InsertInvitation
  <2>2. t.pc = "tell" /\ t.kind = c.kind /\ v.id = c.id /\ v.status = "pending"
    BY DEF RequestAt
  <2> HIDE DEF t, v
  <2>3. Before(c) /\ c.kind = "send"
    BY <1>0 DEF TaskOK, Fits, Before
  <2>4. ~Before(t) /\ Knows(t, invitations')
    BY <2>2, <2>3 DEF Before, Knows, HasCopy, Holds
  <2>5. \A x \in Slots : task'[x] = IF x = s THEN t ELSE task[x]
    BY <1>0, <2>1
  <2>6. ~Given(v.id)
    BY <2>2, <2>3 DEF Given
  <2>7. ~overlapped => AloneOneStory'
    <3>1. ASSUME ~overlapped, NEW n \in told, n.event # "received"
          PROVE  n.invitation # v.id
      BY <2>6, <3>1 DEF Alone, AnnouncedGiven
    <3> QED BY <1>0, <2>1, <3>1 DEF Alone, AloneOneStory
  <2>8. Alone'
    BY <1>0, <2>4, <2>5, <2>7, AloneMoves
  <2> QED BY <2>1, <2>2, <2>6, <2>8
<1> QED BY <1>1, <1>2

\* A request that marks an invitation finds it pending, and its project there.
LEMMA MarksPending ==
  ASSUME Inv, Answering, Alone, ~overlapped, NEW s \in Slots, Mark(s)
  PROVE  /\ \E v \in invitations : v.id = task[s].invitation /\ v.status = "pending"
         /\ invitations' = {v \in invitations : v.id # task[s].invitation} \cup {Marked(task[s])}
         /\ GoOn(s)
<1> DEFINE c == task[s]
<1>1. HasCopy(c, c.invitation)
  BY DEF Mark, HasCopy, Holds
<1>2. PICK v \in invitations : v.id = c.invitation /\ v.status = "pending"
  BY <1>1 DEF Alone, Knows
<1>3. About(c.invitation, c.project) /\ About(v.id, v.project)
  BY <1>1 DEF About
<1>4. v.project = c.project
  BY <1>2, <1>3 DEF Answering, CopiesAgree
<1>5. Live(c.project)
  BY <1>4 DEF Inv, RowsInv, CommentsRefer, RowsRefer
<1> QED BY <1>2, <1>5 DEF Mark

LEMMA AloneMark ==
  ASSUME Inv, Answering, Alone, NEW s \in Slots, Mark(s)
  PROVE  Alone'
<1> DEFINE c == task[s]
           m == Marked(c)
<1>0. /\ c.pc = "mark" /\ c.pc # "idle" /\ TasksInv /\ TaskOK(c) /\ (GoOn(s) \/ Ended(s))
      /\ UNCHANGED <<requests, told, overlapped>>
  BY DEF Mark, Inv, TasksInv
<1>1. c.kind \in {"accept", "reject"} /\ c.pc \in PCs \ {"idle", "findInvitation", "insertInvitation"}
  BY <1>0 DEF TaskOK, Fits, PCs
<1>2. PICK t : /\ \A x \in Slots : task'[x] = IF x = s THEN t ELSE task[x]
               /\ Follows(c, t)
  BY <1>0, GoOnTo
<1>3. /\ Before(t) => Before(c) /\ t.id = c.id
      /\ \A n : HasCopy(t, n) => HasCopy(c, n)
      /\ t.pc # "idle" => t.kind = c.kind /\ t.invitation = c.invitation /\ t.pc = After(c)
      /\ After(c) = "tell"
  BY <1>0, <1>1, <1>2, FollowsKeeps, AfterIs DEF NextQuery
<1>4. CASE overlapped
  BY <1>0, <1>4 DEF Alone, AloneOneStory
<1>5. CASE ~overlapped
  <2>1. PICK v \in invitations : v.id = c.invitation /\ v.status = "pending"
    BY <1>5, MarksPending
  <2>2. invitations' = {w \in invitations : w.id # c.invitation} \cup {m}
    BY <1>5, MarksPending
  <2>3. m.id = c.invitation /\ m.status = Event(c)
    <3>1. CASE c.kind = "accept"
      BY <3>1 DEF Marked, Copy, Event
    <3>2. CASE c.kind = "reject"
      BY <3>2 DEF Marked, Copy, Event
    <3> QED BY <1>1, <3>1, <3>2
  <2> HIDE DEF m
  <2>4. Knows(t, invitations')
    <3>1. CASE t.pc = "idle"
      BY <3>1, KnowsNothing
    <3>2. CASE t.pc = "tell"
      <4>1. Event(t) = Event(c)
        BY <1>3, <3>2 DEF Event
      <4>2. m \in invitations' /\ m.id = t.invitation /\ m.status = Event(t)
        BY <1>3, <2>2, <2>3, <3>2, <4>1
      <4> QED BY <1>1, <3>2, <4>2 DEF Knows, HasCopy, Holds
    <3> QED BY <1>3, <3>1, <3>2
  <2>5. \A n \in told : n.event # "received" => n.invitation # c.invitation
    BY <1>5, <2>1 DEF Alone, AloneOneStory, AnnouncedGiven
  <2>6. AloneOneStory'
    BY <1>0, <1>5, <2>2, <2>3, <2>5 DEF Alone, AloneOneStory
  <2> HIDE DEF c
  <2> QED BY <1>0, <1>2, <1>3, <2>4, <2>6, AloneMoves DEF c
<1> QED BY <1>4, <1>5

\* What is announced of an invitation is its status in the table, or that it is gone.
LEMMA AloneTell ==
  ASSUME Inv, Alone, NEW s \in Slots, Tell(s) \/ DeleteInvitation(s)
  PROVE  Alone'
<1> DEFINE c == task[s]
<1>0. /\ c.pc \in {"tell", "deleteInvitation"} /\ TaskOK(c) /\ Ended(s)
      /\ told' = told \cup Notifications(c) /\ invitations' \subseteq invitations
      /\ c.pc = "tell" => invitations' = invitations
      /\ c.pc = "deleteInvitation" => \A v \in invitations' : v.id # c.invitation
      /\ UNCHANGED <<requests, overlapped>>
  BY DEF Tell, DeleteInvitation, Inv, TasksInv, tables
<1>1. \A n \in Notifications(c) : n.invitation = c.invitation /\ n.event = Event(c)
  BY DEF Notifications
<1>2. /\ c.pc = "tell" => c.kind \in {"send", "accept", "reject"}
      /\ c.pc = "deleteInvitation" => c.kind = "cancel"
  BY <1>0 DEF TaskOK, Fits
<1>3. /\ c.kind = "send" => Event(c) = "received"
      /\ c.kind = "cancel" => Event(c) = "cancelled"
      /\ Event(c) # "pending"
  BY <1>0, <1>2 DEF Event
<1>4. ASSUME ~overlapped, Event(c) # "received"
      PROVE  /\ Given(c.invitation)
             /\ \A n \in told : n.event # "received" =>
                  n.invitation # c.invitation \/ (c.pc = "tell" /\ n.event = Event(c))
             /\ \A v \in invitations' : v.id = c.invitation => v.status = Event(c)
  <2>1. PICK v \in invitations : /\ v.id = c.invitation
                                 /\ v.status = IF c.pc = "tell" THEN Event(c) ELSE "pending"
    <3>1. Knows(c, invitations)
      BY <1>4 DEF Alone
    <3>2. CASE c.pc = "tell"
      BY <1>2, <1>3, <1>4, <3>1, <3>2 DEF Knows
    <3>3. CASE c.pc = "deleteInvitation"
      BY <3>1, <3>3 DEF Knows
    <3> QED BY <1>0, <3>2, <3>3
  <2>2. Given(c.invitation)
    <3>1. Named(v.id)
      BY DEF Named, RowNamed
    <3> QED BY <2>1, <3>1, NamedGiven
  <2>3. ASSUME NEW n \in told, n.event # "received", n.invitation = c.invitation
        PROVE  c.pc = "tell" /\ n.event = Event(c)
    <3>1. v.status = n.event /\ n.event # "pending"
      BY <1>4, <2>1, <2>3 DEF Alone, AloneOneStory, AnnouncedGiven
    <3> QED BY <2>1, <3>1
  <2>4. ASSUME NEW w \in invitations', w.id = c.invitation
        PROVE  w.status = Event(c)
    <3>1. c.pc = "tell" /\ w \in invitations
      BY <1>0, <2>4
    <3>2. w = v
      BY <2>1, <2>4, <3>1 DEF Inv, RowsInv, CommentsRefer, RowsRefer
    <3> QED BY <2>1, <3>1, <3>2
  <2> QED BY <2>2, <2>3, <2>4
<1>5. ~overlapped => \A n \in told' : \/ n.event = "received"
                                      \/ n \in told
                                      \/ Given(n.invitation) /\ n.event # "pending"
  BY <1>0, <1>1, <1>3, <1>4
<1>6. ASSUME ~overlapped
      PROVE  AloneOneStory'
  <2>1. ASSUME NEW n \in told', n.event # "received"
        PROVE  /\ \A o \in told' : o.invitation = n.invitation /\ o.event # "received"
                                     => o.event = n.event
               /\ \A v \in invitations' : v.id = n.invitation => v.status = n.event
    <3>1. CASE n.invitation = c.invitation /\ Event(c) # "received"
      <4>1. \A o \in told' : o.invitation = c.invitation /\ o.event # "received" => o.event = Event(c)
        BY <1>0, <1>1, <1>4, <1>6, <3>1
      <4> QED BY <1>4, <1>6, <2>1, <3>1, <4>1
    <3>2. CASE n.invitation # c.invitation \/ Event(c) = "received"
      <4>1. ASSUME NEW o \in told', o.event # "received", o.invitation = n.invitation
            PROVE  o \in told
        BY <1>0, <1>1, <3>2, <4>1
      <4>2. n \in told
        BY <2>1, <4>1
      <4> QED BY <1>0, <1>6, <2>1, <4>1, <4>2 DEF Alone, AloneOneStory
    <3> QED BY <3>1, <3>2
  <2> QED BY <2>1 DEF AloneOneStory
<1>7. \A x \in Slots : task'[x] = IF x = s THEN NoRequest ELSE task[x]
  BY <1>0 DEF Ended, Inv, TasksInv
<1>8. ~Before(NoRequest) /\ Knows(NoRequest, invitations')
  BY NoRequestOK, KnowsNothing
<1>9. ASSUME NEW t, t = NoRequest
      PROVE  Alone'
  BY <1>0, <1>5, <1>6, <1>7, <1>8, <1>9, AloneMoves
<1> QED BY <1>9

LEMMA AloneStep == Inv /\ Answering /\ Alone /\ [CommentsNext]_<<vars, commentVars>> => Alone'
<1> SUFFICES ASSUME Inv, Answering, Alone, [CommentsNext]_<<vars, commentVars>> PROVE Alone'
  OBVIOUS
<1>1. CASE UNCHANGED <<tables, task, requests, told, overlapped>>
  BY <1>1 DEF Alone, OneBusy, Knows, HasCopy, Holds, Event, AnnouncedGiven, Given, AloneOneStory, tables
<1>2. ASSUME NEW s \in Slots, NEW t, Arrives(s, t)
      PROVE  Alone'
  BY <1>2, AloneArrives
<1>3. ASSUME NEW s \in Slots, Query(s) \/ WriteFails(s)
      PROVE  Alone'
  <2>1. CASE InsertProject(s) \/ DeleteRow(s) \/ DeleteCollaborator(s) \/ WriteFails(s)
    <3>1. /\ Ended(s) /\ UNCHANGED <<requests, overlapped, told>> /\ invitations' \subseteq invitations
          /\ task[s].pc # "idle"
      BY <2>1 DEF InsertProject, DeleteRow, Cascaded, DeleteCollaborator, WriteFails, tables
    <3> QED BY <3>1, AloneEnd
  <2>2. CASE \/ FindName(s) \/ Permit(s) \/ Owns(s) \/ FindCollaborator(s) \/ FindPending(s)
             \/ InsertCollaborator(s)
    <3>1. /\ task[s].pc \in {"findName", "permit", "owns", "findCollaborator", "findPending",
                             "insertCollaborator"}
          /\ GoOn(s) \/ Ended(s)
          /\ UNCHANGED <<requests, overlapped, told, invitations>>
      BY <2>2 DEF FindName, Permit, Owns, FindCollaborator, FindPending, InsertCollaborator,
                  Check, tables
    <3> QED BY <3>1, AloneGoesOn
  <2> QED BY <1>3, <2>1, <2>2, AloneFindInvitation, AloneInsertInvitation, AloneMark, AloneTell
          DEF Query
<1>4. ASSUME NEW s \in Slots, CommentQuery(s)
      PROVE  Alone'
  <2>1. PICK t : CommentMoves(s, t)
    BY <1>4, CommentQueryMoves
  <2>2. task[s].pc # "idle" /\ Knows(t, invitations')
    BY <2>1, KnowsNothing DEF CommentMoves, CommentPCs
  <2>3. /\ \A x \in Slots : task'[x] = IF x = s THEN t ELSE task[x]
        /\ Before(t) => Before(task[s]) /\ t.id = task[s].id
        /\ UNCHANGED <<requests, overlapped, told>> /\ invitations' \subseteq invitations
    BY <2>1 DEF CommentMoves, tables
  <2> QED BY <2>2, <2>3, AloneQuiet
<1>5. CASE MembershipStep
  <2>1. CASE Gateway
    BY <1>1, <2>1 DEF Gateway
  <2>2. CASE Request
    BY <1>2, <2>2, RequestArrives DEF Inv
  <2> QED BY <1>3, <1>5, <2>1, <2>2 DEF MembershipStep, Next
<1>6. CASE CommentRequest
  BY <1>2, <1>6, CommentRequestArrives DEF Inv
<1>7. CASE UNCHANGED <<vars, commentVars>>
  BY <1>1, <1>7 DEF vars
<1> QED BY <1>4, <1>5, <1>6, <1>7 DEF CommentsNext

LEMMA AloneInvariance == CommentsSpec => []Alone
BY AloneInit, AloneStep, Invariance, AnsweringInvariance, PTL DEF CommentsSpec

LEMMA FinalStep == Inv /\ Answering /\ Alone /\ [CommentsNext]_<<vars, commentVars>> => FinalAnswers
<1> SUFFICES ASSUME Inv, Answering, Alone, [CommentsNext]_<<vars, commentVars>>, ~overlapped
             PROVE  FinalAnswers
  BY DEF FinalAnswers
<1>0. \A v, w \in invitations : v.id = w.id => v = w
  BY DEF Inv, RowsInv, CommentsRefer, RowsRefer
<1>1. CASE invitations' \subseteq invitations
  BY <1>0, <1>1 DEF FinalAnswers
<1>2. ASSUME NEW s \in Slots, Query(s) \/ WriteFails(s)
      PROVE  FinalAnswers
  <2>1. CASE \/ FindName(s) \/ Permit(s) \/ Owns(s) \/ FindCollaborator(s) \/ FindPending(s)
             \/ InsertCollaborator(s) \/ FindInvitation(s) \/ InsertProject(s) \/ DeleteRow(s)
             \/ DeleteCollaborator(s) \/ Tell(s) \/ DeleteInvitation(s) \/ WriteFails(s)
    <3>1. invitations' \subseteq invitations
      BY <2>1 DEF FindName, Permit, Owns, FindCollaborator, FindPending, InsertCollaborator, Check,
                  FindInvitation, InsertProject, DeleteRow, Cascaded, DeleteCollaborator, Tell,
                  DeleteInvitation, WriteFails, tables
    <3> QED BY <1>1, <3>1
  <2>2. CASE InsertInvitation(s)
    <3>1. \A w \in invitations' : w \in invitations \/ (w.status = "pending" /\ ~Given(w.id))
      BY <2>2, AloneInsertInvitation
    <3>2. \A v \in invitations : Given(v.id)
      BY NamedGiven DEF Named, RowNamed
    <3> QED BY <1>0, <3>1, <3>2 DEF FinalAnswers
  <2>3. CASE Mark(s)
    <3>1. PICK v \in invitations : v.id = task[s].invitation /\ v.status = "pending"
      BY <2>3, MarksPending
    <3>2. invitations' = {w \in invitations : w.id # task[s].invitation} \cup {Marked(task[s])}
      BY <2>3, MarksPending
    <3>3. Marked(task[s]).id = task[s].invitation
      BY DEF Marked, Copy
    <3> QED BY <1>0, <3>1, <3>2, <3>3 DEF FinalAnswers
  <2> QED BY <1>2, <2>1, <2>2, <2>3 DEF Query
<1>3. ASSUME NEW s \in Slots, CommentQuery(s)
      PROVE  FinalAnswers
  BY <1>1, <1>3, CommentQueryMoves DEF CommentMoves, tables
<1>4. CASE Request \/ CommentRequest
  <2>1. \E s \in Slots : \E t : Arrives(s, t)
    BY <1>4, RequestArrives, CommentRequestArrives DEF Inv
  <2> QED BY <1>1, <2>1 DEF Arrives, tables
<1>5. CASE Gateway \/ UNCHANGED <<vars, commentVars>>
  BY <1>1, <1>5 DEF Gateway, vars, tables
<1> QED BY <1>2, <1>3, <1>4, <1>5 DEF CommentsNext, MembershipStep, Next

---------------------------------------------------------------------------
(***************************************************************************)
(* Comments: as long as requests do not overlap or fail, sockets know what *)
(* the table says.                                                         *)
(***************************************************************************)

\* The event h that a socket heard last about comment i is what the table rows
\* says, when the projects in live exist.
Right(h, i, rows, live) ==
  /\ h.event = "gone" => \A c \in rows : c.id # i
  /\ h.event = "placed" /\ h.project \in live => \E c \in rows : c.id = i /\ Placed(c) = h

\* A request has written the comment with number i and is about to announce it.
Announces(t, i) == t.pc \in {"findMembers", "findOwner"} /\ t.row.id = i

\* What a request that runs alone knows, when the table is rows, of the
\* comment it has in hand.
KnowsComment(t, rows) ==
  /\ t.pc \in {"findMembers", "findOwner"} => t.row \in rows
  /\ t.pc \in {"saveComment", "findMembers", "findOwner"} => t.row.project = t.project

\* Sockets without the channel know nothing.
Attentive ==
  \A k \in Sockets : /\ DOMAIN heard[k] = Ids
                     /\ \A i \in Ids : k \notin Audience => heard[k][i] = Unheard

\* A project that is to be created, and one that was heard of.
NewProject(t, live, gone) == t.kind = "create" => t.project \notin live \cup gone
OldProject(h, live, gone) ==
  h.event = "placed" => h.project \in Projects /\ h.project \in live \cup gone

LiveProjects == {p \in Projects : Live(p)}

HeardRight(i) == \A k \in Sockets : Right(heard[k][i], i, comments, LiveProjects)

Hearing ==
  ~overlapped /\ failures = 0 =>
    /\ \A s \in Slots : KnowsComment(task[s], comments)
    /\ \A s \in Slots : NewProject(task[s], LiveProjects, deleted)
    /\ \A k \in Sockets, i \in Ids : OldProject(heard[k][i], LiveProjects, deleted)
    /\ \A i \in Ids : \/ HeardRight(i)
                      \/ \E s \in Slots : Announces(task[s], i)

LEMMA HearingInit == CommentsInit => Attentive /\ Hearing
<1> SUFFICES ASSUME CommentsInit PROVE Attentive /\ Hearing
  OBVIOUS
<1>1. /\ task = [s \in Slots |-> NoRequest]
      /\ heard = [k \in Sockets |-> [i \in Ids |-> Unheard]]
  BY DEF CommentsInit, Init
<1>2. NoRequest.pc = "idle" /\ NoRequest.kind = "none"
  BY DEF NoRequest, RequestAt
<1>3. Unheard.event = "none"
  BY DEF Unheard
<1>4. Attentive
  BY <1>1 DEF Attentive
<1>5. \A i \in Ids : HeardRight(i)
  BY <1>1, <1>3 DEF HeardRight, Right
<1> QED BY <1>1, <1>2, <1>3, <1>4, <1>5 DEF Hearing, KnowsComment, NewProject, OldProject

\* A connected socket keeps the channel.
LEMMA AudienceKept ==
  ASSUME GatewayInv, GatewayNext, NEW k \in Sockets, k \in Audience
  PROVE  k \in Audience' \/ line'[k] = "down"
<1>0. /\ line \in [Sockets -> {"new", "up", "down"}]
      /\ userSubscriptions \in [Sockets -> Subscription]
      /\ "projectInvitations" \in userSubscriptions[k].channels
  BY DEF GatewayInv, GatewayTypeOK, Audience
<1>1. \A j \in Sockets : "projectInvitations" \in userSubscriptions'[j].channels => j \in Audience'
  BY DEF Audience
<1>2. ASSUME NEW j \in Sockets, HandleConnection(j)
      PROVE  k \in Audience'
  BY <1>0, <1>1, <1>2 DEF HandleConnection
<1>3. ASSUME NEW j \in Sockets, HandleDisconnect(j)
      PROVE  k \in Audience' \/ line'[k] = "down"
  BY <1>0, <1>1, <1>3 DEF HandleDisconnect
<1>4. ASSUME NEW j \in Sockets, NEW u \in Users, NEW ch \in Channels, HandleSubscribe(j, u, ch)
      PROVE  k \in Audience'
  <2>1. userSubscriptions'[k].channels \in {userSubscriptions[k].channels,
                                            userSubscriptions[k].channels \cup {ch}}
    BY <1>0, <1>4 DEF HandleSubscribe
  <2> QED BY <1>0, <1>1, <2>1
<1> QED BY <1>2, <1>3, <1>4 DEF GatewayNext

LEMMA AudienceSame == UNCHANGED gateway => UNCHANGED Audience
BY DEF gateway, Audience

\* What sockets know after an event about comment i.
LEMMA HearIs ==
  ASSUME Attentive, NEW i, NEW e, Hear(i, e)
  PROVE  \A k \in Sockets :
           /\ DOMAIN heard'[k] = Ids
           /\ \A j \in Ids : heard'[k][j] = IF k \in Audience /\ j = i THEN e ELSE heard[k][j]
<1> TAKE k \in Sockets
<1>1. heard'[k] = IF k \in Audience THEN [heard[k] EXCEPT ![i] = e] ELSE heard[k]
  BY DEF Hear
<1> QED BY <1>1 DEF Attentive

\* The request in slot s, which is not about comments, becomes t.
QueryMoves(s, t) ==
  /\ \A x \in Slots : task'[x] = IF x = s THEN t ELSE task[x]
  /\ DOMAIN task' = DOMAIN task
  /\ task[s].pc \in PCs \ {"idle"}
  /\ t.pc \notin CommentPCs
  /\ t.kind = "create" => /\ task[s].kind = "create" /\ task[s].pc = "findName"
                          /\ t.project = task[s].project
  /\ UNCHANGED <<gateway, requests, overlapped>>

LEMMA CreateAt ==
  ASSUME NEW t, TaskOK(t), t.kind = "create"
  PROVE  t.pc \in {"findName", "insertProject"}
BY DEF TaskOK, Fits, PCs, CommentPCs

LEMMA QueryMovesTo ==
  ASSUME Inv, NEW s \in Slots, Query(s) \/ WriteFails(s)
  PROVE  \E t : QueryMoves(s, t)
<1> DEFINE c == task[s]
<1>0. DOMAIN task = Slots /\ TaskOK(c) /\ TasksInv
  BY DEF Inv, TasksInv
<1>1. /\ UNCHANGED <<gateway, requests, overlapped>>
      /\ c.pc \in PCs \ {"idle"}
  BY DEF Query, FindName, Permit, Owns, FindCollaborator, FindPending, Check, FindInvitation,
         InsertProject, DeleteRow, DeleteCollaborator, InsertCollaborator, InsertInvitation, Mark,
         Tell, DeleteInvitation, WriteFails, PCs
<1>2. ASSUME NEW t, task' = [task EXCEPT ![s] = t], t.pc \notin CommentPCs,
             t.kind = "create" => c.kind = "create" /\ c.pc = "findName" /\ t.project = c.project
      PROVE  \E u : QueryMoves(s, u)
  <2>1. (\A x \in Slots : task'[x] = IF x = s THEN t ELSE task[x]) /\ DOMAIN task' = DOMAIN task
    BY <1>0, <1>2
  <2>2. QueryMoves(s, t)
    BY <1>1, <1>2, <2>1 DEF QueryMoves
  <2> QED BY <2>2
<1>3. CASE Ended(s)
  <2>1. NoRequest.kind = "none" /\ NoRequest.pc = "idle"
    BY DEF NoRequest, RequestAt
  <2>2. ASSUME NEW t, t = NoRequest
        PROVE  \E u : QueryMoves(s, u)
    BY <1>2, <1>3, <2>1, <2>2 DEF Ended, CommentPCs
  <2> QED BY <2>2
<1>4. CASE GoOn(s) /\ ~Ended(s) /\ c.pc \notin {"findInvitation", "insertInvitation"}
  <2> DEFINE t == At(c, After(c))
  <2>1. After(c) # "idle" /\ task' = [task EXCEPT ![s] = t]
    BY <1>4 DEF GoOn
  <2>2. Follows(c, t)
    BY <2>1 DEF Follows
  <2>3. NextQuery(c)
    BY AfterIs
  <2>4. c.kind = "create" => c.pc = "findName"
    BY <1>0, <2>1, <2>3, CreateAt DEF NextQuery
  <2>5. t.pc \notin CommentPCs /\ t.kind = c.kind /\ t.project = c.project
    <3>1. t.pc # "idle"
      BY <2>1 DEF At, RequestAt
    <3> HIDE DEF t
    <3> QED BY <1>0, <1>1, <1>4, <2>2, <3>1, FollowsKeeps
  <2> HIDE DEF t
  <2> QED BY <1>2, <2>1, <2>4, <2>5
<1>5. CASE FindInvitation(s) /\ ~Ended(s)
  <2>1. PICK v : task' = [task EXCEPT ![s] = At(Found(c, v), After(c))]
    BY <1>5 DEF FindInvitation
  <2> DEFINE t == At(Found(c, v), After(c))
  <2>2. t.pc = After(c) /\ t.kind = c.kind
    BY DEF At, Found, RequestAt
  <2>3. c.kind \in {"accept", "reject", "cancel"} /\ c.pc = "findInvitation"
    BY <1>0, <1>5 DEF FindInvitation, TaskOK, Fits
  <2>4. After(c) = CASE c.kind = "accept" -> "findCollaborator"
                     [] c.kind = "reject" -> "mark"
                     [] c.kind = "cancel" -> "deleteInvitation"
    BY <2>3 DEF After
  <2>5. After(c) \notin CommentPCs
    BY <2>3, <2>4 DEF CommentPCs
  <2> HIDE DEF t
  <2>6. task' = [task EXCEPT ![s] = t]
    BY <2>1 DEF t
  <2> QED BY <1>2, <2>2, <2>3, <2>5, <2>6
<1>6. CASE InsertInvitation(s) /\ ~Ended(s)
  <2> DEFINE t == RequestAt("tell", c.kind, c.id, c.caller, c.project, c.user, c.role, c.id, c.caller)
  <2>1. task' = [task EXCEPT ![s] = t]
    BY <1>6 DEF InsertInvitation
  <2>2. t.pc = "tell" /\ t.kind = c.kind /\ c.kind # "create"
    BY <1>0, <1>6 DEF RequestAt, InsertInvitation, TaskOK, Fits
  <2> HIDE DEF t
  <2> QED BY <1>2, <2>1, <2>2 DEF CommentPCs
<1>7. \/ FindInvitation(s) \/ InsertInvitation(s)
      \/ Ended(s)
      \/ GoOn(s) /\ c.pc \notin {"findInvitation", "insertInvitation"}
  BY DEF Query, FindName, Permit, Owns, FindCollaborator, FindPending, Check,
         InsertProject, DeleteRow, DeleteCollaborator, InsertCollaborator, Mark, Tell,
         DeleteInvitation, WriteFails
<1> QED BY <1>3, <1>4, <1>5, <1>6, <1>7

\* Steps of requests leave sockets alone.
LEMMA OthersKeepGateway ==
  ASSUME Inv, [CommentsNext]_<<vars, commentVars>>
  PROVE  GatewayNext \/ UNCHANGED gateway
<1>1. ASSUME NEW s \in Slots, Query(s) \/ WriteFails(s)
      PROVE  UNCHANGED gateway
  BY <1>1, QueryMovesTo DEF QueryMoves
<1>2. ASSUME NEW s \in Slots, CommentQuery(s)
      PROVE  UNCHANGED gateway
  BY <1>2, CommentQueryMoves DEF CommentMoves
<1>3. CASE Request \/ CommentRequest
  <2>1. \E s \in Slots : \E t : Arrives(s, t)
    BY <1>3, RequestArrives, CommentRequestArrives DEF Inv
  <2> QED BY <2>1 DEF Arrives
<1> QED BY <1>1, <1>2, <1>3 DEF CommentsNext, MembershipStep, Next, Gateway, vars

LEMMA GatewayInvariance == CommentsSpec => []GatewayInv
<1>1. CommentsInit => GatewayInv
  BY GatewayInvInit DEF CommentsInit, Init
<1>2. Inv /\ GatewayInv /\ [CommentsNext]_<<vars, commentVars>> => GatewayInv'
  BY OthersKeepGateway, GatewayInvStep, GatewayInvKept
<1> QED BY <1>1, <1>2, Invariance, PTL DEF CommentsSpec

LEMMA AttentiveStep ==
  ASSUME Inv, GatewayInv, Attentive, [CommentsNext]_<<vars, commentVars>>
  PROVE  Attentive'
<1>1. ASSUME UNCHANGED gateway,
             \/ UNCHANGED heard
             \/ \E i, e : Hear(i, e)
      PROVE  Attentive'
  <2>1. Audience' = Audience
    BY <1>1, AudienceSame
  <2>2. CASE UNCHANGED heard
    BY <2>1, <2>2 DEF Attentive
  <2>3. ASSUME NEW i, NEW e, Hear(i, e)
        PROVE  Attentive'
    BY <2>1, <2>3, HearIs DEF Attentive
  <2> QED BY <1>1, <2>2, <2>3
<1>2. CASE MembershipStep
  <2>1. \A k \in Sockets : heard'[k] = IF line'[k] = "down" THEN [i \in Ids |-> Unheard] ELSE heard[k]
    BY <1>2 DEF MembershipStep
  <2>2. \A k \in Sockets : k \notin Audience' => k \notin Audience \/ line'[k] = "down"
    <3>1. CASE GatewayNext
      BY <3>1, AudienceKept
    <3>2. CASE UNCHANGED gateway
      BY <3>2, AudienceSame
    <3> QED BY <3>1, <3>2, OthersKeepGateway
  <2> QED BY <2>1, <2>2 DEF Attentive
<1>3. CASE CommentRequest
  <2>1. UNCHANGED gateway /\ UNCHANGED heard
    BY <1>3, CommentRequestArrives DEF Inv, Arrives, commentVars
  <2> QED BY <1>1, <2>1
<1>4. ASSUME NEW s \in Slots, CommentQuery(s)
      PROVE  Attentive'
  <2>1. UNCHANGED gateway
    BY <1>4, CommentQueryMoves DEF CommentMoves
  <2>2. UNCHANGED heard \/ \E i, e : Hear(i, e)
    BY <1>4 DEF CommentQuery, MayComment, InsertComment, FindComment, SaveComment, FindMembers,
                FindOwner, RemoveComment, CommentFails, commentVars
  <2> QED BY <1>1, <2>1, <2>2
<1>5. CASE UNCHANGED <<vars, commentVars>>
  BY <1>1, <1>5 DEF vars, commentVars
<1> QED BY <1>2, <1>3, <1>4, <1>5 DEF CommentsNext

\* The tables of projects in a step of a request: no project comes back.
LEMMA ProjectsStep ==
  ASSUME Inv, NEW s \in Slots, Query(s) \/ WriteFails(s)
  PROVE  /\ \A p \in Projects : /\ Live(p)' => Live(p) \/ (InsertProject(s) /\ p = task[s].project)
                                /\ Live(p) => Live(p)' \/ p \in deleted'
         /\ deleted \subseteq deleted'
         /\ task[s].pc = "findName" => UNCHANGED <<owner, deleted>>
<1> DEFINE c == task[s]
<1>0. TaskOK(c) /\ owner \in [Projects -> Users \cup {None}]
  BY DEF Inv, TasksInv, RowsInv, RowsTyped
<1>1. CASE InsertProject(s)
  <2>1. owner' = [owner EXCEPT ![c.project] = c.caller] /\ deleted' = deleted /\ c.pc = "insertProject"
    BY <1>1 DEF InsertProject
  <2>2. c.project \in Projects /\ c.caller # None
    BY <1>0, <2>1, GatewayConstants DEF TaskOK, AboutProject, PCs
  <2>3. \A p \in Projects : owner'[p] = IF p = c.project THEN c.caller ELSE owner[p]
    BY <1>0, <2>1
  <2> QED BY <1>1, <2>1, <2>2, <2>3 DEF Live
<1>2. CASE DeleteRow(s) /\ ~UNCHANGED <<owner, deleted>>
  <2>1. owner' = [owner EXCEPT ![c.project] = None] /\ deleted' = deleted \cup {c.project}
        /\ c.pc = "deleteProject"
    BY <1>2 DEF DeleteRow, tables
  <2>2. \A p \in Projects : owner'[p] = IF p = c.project THEN None ELSE owner[p]
    BY <1>0, <2>1
  <2> QED BY <2>1, <2>2 DEF Live
<1>3. CASE UNCHANGED <<owner, deleted>>
  BY <1>3 DEF Live
<1>4. InsertProject(s) \/ DeleteRow(s) \/ UNCHANGED <<owner, deleted>>
  BY DEF Query, FindName, Permit, Owns, FindCollaborator, FindPending, Check, FindInvitation,
         DeleteCollaborator, InsertCollaborator, InsertInvitation, Mark,
         Tell, DeleteInvitation, WriteFails, tables
<1> QED BY <1>1, <1>2, <1>3, <1>4

\* What is right stays right when the comments of dead projects go, as long
\* as no project comes back.
LEMMA StaysRight ==
  ASSUME NEW h, NEW i, NEW rows, NEW live, NEW left, Right(h, i, rows, live),
         h.event = "placed" /\ h.project \in left => h.project \in live
  PROVE  Right(h, i, {c \in rows : c.project \in left}, left)
<1>1. ASSUME h.event = "placed", h.project \in left
      PROVE  \E c \in rows : c.project \in left /\ c.id = i /\ Placed(c) = h
  <2>1. PICK c \in rows : c.id = i /\ Placed(c) = h
    BY <1>1 DEF Right
  <2>2. h.project = c.project
    BY <2>1 DEF Placed
  <2> QED BY <1>1, <2>1, <2>2
<1> QED BY <1>1 DEF Right

\* A socket that is gone, or that heard nothing, is right.
LEMMA UnheardRight ==
  ASSUME NEW i, NEW rows, NEW live
  PROVE  Right(Unheard, i, rows, live)
BY DEF Right, Unheard

\* A step of a request that is not about comments, and runs alone.
LEMMA HearingQuery ==
  ASSUME Inv, Alone, Hearing, ~overlapped, failures = 0, NEW s \in Slots, Query(s) \/ WriteFails(s),
         comments' = {c \in comments : c.project \in LiveProjects'},
         \A k \in Sockets : heard'[k] \in {heard[k], [j \in Ids |-> Unheard]}
  PROVE  Hearing'
<1>1. PICK t : QueryMoves(s, t)
  BY QueryMovesTo
<1>2. /\ \A x \in Slots : task'[x] = IF x = s THEN t ELSE task[x]
      /\ \A x \in Slots : x # s => task[x].pc = "idle"
      /\ task[s].pc \notin CommentPCs /\ task[s].pc # "idle" /\ t.pc \notin CommentPCs
  BY <1>1 DEF QueryMoves, Alone, OneBusy, PCs, CommentPCs
<1>3. \A x \in Slots : x # s => task[x].kind = "none"
  BY <1>2 DEF Inv, TasksInv, TaskOK, Fits
<1>4. \A x \in Slots : KnowsComment(task'[x], comments')
  BY <1>2 DEF KnowsComment, CommentPCs
<1>5. \A x \in Slots : NewProject(task'[x], LiveProjects', deleted')
  <2>1. t.kind = "create" => /\ task[s].kind = "create" /\ t.project = task[s].project
                             /\ LiveProjects' = LiveProjects /\ deleted' = deleted
    BY <1>1, ProjectsStep DEF QueryMoves, LiveProjects, Live
  <2>2. NewProject(t, LiveProjects', deleted')
    BY <2>1 DEF NewProject, Hearing
  <2> QED BY <1>2, <1>3, <2>2 DEF NewProject
<1>6. \A p \in Projects : p \in LiveProjects \cup deleted => p \in LiveProjects' \cup deleted'
  BY ProjectsStep DEF LiveProjects
<1>7. \A k \in Sockets, i \in Ids : heard'[k][i] = heard[k][i] \/ heard'[k][i] = Unheard
  OBVIOUS
<1>8. \A k \in Sockets, i \in Ids : OldProject(heard'[k][i], LiveProjects', deleted')
  <2>1. Unheard.event # "placed"
    BY DEF Unheard
  <2> QED BY <1>6, <1>7, <2>1 DEF Hearing, OldProject
<1>9. ASSUME NEW i \in Ids
      PROVE  HeardRight(i)'
  <2>1. \A x \in Slots : ~Announces(task[x], i)
    BY <1>2 DEF Announces, CommentPCs
  <2>2. HeardRight(i)
    BY <2>1 DEF Hearing
  <2>3. ASSUME NEW k \in Sockets
        PROVE  Right(heard'[k][i], i, comments', LiveProjects')
    <3>1. ASSUME NEW p, p = heard[k][i].project, heard[k][i].event = "placed", p \in LiveProjects'
          PROVE  p \in LiveProjects
      <4>1. p \in Projects /\ p \in LiveProjects \cup deleted
        BY <3>1 DEF Hearing, OldProject
      <4>2. CASE InsertProject(s) /\ p = task[s].project
        <5>1. task[s].kind = "create"
          BY <4>2 DEF InsertProject, Inv, TasksInv, TaskOK, Fits
        <5> QED BY <4>1, <4>2, <5>1 DEF Hearing, NewProject
      <4>3. Live(p)'
        BY <3>1 DEF LiveProjects, Live
      <4> QED BY <4>1, <4>2, <4>3, ProjectsStep DEF LiveProjects
    <3>2. Right(heard[k][i], i, comments, LiveProjects)
      BY <2>2 DEF HeardRight
    <3>3. Right(heard[k][i], i, comments', LiveProjects')
      BY <3>1, <3>2, StaysRight
    <3> QED BY <1>7, <3>3, UnheardRight
  <2> QED BY <2>3 DEF HeardRight
<1> QED BY <1>4, <1>5, <1>8, <1>9 DEF Hearing

\* No comment goes while its project is there.
LEMMA AllKept == Inv => {c \in comments : c.project \in LiveProjects} = comments
BY DEF Inv, RowsInv, RowsTyped, CommentsRefer, LiveProjects

\* A step of the gateway: sockets that go know nothing.
LEMMA HearingGateway ==
  ASSUME Inv, Hearing, UNCHANGED <<tables, task, overlapped, failures>>, comments' = comments,
         \A k \in Sockets : heard'[k] \in {heard[k], [j \in Ids |-> Unheard]}
  PROVE  Hearing'
<1>1. LiveProjects' = LiveProjects /\ UNCHANGED <<deleted, task, overlapped, failures>>
  BY DEF LiveProjects, Live, tables
<1>2. \A k \in Sockets, i \in Ids : heard'[k][i] = heard[k][i] \/ heard'[k][i] = Unheard
  OBVIOUS
<1>3. Unheard.event # "placed"
  BY DEF Unheard
<1>4. \A i \in Ids : HeardRight(i) => HeardRight(i)'
  BY <1>1, <1>2, UnheardRight DEF HeardRight
<1>5. \A x \in Slots, i \in Ids : Announces(task[x], i) => Announces(task'[x], i)
  BY <1>1
<1>6. \A k \in Sockets, i \in Ids :
        OldProject(heard[k][i], LiveProjects, deleted)
          => OldProject(heard'[k][i], LiveProjects', deleted')
  BY <1>1, <1>2, <1>3 DEF OldProject
<1>7. /\ \A x \in Slots : KnowsComment(task[x], comments) => KnowsComment(task'[x], comments')
      /\ \A x \in Slots : NewProject(task[x], LiveProjects, deleted)
                            => NewProject(task'[x], LiveProjects', deleted')
  BY <1>1
<1> QED BY <1>1, <1>4, <1>5, <1>6, <1>7 DEF Hearing

\* A request arrives while no other runs.
LEMMA HearingArrives ==
  ASSUME Inv, Hearing, NEW s \in Slots, NEW t, Arrives(s, t), comments' = comments,
         \A k \in Sockets : heard'[k] \in {heard[k], [j \in Ids |-> Unheard]},
         NewProject(t, LiveProjects, deleted)
  PROVE  Hearing'
<1> SUFFICES ASSUME ~overlapped', failures' = 0
             PROVE  Hearing'
  BY DEF Hearing
<1>1. /\ \A x \in Slots : task'[x] = IF x = s THEN t ELSE task[x]
      /\ ~overlapped /\ FreeSlots = Slots /\ failures = 0
      /\ LiveProjects' = LiveProjects /\ deleted' = deleted
      /\ t.pc \notin {"saveComment", "findMembers", "findOwner"}
  BY DEF Arrives, LiveProjects, Live, tables
<1>2. \A x \in Slots : task[x].pc = "idle"
  BY <1>1 DEF FreeSlots
<1>3. \A k \in Sockets, i \in Ids : heard'[k][i] = heard[k][i] \/ heard'[k][i] = Unheard
  OBVIOUS
<1>4. \A i \in Ids : HeardRight(i)'
  <2>1. \A i \in Ids : HeardRight(i)
    BY <1>1, <1>2 DEF Hearing, Announces
  <2> QED BY <1>1, <1>3, <2>1, UnheardRight DEF HeardRight
<1>5. \A k \in Sockets, i \in Ids : OldProject(heard'[k][i], LiveProjects', deleted')
  <2>1. Unheard.event # "placed"
    BY DEF Unheard
  <2> QED BY <1>1, <1>3, <2>1 DEF Hearing, OldProject
<1>6. \A x \in Slots : NewProject(task'[x], LiveProjects', deleted')
  BY <1>1 DEF Hearing
<1>7. \A x \in Slots : KnowsComment(task'[x], comments')
  <2>1. KnowsComment(t, comments')
    BY <1>1 DEF KnowsComment
  <2>2. \A x \in Slots : KnowsComment(task[x], comments')
    BY <1>2 DEF KnowsComment
  <2> QED BY <1>1, <2>1, <2>2
<1> QED BY <1>4, <1>5, <1>6, <1>7 DEF Hearing

\* What is right of a comment is right when other comments change.
LEMMA RightSame ==
  ASSUME NEW h, NEW i, NEW rows, NEW live, NEW others, Right(h, i, rows, live),
         \A c \in rows \cup others : c.id = i => (c \in rows <=> c \in others)
  PROVE  Right(h, i, others, live)
BY DEF Right

\* The request about comments in slot s, which runs alone, becomes t.
LEMMA HearingMoves ==
  ASSUME Inv, Inv', Alone, Hearing, ~overlapped, failures = 0, NEW s \in Slots, NEW t,
         CommentMoves(s, t), KnowsComment(t, comments'),
         \A k \in Sockets, i \in Ids : OldProject(heard'[k][i], LiveProjects, deleted),
         \A i \in Ids : HeardRight(i)' \/ Announces(t, i)
  PROVE  Hearing'
<1>1. /\ \A x \in Slots : task'[x] = IF x = s THEN t ELSE task[x]
      /\ \A x \in Slots : x # s => task[x].pc = "idle"
      /\ LiveProjects' = LiveProjects /\ deleted' = deleted
      /\ t.pc \in CommentPCs \cup {"idle"}
  BY DEF CommentMoves, Alone, OneBusy, CommentPCs, LiveProjects, Live, tables
<1>2. \A x \in Slots : KnowsComment(task'[x], comments')
  <2>1. \A x \in Slots : x # s => task'[x].pc = "idle"
    BY <1>1
  <2>2. \A x \in Slots : x # s => KnowsComment(task'[x], comments')
    BY <2>1 DEF KnowsComment
  <2> QED BY <1>1, <2>2
<1>3. \A x \in Slots : NewProject(task'[x], LiveProjects', deleted')
  <2>1. \A x \in Slots : TaskOK(task'[x])
    BY DEF Inv, TasksInv, TaskOK
  <2>2. \A x \in Slots : task'[x].pc \in CommentPCs \cup {"idle"}
    BY <1>1
  <2>3. \A x \in Slots : task'[x].kind # "create"
    BY <2>1, <2>2 DEF TaskOK, Fits, CommentPCs
  <2> QED BY <2>3 DEF NewProject
<1>4. \A i \in Ids : HeardRight(i)' \/ \E x \in Slots : Announces(task'[x], i)
  BY <1>1
<1> QED BY <1>1, <1>2, <1>3, <1>4 DEF Hearing, Announces

\* Everybody with the channel hears e about comment j.
LEMMA HearRight ==
  ASSUME Attentive, NEW j, NEW e, Hear(j, e), LiveProjects' = LiveProjects,
         Right(e, j, comments', LiveProjects),
         \A i \in Ids : i # j => HeardRight(i),
         \A c \in comments \cup comments' : c.id # j => (c \in comments <=> c \in comments'),
         \A k \in Sockets, i \in Ids : OldProject(heard[k][i], LiveProjects, deleted),
         OldProject(e, LiveProjects, deleted)
  PROVE  /\ \A i \in Ids : HeardRight(i)'
         /\ \A k \in Sockets, i \in Ids : OldProject(heard'[k][i], LiveProjects, deleted)
<1>1. \A k \in Sockets, i \in Ids : heard'[k][i] = IF k \in Audience /\ i = j THEN e ELSE heard[k][i]
  BY HearIs
<1>2. ASSUME NEW k \in Sockets, NEW i \in Ids
      PROVE  Right(heard'[k][i], i, comments', LiveProjects)
  <2>1. CASE k \in Audience /\ i = j
    BY <1>1, <2>1
  <2>2. CASE k \notin Audience
    <3>1. heard'[k][i] = Unheard
      BY <1>1, <2>2 DEF Attentive
    <3> QED BY <3>1, UnheardRight
  <2>3. CASE i # j
    <3>1. Right(heard[k][i], i, comments, LiveProjects)
      BY <2>3 DEF HeardRight
    <3>2. Right(heard[k][i], i, comments', LiveProjects)
      BY <2>3, <3>1, RightSame
    <3> QED BY <1>1, <2>3, <3>2
  <2> QED BY <2>1, <2>2, <2>3
<1>3. \A i \in Ids : HeardRight(i)'
  BY <1>2 DEF HeardRight
<1> QED BY <1>1, <1>3

\* A request about comments that runs alone: what it has become.
LEMMA AloneAtComment ==
  ASSUME Inv, Alone, Hearing, ~overlapped, failures = 0, NEW s \in Slots, CommentQuery(s)
  PROVE  /\ CommentMoves(s, task'[s]) /\ LiveProjects' = LiveProjects
         /\ DOMAIN task = Slots /\ DOMAIN task[s] = CommentFields
         /\ KnowsComment(task[s], comments)
         /\ \A k \in Sockets, i \in Ids : OldProject(heard[k][i], LiveProjects, deleted)
         /\ \A i \in Ids : HeardRight(i) \/ Announces(task[s], i)
<1>1. PICK t : CommentMoves(s, t)
  BY CommentQueryMoves
<1>2. CommentMoves(s, task'[s])
  BY <1>1 DEF CommentMoves
<1>3. LiveProjects' = LiveProjects
  BY <1>1 DEF CommentMoves, LiveProjects, Live, tables
<1>4. DOMAIN task = Slots /\ DOMAIN task[s] = CommentFields
  BY <1>1 DEF CommentMoves, Inv, TasksInv, TaskOK
<1>5. \A x \in Slots : x # s => task[x].pc = "idle"
  BY <1>1 DEF CommentMoves, Alone, OneBusy, CommentPCs
<1>6. \A i \in Ids : HeardRight(i) \/ Announces(task[s], i)
  BY <1>5 DEF Hearing, Announces
<1> QED BY <1>2, <1>3, <1>4, <1>6 DEF Hearing

\* A query that ends the request, or reads, and leaves comments and sockets alone.
LEMMA HearingRead ==
  ASSUME Inv, Inv', Alone, Hearing, ~overlapped, failures = 0, NEW s \in Slots, CommentQuery(s),
         UNCHANGED commentVars, task[s].pc \notin {"findMembers", "findOwner"},
         KnowsComment(task'[s], comments)
  PROVE  Hearing'
<1> DEFINE t == task'[s]
<1>1. /\ CommentMoves(s, t) /\ comments' = comments /\ LiveProjects' = LiveProjects
      /\ \A k \in Sockets, i \in Ids : OldProject(heard'[k][i], LiveProjects, deleted)
      /\ \A i \in Ids : HeardRight(i)
  BY AloneAtComment DEF commentVars, Announces
<1>2. \A i \in Ids : HeardRight(i)'
  BY <1>1 DEF HeardRight, commentVars
<1>3. KnowsComment(t, comments')
  BY <1>1
<1> HIDE DEF t
<1> QED BY <1>1, <1>2, <1>3, HearingMoves

LEMMA HearingMayComment ==
  ASSUME Inv, Inv', Alone, Hearing, ~overlapped, failures = 0, NEW s \in Slots, MayComment(s)
  PROVE  Hearing'
<1>0. CommentQuery(s)
  BY DEF CommentQuery
<1>1. DOMAIN task = Slots /\ DOMAIN task[s] = CommentFields
  BY <1>0, AloneAtComment
<1>2. task[s].pc = "mayComment" /\ UNCHANGED commentVars
  BY DEF MayComment
<1>3. task'[s].pc \in {"idle", "insertComment", "findComment"}
  <2>1. \/ task'[s] = NoRequest
        \/ task'[s] = Going(task[s], IF task[s].kind = "comment" THEN "insertComment" ELSE "findComment")
    BY <1>1 DEF MayComment
  <2> QED BY <1>1, <2>1, NoRequestOK DEF Going, CommentFields
<1>4. KnowsComment(task'[s], comments)
  BY <1>3 DEF KnowsComment
<1> QED BY <1>0, <1>2, <1>4, HearingRead

LEMMA HearingFindComment ==
  ASSUME Inv, Inv', Alone, Hearing, ~overlapped, failures = 0, NEW s \in Slots, FindComment(s)
  PROVE  Hearing'
<1> DEFINE c == task[s]
<1>0. CommentQuery(s)
  BY DEF CommentQuery
<1>1. DOMAIN task = Slots /\ DOMAIN c = CommentFields
  BY <1>0, AloneAtComment
<1>2. c.pc = "findComment" /\ UNCHANGED commentVars
  BY DEF FindComment
<1>3. CASE Ended(s)
  <2>1. task'[s].pc = "idle"
    BY <1>1, <1>3, NoRequestOK DEF Ended
  <2>2. KnowsComment(task'[s], comments)
    BY <2>1 DEF KnowsComment
  <2> QED BY <1>0, <1>2, <2>2, HearingRead
<1>4. CASE ~Ended(s)
  <2>1. PICK d \in comments :
          /\ Allowed(c, d)
          /\ task' = [task EXCEPT ![s] = [Going(c, IF c.kind = "move" THEN "saveComment"
                                                   ELSE "removeComment") EXCEPT !.row = d]]
    BY <1>4 DEF FindComment
  <2>2. task'[s] = [Going(c, IF c.kind = "move" THEN "saveComment" ELSE "removeComment")
                      EXCEPT !.row = d]
    BY <1>1, <2>1
  <2>3. /\ task'[s].pc = IF c.kind = "move" THEN "saveComment" ELSE "removeComment"
        /\ task'[s].row = d /\ task'[s].project = c.project
    BY <1>1, <2>2 DEF Going, CommentFields
  <2>4. c.kind = "move" => d.project = c.project
    BY <2>1 DEF Allowed
  <2>5. KnowsComment(task'[s], comments)
    BY <2>3, <2>4 DEF KnowsComment
  <2> QED BY <1>0, <1>2, <2>5, HearingRead
<1> QED BY <1>3, <1>4

\* A request writes row, which it is about to announce.
LEMMA HearingWrites ==
  ASSUME Inv, Inv', Alone, Hearing, ~overlapped, failures = 0, NEW s \in Slots, CommentQuery(s),
         task[s].pc \notin {"findMembers", "findOwner"},
         NEW row, row \in comments', row.project = task[s].project, heard' = heard,
         \A c \in comments \cup comments' : c.id # row.id => (c \in comments <=> c \in comments'),
         task'[s] = [Going(task[s], "findMembers") EXCEPT !.row = row]
  PROVE  Hearing'
<1> DEFINE t == task'[s]
<1>1. /\ CommentMoves(s, t) /\ LiveProjects' = LiveProjects /\ DOMAIN task[s] = CommentFields
      /\ \A k \in Sockets, i \in Ids : OldProject(heard'[k][i], LiveProjects, deleted)
      /\ \A i \in Ids : HeardRight(i)
  BY AloneAtComment DEF Announces
<1>2. t.pc = "findMembers" /\ t.row = row /\ t.project = task[s].project
  BY <1>1 DEF Going, CommentFields
<1> HIDE DEF t
<1>3. KnowsComment(t, comments')
  BY <1>2 DEF KnowsComment
<1>4. ASSUME NEW i \in Ids, i # row.id, NEW k \in Sockets
      PROVE  Right(heard[k][i], i, comments', LiveProjects)
  <2>1. Right(heard[k][i], i, comments, LiveProjects)
    BY <1>1 DEF HeardRight
  <2> QED BY <1>4, <2>1, RightSame
<1>5. \A i \in Ids : HeardRight(i)' \/ Announces(t, i)
  BY <1>1, <1>2, <1>4 DEF HeardRight, Announces
<1> QED BY <1>1, <1>3, <1>5, HearingMoves

LEMMA HearingInsertComment ==
  ASSUME Inv, Inv', Alone, Hearing, ~overlapped, failures = 0, NEW s \in Slots, InsertComment(s)
  PROVE  Hearing'
<1> DEFINE c == task[s]
           row == [id |-> c.id, project |-> c.project, author |-> c.caller, place |-> c.id]
<1>0. CommentQuery(s) /\ c.pc = "insertComment" /\ heard' = heard
  BY DEF CommentQuery, InsertComment
<1>1. DOMAIN task = Slots
  BY <1>0, AloneAtComment
<1>2. CASE ~Live(c.project)
  <2>1. Ended(s) /\ UNCHANGED commentVars
    BY <1>2 DEF InsertComment, commentVars
  <2>2. task'[s].pc = "idle"
    BY <1>1, <2>1, NoRequestOK DEF Ended
  <2>3. KnowsComment(task'[s], comments)
    BY <2>2 DEF KnowsComment
  <2> QED BY <1>0, <2>1, <2>3, HearingRead
<1>3. CASE Live(c.project)
  <2>1. /\ comments' = comments \cup {row} /\ row.project = c.project
        /\ task' = [task EXCEPT ![s] = [Going(c, "findMembers") EXCEPT !.row = row]]
    BY <1>3 DEF InsertComment
  <2> HIDE DEF row
  <2>2. task'[s] = [Going(c, "findMembers") EXCEPT !.row = row]
    BY <1>1, <2>1
  <2>3. \A d \in comments \cup comments' : d.id # row.id => (d \in comments <=> d \in comments')
    BY <2>1
  <2> QED BY <1>0, <2>1, <2>2, <2>3, HearingWrites
<1> QED BY <1>2, <1>3

LEMMA HearingSaveComment ==
  ASSUME Inv, Inv', Alone, Hearing, ~overlapped, failures = 0, NEW s \in Slots, SaveComment(s)
  PROVE  Hearing'
<1> DEFINE c == task[s]
           row == [c.row EXCEPT !.place = c.id]
<1>0. CommentQuery(s) /\ c.pc = "saveComment" /\ heard' = heard
  BY DEF CommentQuery, SaveComment
<1>1. /\ DOMAIN task = Slots /\ KnowsComment(c, comments) /\ DOMAIN c.row = RowFields
      /\ c.row.project = c.project
  BY <1>0, AloneAtComment DEF KnowsComment, Inv, TasksInv, TaskOK
<1>2. CASE ~Live(row.project)
  <2>1. Ended(s) /\ UNCHANGED commentVars
    BY <1>2 DEF SaveComment, commentVars
  <2>2. task'[s].pc = "idle"
    BY <1>1, <2>1, NoRequestOK DEF Ended
  <2>3. KnowsComment(task'[s], comments)
    BY <2>2 DEF KnowsComment
  <2> QED BY <1>0, <2>1, <2>3, HearingRead
<1>3. CASE Live(row.project)
  <2>1. row.project = c.project
    BY <1>1 DEF RowFields
  <2>2. /\ comments' = {d \in comments : d.id # row.id} \cup {row}
        /\ task' = [task EXCEPT ![s] = [Going(c, "findMembers") EXCEPT !.row = row]]
    BY <1>3 DEF SaveComment
  <2> HIDE DEF row
  <2>3. task'[s] = [Going(c, "findMembers") EXCEPT !.row = row]
    BY <1>1, <2>2
  <2>4. \A d \in comments \cup comments' : d.id # row.id => (d \in comments <=> d \in comments')
    BY <2>2
  <2> QED BY <1>0, <2>1, <2>2, <2>3, <2>4, HearingWrites
<1> QED BY <1>2, <1>3

\* A request announces the comment it has in hand, which is in the table.
LEMMA HearingTells ==
  ASSUME Inv, Inv', Attentive, Alone, Hearing, ~overlapped, failures = 0, NEW s \in Slots,
         CommentQuery(s), task[s].pc \in {"findMembers", "findOwner"},
         Hear(task[s].row.id, Placed(task[s].row)), Ended(s), comments' = comments
  PROVE  Hearing'
<1> DEFINE t == task'[s]
           row == task[s].row
<1>1. /\ CommentMoves(s, t) /\ LiveProjects' = LiveProjects /\ DOMAIN task = Slots
      /\ \A k \in Sockets, i \in Ids : OldProject(heard[k][i], LiveProjects, deleted)
      /\ \A i \in Ids : HeardRight(i) \/ Announces(task[s], i)
      /\ row \in comments
  BY AloneAtComment DEF KnowsComment
<1>2. t.pc = "idle"
  BY <1>1, NoRequestOK DEF Ended
<1>3. \A i \in Ids : i # row.id => HeardRight(i)
  BY <1>1 DEF Announces
<1> DEFINE e == Placed(row)
<1>4. e.event = "placed" /\ e.project = row.project
  BY DEF Placed
<1>5. row.project \in Projects /\ row.project \in LiveProjects
  BY <1>1 DEF Inv, RowsInv, RowsTyped, CommentsRefer, LiveProjects
<1>6. Right(e, row.id, comments', LiveProjects)
  BY <1>1, <1>4 DEF Right
<1>7. OldProject(e, LiveProjects, deleted)
  BY <1>4, <1>5 DEF OldProject
<1>8. Hear(row.id, e)
  OBVIOUS
<1> HIDE DEF t, e, row
<1>9. /\ \A i \in Ids : HeardRight(i)'
      /\ \A k \in Sockets, i \in Ids : OldProject(heard'[k][i], LiveProjects, deleted)
  BY <1>1, <1>3, <1>6, <1>7, <1>8, HearRight
<1>10. KnowsComment(t, comments')
  BY <1>2 DEF KnowsComment
<1> QED BY <1>1, <1>9, <1>10, HearingMoves

LEMMA HearingFindMembers ==
  ASSUME Inv, Inv', Attentive, Alone, Hearing, ~overlapped, failures = 0, NEW s \in Slots,
         FindMembers(s)
  PROVE  Hearing'
<1> DEFINE c == task[s]
           t == task'[s]
<1>0. CommentQuery(s) /\ c.pc = "findMembers" /\ comments' = comments
  BY DEF CommentQuery, FindMembers
<1>1. CASE c.kind = "comment"
  BY <1>0, <1>1, HearingTells DEF FindMembers
<1>2. CASE c.kind # "comment"
  <2>1. /\ CommentMoves(s, t) /\ LiveProjects' = LiveProjects
        /\ DOMAIN task = Slots /\ DOMAIN c = CommentFields
        /\ \A k \in Sockets, i \in Ids : OldProject(heard[k][i], LiveProjects, deleted)
        /\ \A i \in Ids : HeardRight(i) \/ Announces(c, i)
        /\ KnowsComment(c, comments)
    BY <1>0, AloneAtComment
  <2>2. /\ t = [Going(c, "findOwner") EXCEPT !.members =
                  \E r \in collaborators : r.project = c.project]
        /\ heard' = heard
    BY <1>2, <2>1 DEF FindMembers
  <2>3. t.pc = "findOwner" /\ t.row = c.row /\ t.project = c.project
    BY <2>1, <2>2 DEF Going, CommentFields
  <2> HIDE DEF t, c
  <2>4. KnowsComment(t, comments')
    BY <1>0, <2>1, <2>3 DEF KnowsComment
  <2>5. \A i \in Ids : Announces(c, i) => Announces(t, i)
    BY <2>3 DEF Announces
  <2>6. \A i \in Ids : HeardRight(i) => HeardRight(i)'
    BY <1>0, <2>1, <2>2 DEF HeardRight
  <2>7. \A k \in Sockets, i \in Ids : OldProject(heard'[k][i], LiveProjects, deleted)
    BY <2>1, <2>2
  <2>8. \A i \in Ids : HeardRight(i)' \/ Announces(t, i)
    BY <2>1, <2>5, <2>6
  <2> QED BY <2>1, <2>4, <2>7, <2>8, HearingMoves
<1> QED BY <1>1, <1>2

\* The project of a comment that was moved is still there, so its owner is told.
LEMMA HearingFindOwner ==
  ASSUME Inv, Inv', Attentive, Alone, Hearing, ~overlapped, failures = 0, NEW s \in Slots,
         FindOwner(s)
  PROVE  Hearing'
<1> DEFINE c == task[s]
<1>0. CommentQuery(s) /\ c.pc = "findOwner" /\ comments' = comments /\ Ended(s)
  BY DEF CommentQuery, FindOwner
<1>1. c.row \in comments /\ c.row.project = c.project
  BY <1>0, AloneAtComment DEF KnowsComment
<1>2. Live(c.project)
  BY <1>1 DEF Inv, RowsInv, CommentsRefer
<1>3. Hear(c.row.id, Placed(c.row))
  BY <1>2 DEF FindOwner, Moved
<1> QED BY <1>0, <1>3, HearingTells

LEMMA HearingRemoveComment ==
  ASSUME Inv, Inv', Attentive, Alone, Hearing, ~overlapped, failures = 0, NEW s \in Slots,
         RemoveComment(s)
  PROVE  Hearing'
<1> DEFINE c == task[s]
           t == task'[s]
           j == c.comment
<1>0. /\ CommentQuery(s) /\ c.pc = "removeComment" /\ Ended(s) /\ Hear(j, Gone)
      /\ comments' = {d \in comments : d.id # j}
  BY DEF CommentQuery, RemoveComment
<1>1. /\ CommentMoves(s, t) /\ LiveProjects' = LiveProjects /\ DOMAIN task = Slots
      /\ \A k \in Sockets, i \in Ids : OldProject(heard[k][i], LiveProjects, deleted)
      /\ \A i \in Ids : HeardRight(i)
  BY <1>0, AloneAtComment DEF Announces
<1>2. t.pc = "idle"
  BY <1>0, <1>1, NoRequestOK DEF Ended
<1>3. Gone.event = "gone"
  BY DEF Gone
<1>4. Right(Gone, j, comments', LiveProjects) /\ OldProject(Gone, LiveProjects, deleted)
  BY <1>0, <1>3 DEF Right, OldProject
<1>5. \A d \in comments \cup comments' : d.id # j => (d \in comments <=> d \in comments')
  BY <1>0
<1> HIDE DEF t, j
<1>6. /\ \A i \in Ids : HeardRight(i)'
      /\ \A k \in Sockets, i \in Ids : OldProject(heard'[k][i], LiveProjects, deleted)
  BY <1>0, <1>1, <1>4, <1>5, HearRight
<1>7. KnowsComment(t, comments')
  BY <1>2 DEF KnowsComment
<1> QED BY <1>1, <1>6, <1>7, HearingMoves

LEMMA HearingCommentQuery ==
  ASSUME Inv, Inv', Attentive, Alone, Hearing, ~overlapped, failures = 0, NEW s \in Slots,
         CommentQuery(s)
  PROVE  Hearing'
<1>1. CASE CommentFails(s)
  <2>1. failures' # 0
    BY <1>1 DEF CommentFails
  <2> QED BY <2>1 DEF Hearing
<1> QED BY <1>1, HearingMayComment, HearingInsertComment, HearingFindComment, HearingSaveComment,
           HearingFindMembers, HearingFindOwner, HearingRemoveComment DEF CommentQuery

\* Projects are created once: one that a request is about to create was never
\* there.
LEMMA ArrivesNew ==
  ASSUME NEW s, NEW t, Arrives(s, t)
  PROVE  NewProject(t, LiveProjects, deleted)
BY DEF Arrives, NewProject, LiveProjects

LEMMA HearingStep ==
  ASSUME Inv, Inv', Attentive, Alone, Answering, Hearing, [CommentsNext]_<<vars, commentVars>>
  PROVE  Hearing'
<1> SUFFICES ASSUME ~overlapped', failures' = 0
             PROVE  Hearing'
  BY DEF Hearing
<1>1. ASSUME MembershipStep
      PROVE  /\ comments' = {c \in comments : c.project \in LiveProjects'}
             /\ \A k \in Sockets : heard'[k] \in {heard[k], [j \in Ids |-> Unheard]}
  <2>1. comments' = {c \in comments : c.project \in LiveProjects'}
    BY <1>1 DEF MembershipStep, Kept, LiveProjects, Live
  <2>2. \A k \in Sockets : heard'[k] \in {heard[k], [j \in Ids |-> Unheard]}
    BY <1>1 DEF MembershipStep
  <2> QED BY <2>1, <2>2
<1>2. ASSUME MembershipStep, LiveProjects' = LiveProjects
      PROVE  comments' = comments
  BY <1>1, <1>2, AllKept
<1>3. CASE MembershipStep /\ Gateway
  <2>1. UNCHANGED <<tables, task, overlapped, failures>>
    BY <1>3 DEF Gateway
  <2>2. LiveProjects' = LiveProjects
    BY <2>1 DEF tables, LiveProjects, Live
  <2> QED BY <1>1, <1>2, <1>3, <2>1, <2>2, HearingGateway
<1>4. CASE MembershipStep /\ Request
  <2>0. PICK s \in Slots : \E t : Arrives(s, t)
    BY <1>4, RequestArrives DEF Inv
  <2>1. PICK t : Arrives(s, t) /\ NewProject(t, LiveProjects, deleted)
    BY <2>0, ArrivesNew
  <2>2. LiveProjects' = LiveProjects
    BY <2>1 DEF Arrives, tables, LiveProjects, Live
  <2> QED BY <1>1, <1>2, <1>4, <2>1, <2>2, HearingArrives
<1>5. ASSUME MembershipStep, NEW s \in Slots, Query(s) \/ WriteFails(s)
      PROVE  Hearing'
  <2>1. UNCHANGED overlapped
    BY <1>5, QueryMovesTo DEF QueryMoves
  <2>2. failures = 0
    <3>1. CASE WriteFails(s)
      BY <3>1 DEF WriteFails, Answering
    <3>2. CASE Query(s)
      BY <3>2 DEF Query, FindName, Permit, Owns, FindCollaborator, FindPending, Check,
                  FindInvitation, InsertProject, DeleteRow, DeleteCollaborator, InsertCollaborator,
                  InsertInvitation, Mark, Tell, DeleteInvitation
    <3> QED BY <1>5, <3>1, <3>2
  <2> QED BY <1>1, <1>5, <2>1, <2>2, HearingQuery
<1>6. CASE CommentRequest
  <2>0. PICK s \in Slots : \E t : Arrives(s, t) /\ UNCHANGED commentVars
    BY <1>6, CommentRequestArrives DEF Inv
  <2>1. PICK t : Arrives(s, t) /\ UNCHANGED commentVars
    BY <2>0
  <2>2. NewProject(t, LiveProjects, deleted)
    BY <2>1, ArrivesNew
  <2>3. comments' = comments /\ \A k \in Sockets : heard'[k] \in {heard[k], [j \in Ids |-> Unheard]}
    BY <2>1 DEF commentVars
  <2> QED BY <2>1, <2>2, <2>3, HearingArrives
<1>7. ASSUME NEW s \in Slots, CommentQuery(s)
      PROVE  Hearing'
  <2>1. ~overlapped
    BY <1>7, CommentQueryMoves DEF CommentMoves
  <2>2. failures = 0
    BY <1>7, CommentQueryMoves DEF CommentMoves, Answering
  <2> QED BY <1>7, <2>1, <2>2, HearingCommentQuery
<1>8. CASE UNCHANGED <<vars, commentVars>>
  <2>1. /\ UNCHANGED <<tables, task, overlapped, failures>> /\ comments' = comments
        /\ \A k \in Sockets : heard'[k] \in {heard[k], [j \in Ids |-> Unheard]}
    BY <1>8 DEF vars, commentVars
  <2> QED BY <2>1, HearingGateway
<1> QED BY <1>3, <1>4, <1>5, <1>6, <1>7, <1>8 DEF CommentsNext, MembershipStep, Next

LEMMA HearingInvariance == CommentsSpec => [](Attentive /\ Hearing)
<1>1. Inv /\ GatewayInv /\ Attentive /\ [CommentsNext]_<<vars, commentVars>> => Attentive'
  BY AttentiveStep
<1>2. Inv /\ Inv' /\ Attentive /\ Alone /\ Answering /\ Hearing
        /\ [CommentsNext]_<<vars, commentVars>> => Hearing'
  BY HearingStep
<1> QED BY <1>1, <1>2, HearingInit, Invariance, GatewayInvariance, AnsweringInvariance,
           AloneInvariance, PTL DEF CommentsSpec

---------------------------------------------------------------------------
(***************************************************************************)
(* Types: what a request writes, or tells, has the type of the column.     *)
(***************************************************************************)

Handy(t) ==
  /\ InHand(t)
  /\ t.pc = "idle" => t.id = 0
  /\ t.pc \in {"saveComment", "findMembers", "findOwner"} => t.row \in PatternComment

Hands == \A s \in Slots : Handy(task[s])

Tables ==
  /\ deleted \subseteq Projects
  /\ collaborators \subseteq Collaborator
  /\ invitations \subseteq ProjectInvitation
  /\ joined \subseteq Ids
  /\ told \subseteq [socket : Sockets, invitation : Ids, event : Events]

HeardEvent == [event : {"none", "gone"}] \cup [event : {"placed"}, project : Projects, place : Ids]

CommentsTyped == comments \subseteq PatternComment /\ heard \in [Sockets -> [Ids -> HeardEvent]]

Counters == requests <= MaxRequests /\ failures <= MaxFailures

Typed == Hands /\ Tables /\ CommentsTyped /\ Counters

LEMMA HandyNone == Handy(NoRequest)
<1>1. NoRequest.pc = "idle" /\ NoRequest.kind = "none" /\ NoRequest.id = 0
  BY DEF NoRequest, RequestAt
<1> QED BY <1>1 DEF Handy, InHand

LEMMA TypedInit == CommentsInit => Typed
<1> SUFFICES ASSUME CommentsInit PROVE Typed
  OBVIOUS
<1>1. /\ task = [s \in Slots |-> NoRequest] /\ requests = 0 /\ failures = 0
      /\ deleted = {} /\ collaborators = {} /\ invitations = {} /\ joined = {} /\ told = {}
      /\ comments = {} /\ heard = [k \in Sockets |-> [i \in Ids |-> Unheard]]
  BY DEF CommentsInit, Init
<1>2. Hands
  BY <1>1, HandyNone DEF Hands
<1>3. Unheard \in HeardEvent
  BY DEF Unheard, HeardEvent
<1>4. CommentsTyped
  BY <1>1, <1>3 DEF CommentsTyped
<1>5. Tables /\ Counters
  BY <1>1, MembershipConstants DEF Tables, Counters
<1> QED BY <1>2, <1>4, <1>5 DEF Typed

LEMMA HandsMove ==
  ASSUME Hands, NEW s, NEW t, \A x \in Slots : task'[x] = IF x = s THEN t ELSE task[x], Handy(t)
  PROVE  Hands'
<1>1. \A x \in Slots : Handy(task'[x])
  BY DEF Hands
<1> QED BY <1>1 DEF Hands, Handy, InHand

LEMMA HandsEnd ==
  ASSUME Inv, Hands, NEW s \in Slots, Ended(s)
  PROVE  Hands'
<1>1. \A x \in Slots : task'[x] = IF x = s THEN NoRequest ELSE task[x]
  BY DEF Ended, Inv, TasksInv
<1>2. ASSUME NEW t, t = NoRequest
      PROVE  Hands'
  BY <1>1, <1>2, HandyNone, HandsMove
<1> QED BY <1>2

LEMMA HandsGoOn ==
  ASSUME Inv, Hands, NEW s \in Slots,
         task[s].pc \in PCs \ {"idle", "findInvitation", "insertInvitation"},
         GoOn(s) \/ Ended(s)
  PROVE  Hands'
<1> DEFINE c == task[s]
<1>0. TasksInv /\ TaskOK(c) /\ Handy(c)
  BY DEF Inv, TasksInv, Hands
<1>1. CASE Ended(s)
  BY <1>1, HandsEnd
<1>2. CASE ~Ended(s)
  <2>1. PICK t : /\ \A x \in Slots : task'[x] = IF x = s THEN t ELSE task[x]
                 /\ Follows(c, t)
                 /\ t = At(c, After(c)) /\ After(c) # "idle"
    BY <1>0, <1>2, GoOnTo
  <2>2. t.pc # "idle"
    BY <2>1 DEF At, RequestAt
  <2>3. /\ t.kind = c.kind /\ t.user = c.user /\ t.role = c.role
        /\ t.invitation = c.invitation /\ t.inviter = c.inviter
        /\ t.pc = "tell" => c.pc = "mark"
        /\ t.pc \notin CommentPCs
    BY <1>0, <2>1, <2>2, FollowsKeeps
  <2>4. c.pc = "mark" => c.kind \in {"accept", "reject"}
    BY <1>0 DEF TaskOK, Fits
  <2>5. c.pc # "findInvitation"
    OBVIOUS
  <2> HIDE DEF c
  <2>6. InHand(t)
    BY <1>0, <2>3, <2>4, <2>5 DEF Handy, InHand
  <2>7. Handy(t)
    BY <2>2, <2>3, <2>6 DEF Handy, CommentPCs
  <2> QED BY <2>1, <2>7, HandsMove
<1> QED BY <1>1, <1>2

LEMMA HandsFind ==
  ASSUME Inv, Hands, Tables, NEW s \in Slots, FindInvitation(s)
  PROVE  Hands'
<1> DEFINE c == task[s]
<1>0. c.pc = "findInvitation" /\ DOMAIN task = Slots
  BY DEF FindInvitation, Inv, TasksInv
<1>1. CASE Ended(s)
  BY <1>1, HandsEnd
<1>2. CASE ~Ended(s)
  <2>1. PICK v \in invitations : task' = [task EXCEPT ![s] = At(Found(c, v), After(c))]
    BY <1>2 DEF FindInvitation
  <2> DEFINE t == At(Found(c, v), After(c))
  <2>2. /\ t.pc = After(c) /\ t.kind = c.kind /\ t.invitation = v.id /\ t.user = v.invitee
        /\ t.role = v.role /\ t.inviter = v.inviter
    BY DEF At, Found, RequestAt
  <2>3. c.kind \in {"accept", "reject", "cancel"}
    BY <1>0 DEF Inv, TasksInv, TaskOK, Fits
  <2>4. After(c) = CASE c.kind = "accept" -> "findCollaborator"
                     [] c.kind = "reject" -> "mark"
                     [] c.kind = "cancel" -> "deleteInvitation"
    BY <1>0 DEF After
  <2>5. After(c) \in {"findCollaborator", "mark", "deleteInvitation"}
    BY <2>3, <2>4
  <2>6. v.id \in Ids /\ v.invitee \in Users /\ v.role \in Roles /\ v.inviter \in Users
    BY DEF Tables, ProjectInvitation
  <2>7. \A x \in Slots : task'[x] = IF x = s THEN t ELSE task[x]
    BY <1>0, <2>1
  <2> HIDE DEF t, c
  <2>8. Handy(t)
    BY <2>2, <2>3, <2>5, <2>6 DEF Handy, InHand
  <2> QED BY <2>7, <2>8, HandsMove
<1> QED BY <1>1, <1>2

\* The number of a request is one an invitation, or a comment, may have.
LEMMA IdIn ==
  ASSUME Inv, Counters, NEW s \in Slots, task[s].pc # "idle"
  PROVE  task[s].id \in Ids
BY MembershipConstants DEF Inv, TasksInv, Counters, Ids

LEMMA TypedFindInvitation ==
  ASSUME Inv, Typed, NEW s \in Slots, FindInvitation(s)
  PROVE  Hands' /\ Tables'
<1>1. Hands'
  BY HandsFind DEF Typed
<1>2. Tables'
  BY DEF FindInvitation, Typed, Tables, tables
<1> QED BY <1>1, <1>2

\* A query that ends the request, and writes no row but of the table of projects.
LEMMA TypedEnd ==
  ASSUME Inv, Typed, NEW s \in Slots,
         InsertProject(s) \/ DeleteRow(s) \/ DeleteCollaborator(s) \/ WriteFails(s)
  PROVE  Hands' /\ Tables'
<1>1. /\ Ended(s)
      /\ collaborators' \subseteq collaborators /\ invitations' \subseteq invitations
      /\ joined' = joined /\ told' = told
  BY DEF InsertProject, DeleteRow, DeleteCollaborator, WriteFails, Cascaded, tables
<1>2. Hands'
  BY <1>1, HandsEnd DEF Typed
<1>3. deleted' = deleted \/ (deleted' = deleted \cup {task[s].project} /\ task[s].pc = "deleteProject")
  BY DEF InsertProject, DeleteRow, DeleteCollaborator, WriteFails, tables
<1>4. task[s].pc = "deleteProject" => task[s].project \in Projects
  BY DEF Inv, TasksInv, TaskOK, AboutProject, PCs
<1>5. Tables'
  BY <1>1, <1>3, <1>4 DEF Typed, Tables
<1> QED BY <1>2, <1>5

\* A query that reads.
LEMMA TypedRead ==
  ASSUME Inv, Typed, NEW s \in Slots,
         FindName(s) \/ Permit(s) \/ Owns(s) \/ FindCollaborator(s) \/ FindPending(s)
  PROVE  Hands' /\ Tables'
<1>1. /\ task[s].pc \in {"findName", "permit", "owns", "findCollaborator", "findPending"}
      /\ GoOn(s) \/ Ended(s)
      /\ UNCHANGED <<tables, joined, told>>
  BY DEF FindName, Permit, Owns, FindCollaborator, FindPending, Check
<1>2. task[s].pc \in PCs \ {"idle", "findInvitation", "insertInvitation"}
  BY <1>1 DEF PCs
<1>3. Hands'
  BY <1>1, <1>2, HandsGoOn DEF Typed
<1>4. Tables'
  BY <1>1 DEF Typed, Tables, tables
<1> QED BY <1>3, <1>4

LEMMA TypedInsertCollaborator ==
  ASSUME Inv, Typed, NEW s \in Slots, InsertCollaborator(s)
  PROVE  Hands' /\ Tables'
<1> DEFINE c == task[s]
           r == [id |-> c.id, project |-> c.project, user |-> c.user, role |-> c.role,
                 via |-> c.invitation]
<1>0. /\ c.pc = "insertCollaborator" /\ TaskOK(c) /\ InHand(c)
      /\ GoOn(s) \/ Ended(s)
      /\ UNCHANGED <<deleted, invitations, told>>
      /\ collaborators' \in {collaborators, collaborators \cup {r}}
      /\ joined' = joined \/ (joined' = joined \cup {c.invitation} /\ c.kind = "accept")
  BY DEF InsertCollaborator, Inv, TasksInv, Typed, Hands, Handy
<1>1. c.pc \in PCs \ {"idle", "findInvitation", "insertInvitation"}
  BY <1>0 DEF PCs
<1>2. Hands'
  BY <1>0, <1>1, HandsGoOn DEF Typed
<1>3. c.project \in Projects /\ c.kind \in {"add", "accept"}
  BY <1>0 DEF TaskOK, Fits, AboutProject, PCs
<1>4. c.id \in Ids
  BY <1>0, IdIn DEF Typed
<1>5. /\ c.user \in Users /\ c.role \in CollaboratorRole /\ c.invitation \in 0..MaxRequests
      /\ c.kind = "accept" => c.invitation \in Ids
  <2>1. InHand(c) /\ c.pc # "findInvitation"
    BY <1>0
  <2> HIDE DEF c
  <2>2. CASE c.kind = "add"
    BY <2>1, <2>2, MembershipConstants DEF InHand, CollaboratorRole
  <2>3. CASE c.kind = "accept"
    <3>1. c.user \in Users /\ c.role \in Roles /\ c.invitation \in Ids
      BY <2>1, <2>3 DEF InHand
    <3> QED BY <3>1, MembershipConstants DEF Ids
  <2> QED BY <1>3, <2>2, <2>3
<1> HIDE DEF c
<1>6. r \in Collaborator
  BY <1>3, <1>4, <1>5 DEF Collaborator
<1> HIDE DEF r
<1>7. Tables'
  BY <1>0, <1>5, <1>6 DEF Typed, Tables
<1> QED BY <1>2, <1>7

LEMMA TypedInsertInvitation ==
  ASSUME Inv, Typed, NEW s \in Slots, InsertInvitation(s)
  PROVE  Hands' /\ Tables'
<1> DEFINE c == task[s]
           v == [id |-> c.id, project |-> c.project, inviter |-> c.caller,
                 invitee |-> c.user, role |-> c.role, status |-> "pending"]
           t == RequestAt("tell", c.kind, c.id, c.caller, c.project, c.user, c.role, c.id, c.caller)
<1>0. /\ c.pc = "insertInvitation" /\ TaskOK(c) /\ InHand(c) /\ DOMAIN task = Slots
      /\ UNCHANGED <<deleted, collaborators, joined, told>>
      /\ invitations' \in {invitations, invitations \cup {v}}
      /\ Ended(s) \/ task' = [task EXCEPT ![s] = t]
  BY DEF InsertInvitation, Inv, TasksInv, Typed, Hands, Handy
<1>1. c.project \in Projects /\ c.kind = "send" /\ c.caller \in Users
  BY <1>0 DEF TaskOK, Fits, AboutProject, PCs
<1>2. c.id \in Ids
  BY <1>0, IdIn DEF Typed
<1>3. c.user \in Users /\ c.role \in Roles
  BY <1>0, <1>1 DEF InHand
<1>4. /\ t.pc = "tell" /\ t.kind = c.kind /\ t.user = c.user /\ t.role = c.role
      /\ t.invitation = c.id
  BY DEF RequestAt
<1>5. task' = [task EXCEPT ![s] = t] => \A x \in Slots : task'[x] = IF x = s THEN t ELSE task[x]
  BY <1>0
<1> HIDE DEF c, t
<1>6. v \in ProjectInvitation
  BY <1>1, <1>2, <1>3 DEF ProjectInvitation, Statuses
<1> HIDE DEF v
<1>7. Tables'
  BY <1>0, <1>6 DEF Typed, Tables
<1>8. Handy(t)
  BY <1>1, <1>2, <1>3, <1>4 DEF Handy, InHand
<1>9. Hands'
  BY <1>0, <1>5, <1>8, HandsEnd, HandsMove DEF Typed
<1> QED BY <1>7, <1>9

LEMMA TypedMark ==
  ASSUME Inv, Typed, NEW s \in Slots, Mark(s)
  PROVE  Hands' /\ Tables'
<1> DEFINE c == task[s]
           v == Marked(c)
<1>0. /\ c.pc = "mark" /\ TaskOK(c) /\ InHand(c)
      /\ GoOn(s) \/ Ended(s)
      /\ UNCHANGED <<deleted, collaborators, joined, told>>
      /\ invitations' \subseteq invitations \cup {v}
  BY DEF Mark, Inv, TasksInv, Typed, Hands, Handy
<1>1. c.pc \in PCs \ {"idle", "findInvitation", "insertInvitation"}
  BY <1>0 DEF PCs
<1>2. Hands'
  BY <1>0, <1>1, HandsGoOn DEF Typed
<1>3. c.project \in Projects /\ c.kind \in {"accept", "reject"}
  BY <1>0 DEF TaskOK, Fits, AboutProject, PCs
<1>4. c.user \in Users /\ c.role \in Roles /\ c.invitation \in Ids /\ c.inviter \in Users
  BY <1>0, <1>3 DEF InHand
<1> HIDE DEF c
<1>5. v \in ProjectInvitation
  BY <1>3, <1>4 DEF Marked, Copy, ProjectInvitation, Statuses
<1> HIDE DEF v
<1>6. Tables'
  BY <1>0, <1>5 DEF Typed, Tables
<1> QED BY <1>2, <1>6

LEMMA TypedTell ==
  ASSUME Inv, GatewayInv, Typed, NEW s \in Slots, Tell(s) \/ DeleteInvitation(s)
  PROVE  Hands' /\ Tables'
<1> DEFINE c == task[s]
<1>0. /\ c.pc \in {"tell", "deleteInvitation"} /\ TaskOK(c) /\ InHand(c) /\ Ended(s)
      /\ told' = told \cup Notifications(c) /\ invitations' \subseteq invitations
      /\ UNCHANGED <<deleted, collaborators, joined>>
  BY DEF Tell, DeleteInvitation, Inv, TasksInv, Typed, Hands, Handy, tables
<1>1. c.kind \in {"send", "accept", "reject", "cancel"} /\ (c.pc = "tell" \/ c.kind = "cancel")
  BY <1>0 DEF TaskOK, Fits
<1>2. c.invitation \in Ids /\ c.user \in Users /\ (c.kind # "send" => c.inviter \in Users)
  BY <1>0, <1>1 DEF InHand
<1>3. Event(c) \in Events
  BY <1>1 DEF Event, Events
<1>4. Notified(c) \subseteq Users
  BY <1>2 DEF Notified
<1>5. \A u \in Users : Listeners(u, "projectInvitations") \subseteq Sockets
  BY DEF Listeners, GatewayInv, GatewayTypeOK
<1> HIDE DEF c
<1>6. Notifications(c) \subseteq [socket : Sockets, invitation : Ids, event : Events]
  BY <1>2, <1>3, <1>4, <1>5 DEF Notifications
<1>7. Tables'
  BY <1>0, <1>6 DEF Typed, Tables
<1>8. Hands'
  BY <1>0, HandsEnd DEF Typed
<1> QED BY <1>7, <1>8

LEMMA TypedQuery ==
  ASSUME Inv, GatewayInv, Typed, NEW s \in Slots, Query(s) \/ WriteFails(s)
  PROVE  Hands' /\ Tables'
BY TypedFindInvitation, TypedEnd, TypedRead, TypedInsertCollaborator, TypedInsertInvitation,
   TypedMark, TypedTell DEF Query

---------------------------------------------------------------------------
\* Steps of requests about comments.

\* A request that only reads, or ends, with sockets told of a comment or not.
LEMMA TypedHear ==
  ASSUME CommentsTyped, comments' \subseteq comments, NEW i, NEW e \in HeardEvent,
         heard' = heard \/ Hear(i, e)
  PROVE  CommentsTyped'
<1>1. heard \in [Sockets -> [Ids -> HeardEvent]]
  BY DEF CommentsTyped
<1>2. heard' \in [Sockets -> [Ids -> HeardEvent]]
  BY <1>1 DEF Hear
<1> QED BY <1>2 DEF CommentsTyped

LEMMA NoHands ==
  ASSUME NEW t, t.kind \in CommentKinds \cup {"none"}, t.pc # "tell"
  PROVE  InHand(t)
BY DEF InHand, CommentKinds

\* A query that ends the request.
LEMMA TypedCommentEnd ==
  ASSUME Inv, Typed, NEW s \in Slots, Ended(s), UNCHANGED commentVars
  PROVE  Hands' /\ CommentsTyped'
<1>1. Hands'
  BY HandsEnd DEF Typed
<1> QED BY <1>1 DEF Typed, CommentsTyped, commentVars

\* The request in slot s goes on as t, which differs in its next query, its row
\* and members only.
LEMMA HandsComment ==
  ASSUME Inv, Typed, NEW s \in Slots, NEW t, TaskOK(t),
         \A x \in Slots : task'[x] = IF x = s THEN t ELSE task[x],
         t.pc \in CommentPCs,
         t.pc \in {"saveComment", "findMembers", "findOwner"} => t.row \in PatternComment
  PROVE  Hands'
<1>1. t.pc # "idle" /\ t.pc # "tell" /\ t.kind \in CommentKinds
  BY DEF TaskOK, Fits, CommentPCs, CommentKinds
<1>2. Handy(t)
  BY <1>1, NoHands DEF Handy
<1> QED BY <1>2, HandsMove DEF Typed

LEMMA TypedMayComment ==
  ASSUME Inv, Inv', Typed, NEW s \in Slots, MayComment(s)
  PROVE  Hands' /\ CommentsTyped'
<1>0. CommentQuery(s) /\ UNCHANGED commentVars /\ DOMAIN task = Slots /\ TaskOK(task'[s])
  BY DEF CommentQuery, MayComment, Inv, TasksInv, TaskOK
<1>1. DOMAIN task[s] = CommentFields
  BY DEF MayComment, Inv, TasksInv, TaskOK, CommentPCs
<1>2. CASE Ended(s)
  BY <1>0, <1>2, TypedCommentEnd
<1>3. CASE ~Ended(s)
  <2>1. \A x \in Slots : task'[x] = IF x = s THEN task'[s] ELSE task[x]
    BY <1>0 DEF MayComment
  <2>2. task'[s] = Going(task[s], IF task[s].kind = "comment" THEN "insertComment" ELSE "findComment")
    BY <1>0, <1>3 DEF MayComment, Ended
  <2>3. task'[s].pc \in {"insertComment", "findComment"}
    BY <1>1, <2>2 DEF Going, CommentFields
  <2>4. Hands'
    BY <1>0, <2>1, <2>3, HandsComment DEF CommentPCs
  <2> QED BY <1>0, <2>4 DEF Typed, CommentsTyped, commentVars
<1> QED BY <1>2, <1>3

LEMMA TypedFindComment ==
  ASSUME Inv, Inv', Typed, NEW s \in Slots, FindComment(s)
  PROVE  Hands' /\ CommentsTyped'
<1>0. UNCHANGED commentVars /\ DOMAIN task = Slots /\ TaskOK(task'[s])
  BY DEF FindComment, Inv, TasksInv, TaskOK
<1>1. DOMAIN task[s] = CommentFields
  BY DEF FindComment, Inv, TasksInv, TaskOK, CommentPCs
<1>2. CASE Ended(s)
  BY <1>0, <1>2, TypedCommentEnd
<1>3. CASE ~Ended(s)
  <2>1. PICK c \in comments :
          task' = [task EXCEPT ![s] = [Going(task[s], IF task[s].kind = "move" THEN "saveComment"
                                                      ELSE "removeComment") EXCEPT !.row = c]]
    BY <1>3 DEF FindComment
  <2>2. \A x \in Slots : task'[x] = IF x = s THEN task'[s] ELSE task[x]
    BY <1>0, <2>1
  <2>3. task'[s] = [Going(task[s], IF task[s].kind = "move" THEN "saveComment"
                                   ELSE "removeComment") EXCEPT !.row = c]
    BY <1>0, <2>1
  <2>4. task'[s].pc \in {"saveComment", "removeComment"} /\ task'[s].row = c
    BY <1>1, <2>3 DEF Going, CommentFields
  <2>5. c \in PatternComment
    BY DEF Typed, CommentsTyped
  <2>6. Hands'
    BY <1>0, <2>2, <2>4, <2>5, HandsComment DEF CommentPCs
  <2> QED BY <1>0, <2>6 DEF Typed, CommentsTyped, commentVars
<1> QED BY <1>2, <1>3

\* A request writes row.
LEMMA TypedWrites ==
  ASSUME Inv, Inv', Typed, NEW s \in Slots, NEW row \in PatternComment,
         task[s].pc \in CommentPCs, comments' \subseteq comments \cup {row}, heard' = heard,
         task' = [task EXCEPT ![s] = [Going(task[s], "findMembers") EXCEPT !.row = row]]
  PROVE  Hands' /\ CommentsTyped'
<1>1. DOMAIN task = Slots /\ TaskOK(task'[s]) /\ DOMAIN task[s] = CommentFields
  BY DEF Inv, TasksInv, TaskOK
<1>2. \A x \in Slots : task'[x] = IF x = s THEN task'[s] ELSE task[x]
  BY <1>1
<1>3. task'[s] = [Going(task[s], "findMembers") EXCEPT !.row = row]
  BY <1>1
<1>4. task'[s].pc = "findMembers" /\ task'[s].row = row
  BY <1>1, <1>3 DEF Going, CommentFields
<1>5. ASSUME NEW t, t = task'[s]
      PROVE  Hands'
  <2>1. t.pc \in CommentPCs /\ t.row \in PatternComment
    BY <1>4, <1>5 DEF CommentPCs
  <2>2. TaskOK(t) /\ \A x \in Slots : task'[x] = IF x = s THEN t ELSE task[x]
    BY <1>1, <1>2, <1>5
  <2> QED BY <2>1, <2>2, HandsComment
<1> QED BY <1>5 DEF Typed, CommentsTyped

LEMMA TypedInsertComment ==
  ASSUME Inv, Inv', Typed, NEW s \in Slots, InsertComment(s)
  PROVE  Hands' /\ CommentsTyped'
<1> DEFINE c == task[s]
           row == [id |-> c.id, project |-> c.project, author |-> c.caller, place |-> c.id]
<1>0. c.pc = "insertComment" /\ TaskOK(c) /\ heard' = heard
  BY DEF InsertComment, Inv, TasksInv
<1>1. c.project \in Projects /\ c.caller \in Users
  BY <1>0 DEF TaskOK, AboutProject
<1>2. c.id \in Ids
  BY <1>0, IdIn DEF Typed
<1>3. c.pc \in CommentPCs
  BY <1>0 DEF CommentPCs
<1>4. CASE ~Live(c.project)
  <2>1. Ended(s) /\ UNCHANGED commentVars
    BY <1>4 DEF InsertComment, commentVars
  <2> QED BY <2>1, TypedCommentEnd
<1>5. CASE Live(c.project)
  <2>1. /\ comments' = comments \cup {row}
        /\ task' = [task EXCEPT ![s] = [Going(c, "findMembers") EXCEPT !.row = row]]
    BY <1>5 DEF InsertComment
  <2>2. row \in PatternComment
    <3> HIDE DEF c
    <3> QED BY <1>1, <1>2 DEF PatternComment
  <2> HIDE DEF row
  <2> QED BY <1>0, <1>3, <2>1, <2>2, TypedWrites
<1> QED BY <1>4, <1>5

LEMMA TypedSaveComment ==
  ASSUME Inv, Inv', Typed, NEW s \in Slots, SaveComment(s)
  PROVE  Hands' /\ CommentsTyped'
<1> DEFINE c == task[s]
           row == [c.row EXCEPT !.place = c.id]
<1>0. c.pc = "saveComment" /\ heard' = heard
  BY DEF SaveComment
<1>1. c.row \in PatternComment
  BY <1>0 DEF Typed, Hands, Handy
<1>2. c.id \in Ids
  BY <1>0, IdIn DEF Typed
<1>3. c.pc \in CommentPCs
  BY <1>0 DEF CommentPCs
<1>4. CASE ~Live(row.project)
  <2>1. Ended(s) /\ UNCHANGED commentVars
    BY <1>4 DEF SaveComment, commentVars
  <2> QED BY <2>1, TypedCommentEnd
<1>5. CASE Live(row.project)
  <2>1. /\ comments' = {d \in comments : d.id # row.id} \cup {row}
        /\ task' = [task EXCEPT ![s] = [Going(c, "findMembers") EXCEPT !.row = row]]
    BY <1>5 DEF SaveComment
  <2>2. row \in PatternComment
    <3> HIDE DEF c
    <3> QED BY <1>1, <1>2 DEF PatternComment
  <2> HIDE DEF row
  <2>3. comments' \subseteq comments \cup {row}
    BY <2>1
  <2> QED BY <1>0, <1>3, <2>1, <2>2, <2>3, TypedWrites
<1> QED BY <1>4, <1>5

LEMMA PlacedTyped ==
  ASSUME NEW c \in PatternComment
  PROVE  Placed(c) \in HeardEvent
BY DEF PatternComment, Placed, HeardEvent

LEMMA TypedFindMembers ==
  ASSUME Inv, Inv', Typed, NEW s \in Slots, FindMembers(s)
  PROVE  Hands' /\ CommentsTyped'
<1> DEFINE c == task[s]
<1>0. /\ c.pc = "findMembers" /\ comments' = comments /\ DOMAIN task = Slots /\ TaskOK(task'[s])
      /\ DOMAIN c = CommentFields
  BY DEF FindMembers, Inv, TasksInv, TaskOK, CommentPCs
<1>1. c.row \in PatternComment
  BY <1>0 DEF Typed, Hands, Handy
<1>2. Placed(c.row) \in HeardEvent
  BY <1>1, PlacedTyped
<1>3. CASE c.kind = "comment"
  <2>1. Hear(c.row.id, Placed(c.row)) /\ Ended(s)
    BY <1>3 DEF FindMembers
  <2>2. CommentsTyped'
    BY <1>0, <1>2, <2>1, TypedHear DEF Typed
  <2> QED BY <2>1, <2>2, HandsEnd DEF Typed
<1>4. CASE c.kind # "comment"
  <2>1. /\ task' = [task EXCEPT ![s] = [Going(c, "findOwner") EXCEPT
                     !.members = \E r \in collaborators : r.project = c.project]]
        /\ heard' = heard
    BY <1>4 DEF FindMembers
  <2>2. \A x \in Slots : task'[x] = IF x = s THEN task'[s] ELSE task[x]
    BY <1>0, <2>1
  <2>3. task'[s] = [Going(c, "findOwner") EXCEPT
                      !.members = \E r \in collaborators : r.project = c.project]
    BY <1>0, <2>1
  <2>4. task'[s].pc = "findOwner" /\ task'[s].row = c.row
    BY <1>0, <2>3 DEF Going, CommentFields
  <2>5. Hands'
    BY <1>0, <1>1, <2>2, <2>4, HandsComment DEF CommentPCs
  <2> QED BY <1>0, <2>1, <2>5 DEF Typed, CommentsTyped
<1> QED BY <1>3, <1>4

LEMMA TypedTells ==
  ASSUME Inv, Typed, NEW s \in Slots, FindOwner(s) \/ RemoveComment(s)
  PROVE  Hands' /\ CommentsTyped'
<1> DEFINE c == task[s]
<1>0. Ended(s) /\ comments' \subseteq comments
  BY DEF FindOwner, RemoveComment
<1>1. CASE FindOwner(s)
  <2>1. c.pc = "findOwner" /\ (heard' = heard \/ Hear(c.row.id, Placed(c.row)))
    BY <1>1 DEF FindOwner, Moved
  <2>2. Placed(c.row) \in HeardEvent
    BY <2>1, PlacedTyped DEF Typed, Hands, Handy
  <2> QED BY <1>0, <2>1, <2>2, TypedHear, HandsEnd DEF Typed
<1>2. CASE RemoveComment(s)
  <2>1. Hear(c.comment, Gone)
    BY <1>2 DEF RemoveComment
  <2>2. Gone \in HeardEvent
    BY DEF Gone, HeardEvent
  <2> QED BY <1>0, <2>1, <2>2, TypedHear, HandsEnd DEF Typed
<1> QED BY <1>1, <1>2

LEMMA TypedCommentQuery ==
  ASSUME Inv, Inv', Typed, NEW s \in Slots, CommentQuery(s)
  PROVE  Hands' /\ CommentsTyped'
<1>1. CASE CommentFails(s)
  BY <1>1, TypedCommentEnd DEF CommentFails
<1> QED BY <1>1, TypedMayComment, TypedInsertComment, TypedFindComment, TypedSaveComment,
           TypedFindMembers, TypedTells DEF CommentQuery

LEMMA TypedStep ==
  ASSUME Inv, Inv', GatewayInv, Answering, Typed, [CommentsNext]_<<vars, commentVars>>
  PROVE  Typed'
<1>0. failures \in Nat
  BY DEF Answering
<1>1. ASSUME UNCHANGED <<tables, task, requests, joined, told, failures>>
      PROVE  Hands' /\ Tables' /\ Counters'
  BY <1>1 DEF Typed, Hands, Handy, InHand, Tables, Counters, tables
<1>2. ASSUME NEW s \in Slots, NEW t, Arrives(s, t)
      PROVE  Hands' /\ Tables' /\ Counters'
  <2>1. Handy(t)
    BY <1>2 DEF Arrives, Handy
  <2>2. Hands'
    BY <1>2, <2>1, HandsMove DEF Arrives, Typed
  <2>3. Tables'
    BY <1>2 DEF Arrives, Typed, Tables, tables
  <2>4. Counters'
    BY <1>2, MembershipConstants DEF Arrives, Typed, Counters, Inv, TasksInv
  <2> QED BY <2>2, <2>3, <2>4
<1>3. ASSUME NEW s \in Slots, Query(s) \/ WriteFails(s)
      PROVE  Hands' /\ Tables' /\ Counters'
  <2>1. requests' = requests
    BY <1>3, QueryMovesTo DEF QueryMoves
  <2>2. failures' = failures \/ (failures' = failures + 1 /\ failures < MaxFailures)
    <3>1. CASE WriteFails(s)
      BY <3>1 DEF WriteFails
    <3>2. CASE Query(s)
      BY <3>2 DEF Query, FindName, Permit, Owns, FindCollaborator, FindPending, Check,
                  FindInvitation, InsertProject, DeleteRow, DeleteCollaborator, InsertCollaborator,
                  InsertInvitation, Mark, Tell, DeleteInvitation
    <3> QED BY <1>3, <3>1, <3>2
  <2>3. Counters'
    BY <1>0, <2>1, <2>2, MembershipConstants DEF Typed, Counters
  <2> QED BY <1>3, <2>3, TypedQuery
<1>4. ASSUME NEW s \in Slots, CommentQuery(s)
      PROVE  Typed'
  <2>1. /\ UNCHANGED <<tables, requests, joined, told>>
        /\ failures' = failures \/ (failures' = failures + 1 /\ failures < MaxFailures)
    BY <1>4, CommentQueryMoves DEF CommentMoves
  <2>2. Tables'
    BY <2>1 DEF Typed, Tables, tables
  <2>3. Counters'
    BY <1>0, <2>1, MembershipConstants DEF Typed, Counters
  <2> QED BY <1>4, <2>2, <2>3, TypedCommentQuery DEF Typed
<1>5. CASE MembershipStep
  <2>1. ASSUME Gateway
        PROVE  Hands' /\ Tables' /\ Counters'
    BY <1>1, <2>1 DEF Gateway
  <2>2. ASSUME Request
        PROVE  Hands' /\ Tables' /\ Counters'
    BY <1>2, <2>2, RequestArrives DEF Inv
  <2>3. Hands' /\ Tables' /\ Counters'
    BY <1>3, <1>5, <2>1, <2>2 DEF MembershipStep, Next
  <2>4. Unheard \in HeardEvent
    BY DEF Unheard, HeardEvent
  <2>5. /\ comments' \subseteq comments
        /\ heard' = [k \in Sockets |-> IF line'[k] = "down" THEN [i \in Ids |-> Unheard] ELSE heard[k]]
    BY <1>5 DEF MembershipStep, Kept
  <2>6. CommentsTyped'
    BY <2>4, <2>5 DEF Typed, CommentsTyped
  <2> QED BY <2>3, <2>6 DEF Typed
<1>6. CASE CommentRequest
  <2>1. (\E s \in Slots : \E t : Arrives(s, t)) /\ UNCHANGED commentVars
    BY <1>6, CommentRequestArrives DEF Inv
  <2>2. CommentsTyped'
    BY <2>1 DEF Typed, CommentsTyped, commentVars
  <2> QED BY <1>2, <2>1, <2>2 DEF Typed
<1>7. CASE UNCHANGED <<vars, commentVars>>
  <2>1. Hands' /\ Tables' /\ Counters'
    BY <1>1, <1>7 DEF vars
  <2> QED BY <1>7, <2>1 DEF Typed, CommentsTyped, commentVars
<1> QED BY <1>4, <1>5, <1>6, <1>7 DEF CommentsNext

LEMMA TypedInvariance == CommentsSpec => []Typed
<1>1. Inv /\ Inv' /\ GatewayInv /\ Answering /\ Typed /\ [CommentsNext]_<<vars, commentVars>> => Typed'
  BY TypedStep
<1> QED BY <1>1, TypedInit, Invariance, GatewayInvariance, AnsweringInvariance, PTL
           DEF CommentsSpec

\* The invariants together give the types of the state.
LEMMA TypesOf ==
  ASSUME Inv, GatewayInv, Answering, Alone, Typed
  PROVE  CommentsTypeOK
<1>1. ASSUME NEW s \in Slots
      PROVE  /\ task[s].pc \in PCs \cup CommentPCs
             /\ task[s].kind \in Kinds \cup CommentKinds
             /\ task[s].id \in 0..requests
             /\ task[s].pc = "idle" <=> task[s].kind = "none"
             /\ task[s].kind # "none" => task[s].caller \in Users
  <2> DEFINE c == task[s]
  <2>1. TaskOK(c) /\ requests \in Nat /\ (c.pc # "idle" => c.id \in 1..requests)
    BY DEF Inv, TasksInv
  <2>2. c.pc = "idle" => c.id = 0
    BY DEF Typed, Hands, Handy
  <2> HIDE DEF c
  <2>3. c.pc = "idle" => c.kind = "none"
    BY <2>1 DEF TaskOK, Fits
  <2>4. c.pc # "idle" => c.kind \in (Kinds \ {"none"}) \cup CommentKinds
    BY <2>1 DEF TaskOK, Fits, PCs, CommentPCs, Kinds, CommentKinds
  <2>5. c.kind # "none" => c.caller \in Users
    BY <2>1, <2>3 DEF TaskOK
  <2>6. c.id \in 0..requests
    BY <2>1, <2>2
  <2>7. c.pc = "idle" <=> c.kind = "none"
    BY <2>3, <2>4 DEF Kinds, CommentKinds
  <2>8. c.pc \in PCs \cup CommentPCs /\ c.kind \in Kinds \cup CommentKinds
    BY <2>1, <2>3, <2>4 DEF TaskOK, Kinds
  <2> QED BY <2>5, <2>6, <2>7, <2>8 DEF c
<1>2. GatewayTypeOK /\ owner \in [Projects -> Users \cup {None}] /\ overlapped \in BOOLEAN
  BY DEF GatewayInv, Inv, RowsInv, RowsTyped, Alone
<1>3. requests \in 0..MaxRequests /\ failures \in 0..MaxFailures
  BY MembershipConstants DEF Inv, TasksInv, Answering, Typed, Counters
<1>4. TypedWith(Kinds \cup CommentKinds, PCs \cup CommentPCs)
  BY <1>1, <1>2, <1>3 DEF TypedWith, Typed, Tables
<1> QED BY <1>4 DEF CommentsTypeOK, Typed, CommentsTyped, HeardEvent
---------------------------------------------------------------------------
(***************************************************************************)
(* The theorems.                                                           *)
(***************************************************************************)

\* Types of the state.
THEOREM Types == CommentsSpec => []CommentsTypeOK
BY TypesOf, Invariance, GatewayInvariance, AnsweringInvariance, AloneInvariance, TypedInvariance,
   PTL

\* Comments, collaborators and invitations belong to projects that exist, and
\* an id names one row, though answers and moves are saved from copies that
\* were made before the row or its project was deleted (save() in
\* acceptInvitation, rejectInvitation, updateCommentPosition).
THEOREM RowsBelong == CommentsSpec => []CommentsRefer
<1>1. Inv => CommentsRefer
  BY DEF Inv, RowsInv
<1> QED BY <1>1, Invariance, PTL

\* Whoever is told, or can read, that an invitation is accepted has been made
\* a collaborator by it first (acceptInvitation), whatever fails or overlaps.
THEOREM JoinedFirst == CommentsSpec => []AcceptedHasJoined
<1>1. Inv => AcceptedHasJoined
  BY DEF Inv, RowsInv
<1> QED BY <1>1, Invariance, PTL

\* While no write fails, an invitation through which somebody joined stays
\* pending only until the request that accepts it has marked it
\* (acceptInvitation, lines 424-446), however requests overlap.
THEOREM JoinedAnswered == CommentsSpec => []JoinedIsAnswered
<1>1. Answering => JoinedIsAnswered
  BY DEF Answering
<1> QED BY <1>1, AnsweringInvariance, PTL

\* As long as requests do not overlap, inviter and invitee are told one story,
\* and it is what the table says (acceptInvitation, rejectInvitation,
\* cancelInvitation), whatever fails.
THEOREM OneAnswerTold == CommentsSpec => []AloneOneStory
<1>1. Alone => AloneOneStory
  BY DEF Alone
<1> QED BY <1>1, AloneInvariance, PTL

\* As long as requests do not overlap, no step changes an answer, or brings an
\* answered invitation back that was cancelled.
THEOREM AnswersFinal == CommentsSpec => AloneFinal
<1>1. Inv /\ Answering /\ Alone /\ [CommentsNext]_<<vars, commentVars>> => [FinalAnswers]_vars
  BY FinalStep
<1> QED BY <1>1, Invariance, AnsweringInvariance, AloneInvariance, PTL DEF CommentsSpec, AloneFinal

\* Between requests, as long as none overlapped or failed, what a connected
\* socket heard last of a comment of a project that exists is what the table
\* says (createComment, updateCommentPosition, deleteComment).
THEOREM HeardLatest == CommentsSpec => []AloneHeardLatest
<1>1. Attentive /\ Hearing => AloneHeardLatest
  <2> SUFFICES ASSUME Attentive, Hearing, ~overlapped, failures = 0, FreeSlots = Slots,
                      NEW k \in Sockets, NEW i \in Ids
               PROVE  LET h == heard[k][i] IN
                      /\ h.event = "gone" => \A c \in comments : c.id # i
                      /\ h.event = "placed" /\ Live(h.project)
                           => \E c \in comments : c.id = i /\ Placed(c) = h
    BY DEF AloneHeardLatest
  <2>1. \A s \in Slots : ~Announces(task[s], i)
    BY DEF FreeSlots, Announces
  <2>2. HeardRight(i)
    BY <2>1 DEF Hearing
  <2>3. OldProject(heard[k][i], LiveProjects, deleted)
    BY DEF Hearing
  <2> QED BY <2>2, <2>3 DEF HeardRight, Right, OldProject, LiveProjects
<1> QED BY <1>1, HearingInvariance, PTL

=============================================================================
