----------------------------- MODULE Membership -----------------------------
(***************************************************************************)
(* Who may work on a project: invitations                                  *)
(* (src/src/project/project-invitation.service.ts), collaborators, and     *)
(* creation and deletion of projects (src/src/project/project.service.ts), *)
(* by the roles of src/src/libs/services/permission.service.ts, and the    *)
(* notifications about invitations.                                        *)
(*                                                                         *)
(* A request is a sequence of database queries with an await after each    *)
(* and no transaction around them, so requests interleave between any two  *)
(* queries.  A query is one action, together with the code that follows it *)
(* up to the next query.  Reads that nothing can distinguish from a later  *)
(* read of the same request are left out.  A request that is refused, or   *)
(* has read something it does not like, just ends.                         *)
(*                                                                         *)
(* A row is identified by the number of the request that inserted it.      *)
(***************************************************************************)
EXTENDS NotificationGateway

CONSTANTS
  Projects,     \* project ids; each is created at most once
  NameOf,       \* the name with which a project is created
  Roles,        \* roles of invitations and collaborators
  Slots,        \* places for requests in flight
  MaxRequests,  \* bound: requests
  MaxFailures   \* bound: failing saves

CollaboratorRole == {"owner", "editor", "viewer", "commenter"}

ASSUME MembershipConstants ==
  /\ Roles \subseteq CollaboratorRole
  /\ None \notin Projects \cup CollaboratorRole
  /\ MaxRequests \in Nat
  /\ MaxFailures \in Nat

VARIABLES
  owner,          \* table project: project -> ownerId, or None
  deleted,        \* projects that were deleted
  collaborators,  \* table collaborator
  invitations,    \* table project_invitation
  task,           \* slot -> the request it holds
  requests,       \* number of requests so far
  joined,         \* invitations for which a collaborator row was inserted
  told,           \* notifications: to which socket, about which invitation, what
  overlapped,     \* TRUE once a request has started while another was running
  failures        \* number of failed saves

tables == <<owner, deleted, collaborators, invitations>>
vars == <<gateway, tables, task, requests, joined, told, overlapped, failures>>

---------------------------------------------------------------------------
\* Rows and requests

Ids      == 1..MaxRequests
Statuses == {"pending", "accepted", "rejected"}
Events   == {"received", "accepted", "rejected", "cancelled"}

\* via: the invitation through which the collaborator came, 0 if none (not a
\* column of the table).
Collaborator == [id : Ids, project : Projects, user : Users, role : CollaboratorRole,
                 via : 0..MaxRequests]
ProjectInvitation == [id : Ids, project : Projects, inviter : Users, invitee : Users,
                      role : Roles, status : Statuses]

Live(p) == owner[p] # None

\* What getUserRole may answer: of several rows for one user, any may be found.
UserRoles(u, p) ==
  IF owner[p] = u THEN {"owner"}
  ELSE LET rows == {r \in collaborators : r.project = p /\ r.user = u} IN
       IF Live(p) /\ rows # {} THEN {r.role : r \in rows} ELSE {None}
CanInvite(role) == role \in {"owner", "editor"}
CanDelete(role) == role = "owner"

IsCollaborator(p, u) == \E r \in collaborators : r.project = p /\ r.user = u
IsInvited(p, u) == \E v \in invitations : v.project = p /\ v.invitee = u /\ v.status = "pending"

Kinds == {"none", "create", "delete", "add", "remove", "send", "accept", "reject", "cancel"}

\* The query a request performs next.
PCs == {"idle", "findName", "insertProject", "permit", "deleteProject", "owns",
        "deleteCollaborator", "findCollaborator", "findPending", "insertCollaborator",
        "insertInvitation", "findInvitation", "mark", "deleteInvitation", "tell"}

\* What a request has in hand: its number, its caller, the project, user and
\* role it is about, and, if it is about an invitation, the number and the
\* inviter of that; these are what it keeps of the invitation it has found.
RequestAt(pc, k, id, c, p, u, r, v, i) ==
  [pc |-> pc, kind |-> k, id |-> id, caller |-> c, project |-> p, user |-> u,
   role |-> r, invitation |-> v, inviter |-> i]
NoRequest == RequestAt("idle", "none", 0, None, None, None, None, 0, None)
At(t, pc) == RequestAt(pc, t.kind, t.id, t.caller, t.project, t.user, t.role,
                       t.invitation, t.inviter)

\* Mutant of Found: the role of the invitation is not taken over.
Found_Roleless(t, v) == RequestAt(t.pc, t.kind, t.id, t.caller, v.project, v.invitee, None,
                                  v.id, v.inviter)

\* t, knowing what it needs of the invitation v it has found.
Found(t, v) == RequestAt(t.pc, t.kind, t.id, t.caller, v.project, v.invitee, v.role,
                         v.id, v.inviter)

FreeSlots == {s \in Slots : task[s].pc = "idle"}

Init ==
  /\ GatewayInit
  /\ owner = [p \in Projects |-> None]
  /\ deleted = {}
  /\ collaborators = {}
  /\ invitations = {}
  /\ task = [s \in Slots |-> NoRequest]
  /\ requests = 0
  /\ joined = {}
  /\ told = {}
  /\ overlapped = FALSE
  /\ failures = 0

---------------------------------------------------------------------------
\* Requests arrive

\* A request of kind k, whose first query is pc, by caller c about project p,
\* user u and role r, or about invitation v.
Begin(k, pc, c, p, u, r, v) ==
  /\ requests < MaxRequests
  /\ requests' = requests + 1
  /\ \E s \in FreeSlots :
       task' = [task EXCEPT ![s] = RequestAt(pc, k, requests + 1, c, p, u, r, v, None)]
  /\ overlapped' = (overlapped \/ FreeSlots # Slots)
  /\ UNCHANGED <<gateway, tables, joined, told, failures>>

CreateProject(c, p) ==
  /\ ~Live(p)
  /\ p \notin deleted
  /\ \A s \in Slots : ~(task[s].kind = "create" /\ task[s].project = p)
  /\ Begin("create", "findName", c, p, None, None, 0)

DeleteProject(c, p)         == Begin("delete", "permit", c, p, None, None, 0)
AddCollaborator(c, p, u)    == Begin("add", "permit", c, p, u, "editor", 0)
RemoveCollaborator(c, p, u) == Begin("remove", "owns", c, p, u, None, 0)
SendInvitation(c, p, u, r)  == c # u /\ Begin("send", "permit", c, p, u, r, 0)

\* Callers know the ids of the invitations they sent or received.
AcceptInvitation(c, v) == Begin("accept", "findInvitation", c, None, None, None, v)
RejectInvitation(c, v) == Begin("reject", "findInvitation", c, None, None, None, v)
CancelInvitation(c, v) == Begin("cancel", "findInvitation", c, None, None, None, v)

---------------------------------------------------------------------------
\* Queries

\* Mutant of After: an invitation is marked before the collaborator is saved.
After_MarkFirst(t) ==
  CASE t.pc = "findName"           -> "insertProject"
    [] t.pc = "permit"             -> IF t.kind = "delete" THEN "deleteProject" ELSE "findCollaborator"
    [] t.pc = "owns"               -> "deleteCollaborator"
    [] t.pc = "findCollaborator"   -> (CASE t.kind = "send"   -> "findPending"
                                         [] t.kind = "accept" -> "mark"
                                         [] OTHER             -> "insertCollaborator")
    [] t.pc = "findPending"        -> "insertInvitation"
    [] t.pc = "findInvitation"     -> (CASE t.kind = "accept" -> "findCollaborator"
                                         [] t.kind = "reject" -> "mark"
                                         [] t.kind = "cancel" -> "deleteInvitation")
    [] t.pc = "mark"               -> IF t.kind = "accept" THEN "insertCollaborator" ELSE "tell"
    [] t.pc = "insertCollaborator" -> IF t.kind = "accept" THEN "tell" ELSE "idle"
    [] t.pc = "insertInvitation"   -> "tell"
    [] OTHER -> "idle"

\* The query that follows when the present one found what it should.
After(t) ==
  CASE t.pc = "findName"           -> "insertProject"
    [] t.pc = "permit"             -> IF t.kind = "delete" THEN "deleteProject" ELSE "findCollaborator"
    [] t.pc = "owns"               -> "deleteCollaborator"
    [] t.pc = "findCollaborator"   -> IF t.kind = "send" THEN "findPending" ELSE "insertCollaborator"
    [] t.pc = "findPending"        -> "insertInvitation"
    [] t.pc = "insertCollaborator" -> IF t.kind = "accept" THEN "mark" ELSE "idle"
    [] t.pc = "findInvitation"     -> (CASE t.kind = "accept" -> "findCollaborator"
                                         [] t.kind = "reject" -> "mark"
                                         [] t.kind = "cancel" -> "deleteInvitation")
    [] t.pc \in {"mark", "insertInvitation"} -> "tell"
    [] OTHER -> "idle"

Ended(s)  == task' = [task EXCEPT ![s] = NoRequest]
GoOn(s)   == IF After(task[s]) = "idle" THEN Ended(s)
             ELSE task' = [task EXCEPT ![s] = At(@, After(@))]

\* A read-only query: the request goes on if ok, and ends if not.
Check(s, pc, ok) ==
  /\ task[s].pc = pc
  /\ IF ok THEN GoOn(s) ELSE Ended(s)
  /\ UNCHANGED <<gateway, tables, requests, joined, told, overlapped, failures>>

NameTaken(p)        == \E q \in Projects : Live(q) /\ NameOf[q] = NameOf[p]

Permit(s) ==
  /\ task[s].pc = "permit"
  /\ \E role \in UserRoles(task[s].caller, task[s].project) :
       Check(s, "permit", IF task[s].kind = "delete" THEN CanDelete(role) ELSE CanInvite(role))

FindName(s)         == Check(s, "findName", ~NameTaken(task[s].project))
Owns(s)             == Check(s, "owns", owner[task[s].project] = task[s].caller)
FindCollaborator(s) == Check(s, "findCollaborator", ~IsCollaborator(task[s].project, task[s].user))
FindPending(s)      == Check(s, "findPending", ~IsInvited(task[s].project, task[s].user))

\* Mutant of Answerable: any invitation of the invitee, also an answered one.
Answerable_Again(v, t) == v.id = t.invitation /\ t.caller = IF t.kind = "cancel" THEN v.inviter ELSE v.invitee

\* The pending invitation a request may answer or cancel.
Answerable(v, t) ==
  /\ v.id = t.invitation
  /\ v.status = "pending"
  /\ t.caller = IF t.kind = "cancel" THEN v.inviter ELSE v.invitee

FindInvitation(s) ==
  /\ task[s].pc = "findInvitation"
  /\ IF \E v \in invitations : Answerable(v, task[s])
       THEN \E v \in invitations :
              /\ Answerable(v, task[s])
              /\ task' = [task EXCEPT ![s] = At(Found(@, v), After(@))]
       ELSE Ended(s)
  /\ UNCHANGED <<gateway, tables, requests, joined, told, overlapped, failures>>

InsertProject(s) ==
  /\ task[s].pc = "insertProject"
  /\ owner' = [owner EXCEPT ![task[s].project] = task[s].caller]
  /\ Ended(s)
  /\ UNCHANGED <<gateway, deleted, collaborators, invitations, requests, joined, told, overlapped, failures>>

\* DELETE of a project: the foreign key of collaborator forbids it while there
\* are collaborators; that of project_invitation deletes the invitations.
Cascaded(p) == {v \in invitations : v.project # p}
DeleteRow(s) ==
  LET p == task[s].project IN
  /\ task[s].pc = "deleteProject"
  /\ Ended(s)
  /\ IF \E r \in collaborators : r.project = p
       THEN UNCHANGED tables
       ELSE /\ owner' = [owner EXCEPT ![p] = None]
            /\ deleted' = deleted \cup {p}
            /\ invitations' = Cascaded(p)
            /\ UNCHANGED collaborators
  /\ UNCHANGED <<gateway, requests, joined, told, overlapped, failures>>

\* removeCollaborator deletes by user id alone: in every project.
DeleteCollaborator(s) ==
  /\ task[s].pc = "deleteCollaborator"
  /\ collaborators' = {r \in collaborators : r.user # task[s].user}
  /\ Ended(s)
  /\ UNCHANGED <<gateway, owner, deleted, invitations, requests, joined, told, overlapped, failures>>

\* The foreign key lets a row in only while its project exists.
InsertCollaborator(s) ==
  LET t == task[s] IN
  /\ t.pc = "insertCollaborator"
  /\ IF Live(t.project)
       THEN /\ collaborators' = collaborators \cup
                 {[id |-> t.id, project |-> t.project, user |-> t.user, role |-> t.role,
                   via |-> t.invitation]}
            /\ joined' = IF t.kind = "accept" THEN joined \cup {t.invitation} ELSE joined
            /\ GoOn(s)
       ELSE Ended(s) /\ UNCHANGED <<collaborators, joined>>
  /\ UNCHANGED <<gateway, owner, deleted, invitations, requests, told, overlapped, failures>>

InsertInvitation(s) ==
  LET t == task[s] IN
  /\ t.pc = "insertInvitation"
  /\ IF Live(t.project)
       THEN /\ invitations' = invitations \cup
                 {[id |-> t.id, project |-> t.project, inviter |-> t.caller,
                   invitee |-> t.user, role |-> t.role, status |-> "pending"]}
            /\ task' = [task EXCEPT ![s] = RequestAt("tell", t.kind, t.id, t.caller, t.project,
                                                     t.user, t.role, t.id, t.caller)]
       ELSE Ended(s) /\ UNCHANGED invitations
  /\ UNCHANGED <<gateway, owner, deleted, collaborators, requests, joined, told, overlapped, failures>>

\* Mutant of Marked: the status of the copy is not set.
Copy(t, status) ==
  [id |-> t.invitation, project |-> t.project, inviter |-> t.inviter,
   invitee |-> t.user, role |-> t.role, status |-> status]
Marked_Not(t) == Copy(t, "pending")

\* save() of the copy of the invitation with its new status: an UPDATE, or an
\* INSERT if the row is gone, which the foreign key lets in only while the
\* project exists.
Marked(t) == Copy(t, IF t.kind = "accept" THEN "accepted" ELSE "rejected")
Mark(s) ==
  LET t == task[s] IN
  /\ t.pc = "mark"
  /\ IF Live(t.project)
       THEN invitations' = {v \in invitations : v.id # t.invitation} \cup {Marked(t)} /\ GoOn(s)
       ELSE Ended(s) /\ UNCHANGED invitations
  /\ UNCHANGED <<gateway, owner, deleted, collaborators, requests, joined, told, overlapped, failures>>

\* Who is told of an invitation, and what; by now the sockets may be others
\* than when the request came in.
Notified(t) == IF t.kind = "send" THEN {t.user} ELSE {t.inviter, t.user}
Event(t)    == CASE t.kind = "send"   -> "received"
                 [] t.kind = "accept" -> "accepted"
                 [] t.kind = "reject" -> "rejected"
                 [] t.kind = "cancel" -> "cancelled"
Notifications(t) ==
  {[socket |-> k, invitation |-> t.invitation, event |-> Event(t)] :
     k \in UNION {Listeners(u, "projectInvitations") : u \in Notified(t)}}

Tell(s) ==
  /\ task[s].pc = "tell"
  /\ told' = told \cup Notifications(task[s])
  /\ Ended(s)
  /\ UNCHANGED <<gateway, tables, requests, joined, overlapped, failures>>

\* cancelInvitation tells both users as soon as the row is deleted.
DeleteInvitation(s) ==
  /\ task[s].pc = "deleteInvitation"
  /\ invitations' = {v \in invitations : v.id # task[s].invitation}
  /\ told' = told \cup Notifications(task[s])
  /\ Ended(s)
  /\ UNCHANGED <<gateway, owner, deleted, collaborators, requests, joined, overlapped, failures>>

\* A write fails, or the process ends before it: what was written before stays.
WriteFails(s) ==
  /\ task[s].pc \in {"insertProject", "deleteProject", "deleteCollaborator",
                     "insertCollaborator", "insertInvitation", "mark", "deleteInvitation"}
  /\ failures < MaxFailures
  /\ failures' = failures + 1
  /\ Ended(s)
  /\ UNCHANGED <<gateway, tables, requests, joined, told, overlapped>>

Request ==
  \E c \in Users :
    \/ \E p \in Projects :
         \/ CreateProject(c, p) \/ DeleteProject(c, p)
         \/ \E u \in Users :
              \/ AddCollaborator(c, p, u) \/ RemoveCollaborator(c, p, u)
              \/ \E r \in Roles : SendInvitation(c, p, u, r)
    \/ \E v \in Ids : AcceptInvitation(c, v) \/ RejectInvitation(c, v) \/ CancelInvitation(c, v)

Query(s) ==
  \/ FindName(s) \/ Permit(s) \/ Owns(s) \/ FindCollaborator(s) \/ FindPending(s)
  \/ FindInvitation(s) \/ InsertProject(s) \/ DeleteRow(s) \/ DeleteCollaborator(s)
  \/ InsertCollaborator(s) \/ InsertInvitation(s) \/ Mark(s) \/ Tell(s) \/ DeleteInvitation(s)

Gateway ==
  /\ GatewayNext
  /\ UNCHANGED <<tables, task, requests, joined, told, overlapped, failures>>

Next == Request \/ Gateway \/ \E s \in Slots : Query(s) \/ WriteFails(s)

Spec == Init /\ [][Next]_vars

---------------------------------------------------------------------------
\* Properties

\* Types of the tables and of requests of the given kinds and queries.
TypedWith(kinds, pcs) ==
  /\ GatewayTypeOK
  /\ owner \in [Projects -> Users \cup {None}]
  /\ deleted \subseteq Projects
  /\ collaborators \subseteq Collaborator
  /\ invitations \subseteq ProjectInvitation
  /\ \A s \in Slots :
       /\ task[s].pc \in pcs
       /\ task[s].kind \in kinds
       /\ task[s].id \in 0..requests
       /\ task[s].pc = "idle" <=> task[s].kind = "none"
       /\ task[s].kind # "none" => task[s].caller \in Users
  /\ requests \in 0..MaxRequests
  /\ joined \subseteq Ids
  /\ told \subseteq [socket : Sockets, invitation : Ids, event : Events]
  /\ overlapped \in BOOLEAN
  /\ failures \in 0..MaxFailures

\* Types of the state.
TypeOK == TypedWith(Kinds, PCs)

\* The tables refer to projects that exist, and an id names one invitation,
\* although an invitation is inserted anew when it is answered after it was
\* cancelled.
RowsRefer ==
  /\ \A r \in collaborators : Live(r.project)
  /\ \A v \in invitations : Live(v.project)
  /\ \A v, w \in invitations : v.id = w.id => v = w

\* Whoever is told, or can read, that an invitation is accepted has been made
\* a collaborator by it: the row comes first, whatever fails or interferes.
AcceptedHasJoined ==
  /\ \A v \in invitations : v.status = "accepted" => v.id \in joined
  /\ \A n \in told : n.event = "accepted" => n.invitation \in joined

\* Inviter and invitee are told one story: as long as requests do not overlap,
\* an invitation is announced with one answer - accepted, rejected or cancelled -
\* and it is the one in the table.  (A repetition is not seen.)
AloneOneStory ==
  ~overlapped =>
    \A n \in told : n.event # "received" =>
      /\ \A o \in told : o.invitation = n.invitation /\ o.event # "received" => o.event = n.event
      /\ \A v \in invitations : v.id = n.invitation => v.status = n.event

\* The other half-done state, a collaborator whose invitation is still
\* pending, lasts only while the request that accepts it runs, unless a write
\* fails.
JoinedIsAnswered ==
  failures = 0 =>
    \A v \in invitations : v.status = "pending" /\ v.id \in joined =>
      \E s \in Slots : task[s].pc = "mark" /\ task[s].invitation = v.id

\* As long as requests did not overlap, an answer is final: it is not changed,
\* and an invitation that was cancelled does not come back.
FinalAnswers ==
  ~overlapped =>
    /\ \A v \in invitations, w \in invitations' : v.id = w.id /\ v.status # "pending" => w = v
    /\ \A w \in invitations' : w.status # "pending" => \E v \in invitations : v.id = w.id
AloneFinal == [][FinalAnswers]_vars

\* Comment at project-invitation.service.ts:391: acceptInvitation makes a
\* "race condition check" - so one invitation never makes two rows.
AcceptedOnce ==
  \A r, x \in collaborators : r.via # 0 /\ r.via = x.via => r = x

=============================================================================
