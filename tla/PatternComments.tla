-------------------------- MODULE PatternComments --------------------------
(***************************************************************************)
(* Comments on the patterns of a project                                   *)
(* (src/src/project/pattern-comment.service.ts), next to the requests of   *)
(* Membership: whoever has a role in a project may comment, a project that *)
(* is deleted takes its comments along, and every socket that subscribed   *)
(* to project invitations hears of every comment.                          *)
(*                                                                         *)
(* A comment is identified by the number of the request that created it;   *)
(* its place (track and bar) by the number of the request that set it.     *)
(***************************************************************************)
EXTENDS Membership

VARIABLES
  comments,  \* table pattern_comments
  heard      \* socket -> comment -> the last event it heard about it

commentVars == <<comments, heard>>

PatternComment == [id : Ids, project : Projects, author : Users, place : Ids]

CommentKinds == {"comment", "move", "uncomment"}
CommentPCs   == {"mayComment", "insertComment", "findComment", "saveComment", "removeComment",
                 "findMembers", "findOwner"}

\* A request about comment i: its row as it was found (as it is to be inserted,
\* for a new one), and whether there are collaborators to tell.
CommentAt(pc, k, id, c, p, i, row, some) ==
  [pc |-> pc, kind |-> k, id |-> id, caller |-> c, project |-> p, comment |-> i, row |-> row,
   members |-> some]
NoRow       == [id |-> 0]
Going(t, pc) == [t EXCEPT !.pc = pc]

\* What a socket knows of a comment.
Unheard       == [event |-> "none"]
Placed(c)     == [event |-> "placed", project |-> c.project, place |-> c.place]
Gone          == [event |-> "gone"]

\* Everybody with the channel hears, whatever the project and the user.
Audience  == {k \in Sockets : "projectInvitations" \in userSubscriptions[k].channels}
Hear(i, e) == heard' = [k \in Sockets |-> IF k \in Audience THEN [heard[k] EXCEPT ![i] = e]
                                                            ELSE heard[k]]

CommentsInit ==
  /\ Init
  /\ comments = {}
  /\ heard = [k \in Sockets |-> [i \in Ids |-> Unheard]]

---------------------------------------------------------------------------
\* Requests arrive

BeginComment(k, pc, c, p, i) ==
  /\ requests < MaxRequests
  /\ requests' = requests + 1
  /\ \E s \in FreeSlots :
       task' = [task EXCEPT ![s] = CommentAt(pc, k, requests + 1, c, p, i, NoRow, FALSE)]
  /\ overlapped' = (overlapped \/ FreeSlots # Slots)
  /\ UNCHANGED <<gateway, tables, joined, told, failures, commentVars>>

CreateComment(c, p)            == BeginComment("comment", "mayComment", c, p, requests + 1)
UpdateCommentPosition(c, p, i) == BeginComment("move", "mayComment", c, p, i)
DeleteComment(c, i)            == BeginComment("uncomment", "findComment", c, None, i)

\* Clients know the ids of comments that are or were there.
CommentRequest ==
  \E c \in Users :
    \/ \E p \in Projects :
         \/ CreateComment(c, p)
         \/ \E i \in 1..requests : UpdateCommentPosition(c, p, i)
    \/ \E i \in 1..requests : DeleteComment(c, i)

---------------------------------------------------------------------------
\* Queries

\* Any role may comment.
MayComment(s) ==
  LET t == task[s] IN
  /\ t.pc = "mayComment"
  /\ \E role \in UserRoles(t.caller, t.project) :
       task' = [task EXCEPT ![s] =
         IF role = None THEN NoRequest
         ELSE Going(t, IF t.kind = "comment" THEN "insertComment" ELSE "findComment")]
  /\ UNCHANGED <<gateway, tables, requests, joined, told, overlapped, failures, commentVars>>

InsertComment(s) ==
  LET t == task[s] IN
  /\ t.pc = "insertComment"
  /\ IF Live(t.project)
       THEN LET row == [id |-> t.id, project |-> t.project, author |-> t.caller, place |-> t.id] IN
            /\ comments' = comments \cup {row}
            /\ task' = [task EXCEPT ![s] = [Going(t, "findMembers") EXCEPT !.row = row]]
       ELSE Ended(s) /\ UNCHANGED comments
  /\ UNCHANGED <<gateway, tables, requests, joined, told, overlapped, failures, heard>>

\* The comment a request may move, or remove.
Allowed(t, c) ==
  /\ c.id = t.comment
  /\ IF t.kind = "move" THEN c.project = t.project
                        ELSE t.caller = c.author \/ t.caller = owner[c.project]

FindComment(s) ==
  LET t == task[s]
      found == {c \in comments : Allowed(t, c)} IN
  /\ t.pc = "findComment"
  /\ IF found = {}
       THEN Ended(s)
       ELSE \E c \in found :
              task' = [task EXCEPT ![s] = [Going(t, IF t.kind = "move" THEN "saveComment"
                                                    ELSE "removeComment") EXCEPT !.row = c]]
  /\ UNCHANGED <<gateway, tables, requests, joined, told, overlapped, failures, commentVars>>

\* save() of the copy that was found, at its new place: inserted anew if it was
\* deleted meanwhile, which fails if the project is gone as well.
SaveComment(s) ==
  LET t == task[s]
      row == [t.row EXCEPT !.place = t.id] IN
  /\ t.pc = "saveComment"
  /\ IF Live(row.project)
       THEN /\ comments' = {c \in comments : c.id # row.id} \cup {row}
            /\ task' = [task EXCEPT ![s] = [Going(t, "findMembers") EXCEPT !.row = row]]
       ELSE Ended(s) /\ UNCHANGED comments
  /\ UNCHANGED <<gateway, tables, requests, joined, told, overlapped, failures, heard>>

\* createComment has the owner already, and so always somebody to tell.
FindMembers(s) ==
  LET t == task[s] IN
  /\ t.pc = "findMembers"
  /\ IF t.kind = "comment"
       THEN Hear(t.row.id, Placed(t.row)) /\ Ended(s)
       ELSE /\ task' = [task EXCEPT ![s] = [Going(t, "findOwner") EXCEPT
                          !.members = \E r \in collaborators : r.project = t.project]]
            /\ UNCHANGED heard
  /\ UNCHANGED <<gateway, tables, requests, joined, told, overlapped, failures, comments>>

\* Mutant of Moved: the event has the place the comment was found at.
Moved_From(t) == Placed([t.row EXCEPT !.place = t.comment])

Moved(t) == Placed(t.row)
FindOwner(s) ==
  LET t == task[s] IN
  /\ t.pc = "findOwner"
  /\ IF t.members \/ Live(t.project) THEN Hear(t.row.id, Moved(t)) ELSE UNCHANGED heard
  /\ Ended(s)
  /\ UNCHANGED <<gateway, tables, requests, joined, told, overlapped, failures, comments>>

RemoveComment(s) ==
  LET t == task[s] IN
  /\ t.pc = "removeComment"
  /\ comments' = {c \in comments : c.id # t.comment}
  /\ Hear(t.comment, Gone)
  /\ Ended(s)
  /\ UNCHANGED <<gateway, tables, requests, joined, told, overlapped, failures>>

\* A query fails, or the process ends before it: nobody is told.
CommentFails(s) ==
  /\ task[s].pc \in CommentPCs \ {"mayComment", "findComment"}
  /\ failures < MaxFailures
  /\ failures' = failures + 1
  /\ Ended(s)
  /\ UNCHANGED <<gateway, tables, requests, joined, told, overlapped, commentVars>>

\* Mutant of Kept: comments have no foreign key.
Kept_All(live) == comments

\* The comments that stay when the projects in live do; a socket that is gone
\* knows nothing.
Kept(live) == {c \in comments : c.project \in live}
MembershipStep ==
  /\ Next
  /\ comments' = Kept({p \in Projects : owner'[p] # None})
  /\ heard' = [k \in Sockets |-> IF line'[k] = "down" THEN [i \in Ids |-> Unheard] ELSE heard[k]]

CommentQuery(s) ==
  \/ MayComment(s) \/ InsertComment(s) \/ FindComment(s) \/ SaveComment(s) \/ FindMembers(s)
  \/ FindOwner(s) \/ RemoveComment(s) \/ CommentFails(s)

CommentsNext == MembershipStep \/ CommentRequest \/ \E s \in Slots : CommentQuery(s)

CommentsSpec == CommentsInit /\ [][CommentsNext]_<<vars, commentVars>>

---------------------------------------------------------------------------
\* Properties

\* Types of the state.
CommentsTypeOK ==
  /\ TypedWith(Kinds \cup CommentKinds, PCs \cup CommentPCs)
  /\ comments \subseteq PatternComment
  /\ heard \in [Sockets -> [Ids -> [event : {"none", "gone"}]
                                     \cup [event : {"placed"}, project : Projects, place : Ids]]]

\* Comments, collaborators and invitations belong to projects that exist,
\* although a comment that is moved, or an invitation that is answered, while
\* it or its project is deleted is saved from a copy; and an id names one row.
CommentsRefer ==
  /\ RowsRefer
  /\ \A c \in comments : Live(c.project)
  /\ \A c, d \in comments : c.id = d.id => c = d

\* Between requests, as long as none overlapped or failed, what a connected
\* socket last heard of a comment of a project that exists is what the table
\* says.
AloneHeardLatest ==
  ~overlapped /\ failures = 0 /\ FreeSlots = Slots =>
    \A k \in Sockets, i \in Ids :
      LET h == heard[k][i] IN
      /\ h.event = "gone" => \A c \in comments : c.id # i
      /\ h.event = "placed" /\ Live(h.project) => \E c \in comments : c.id = i /\ Placed(c) = h

=============================================================================
