--------------------------- MODULE ProjectContent ---------------------------
(***************************************************************************)
(* The stored notes of one project: processMessage of the sync gateway     *)
(* (src/src/socket/sync.gateway.ts), createSnapshot and restoreSnapshot    *)
(* (src/src/project/project.service.ts), and the history and content keys  *)
(* they read and rewrite in Redis (src/src/libs/redis/redis.service.ts).   *)
(*                                                                         *)
(* Every call reads a key, waits, and writes the key anew.  Redis executes *)
(* commands in the order in which they were sent; a call goes on some time *)
(* after its command was executed, and calls that resume at the same await *)
(* go on in the order of their replies.                                    *)
(*                                                                         *)
(* A note carries its uuid and, for its values, the number of the message  *)
(* that wrote them.  Permissions are in Membership; a call they refuse     *)
(* changes nothing.                                                        *)
(***************************************************************************)
EXTENDS Naturals, Sequences, FiniteSets, SequencesExt

CONSTANTS
  Clients,      \* websocket clients
  Uuids,        \* uuids of notes
  Batches,      \* the notes of a message: sequences of [action, uuid]
  Slots,        \* places for asynchronous calls in flight
  MaxMessages,  \* bound: sync messages
  MaxFailures   \* bound: Redis commands or database saves that fail

Actions == {"ADD", "UPDATE", "DELETE"}

ASSUME ContentConstants ==
  /\ Batches \subseteq Seq([action : Actions, uuid : Uuids])
  /\ MaxMessages \in Nat
  /\ MaxFailures \in Nat

\* A message does not add a note twice: a client gives a new note a fresh uuid.
ASSUME NewNotes ==
  \A b \in Batches : \A i, j \in DOMAIN b :
    b[i].action = "ADD" /\ b[j] = b[i] => i = j

VARIABLES
  room,        \* members of the project's room, which exists while there are any
  history,     \* StarSync-History: numbers of messages
  content,     \* StarSync-Content: a sequence of notes
  snapshots,   \* snapshotData of the rows of project_snapshot
  batches,     \* the sync messages so far, by number
  task,        \* slot -> the call it holds
  pipe,        \* calls whose Redis command is not yet executed, in order
  replies,     \* calls whose command is executed and that have not gone on
  seen,        \* client -> the SYNC broadcasts it was sent
  stored,      \* messages in the order in which they wrote the content
  ideal,       \* the content if every write had seen the one before it
  overlapped,  \* TRUE once a call has started while another was running
  failures     \* number of failed commands and saves

data  == <<history, content, stored, ideal>>
vars == <<room, data, snapshots, batches, task, pipe, replies, seen, overlapped, failures>>

---------------------------------------------------------------------------
\* Notes and calls

Notes == [uuid : Uuids, by : 1..MaxMessages]

\* The notes other than the one with uuid u, in their order.
Without(notes, u) ==
  LET kept[j \in 0..Len(notes)] ==
        IF j = 0 THEN <<>>
        ELSE IF notes[j].uuid = u THEN kept[j - 1] ELSE Append(kept[j - 1], notes[j])
  IN  kept[Len(notes)]

\* Mutant of Applied: an UPDATE of a note appends its new values.
Applied_Append(notes, e, k) ==
  CASE e.action = "ADD"    -> Append(notes, [uuid |-> e.uuid, by |-> k])
    [] e.action = "UPDATE" -> Append(notes, [uuid |-> e.uuid, by |-> k])
    [] e.action = "DELETE" -> Without(notes, e.uuid)

\* One entry of message k applied to the notes.
Applied(notes, e, k) ==
  CASE e.action = "ADD"    -> Append(notes, [uuid |-> e.uuid, by |-> k])
    [] e.action = "UPDATE" -> [j \in DOMAIN notes |->
                                IF notes[j].uuid = e.uuid THEN [uuid |-> e.uuid, by |-> k]
                                                          ELSE notes[j]]
    [] e.action = "DELETE" -> Without(notes, e.uuid)

\* All entries of message k, in order.
Edited(notes, k) ==
  LET after[i \in 0..Len(batches[k])] ==
        IF i = 0 THEN notes ELSE Applied(after[i - 1], batches[k][i], k)
  IN  after[Len(batches[k])]

\* Where a call is: the Redis command it waits for, the save it waits for, or
\* idle.  read is the last value it got, goal what a restore will write.
PCs   == {"idle", "getHistory", "setHistory", "getContent", "setContent", "save"}
Kinds == {"none", "sync", "snapshot", "restore"}

CallAt(pc, kind, k, read, goal) ==
  [pc |-> pc, kind |-> kind, message |-> k, read |-> read, goal |-> goal]
NoCall    == CallAt("idle", "none", 0, <<>>, <<>>)
At(t, pc) == CallAt(pc, t.kind, t.message, t.read, t.goal)
Got(t, v) == CallAt(t.pc, t.kind, t.message, v, t.goal)

FreeSlots == {s \in Slots : task[s].pc = "idle"}

Init ==
  /\ room = {}
  /\ history = <<>>
  /\ content = <<>>
  /\ snapshots = {}
  /\ batches = <<>>
  /\ task = [s \in Slots |-> NoCall]
  /\ pipe = <<>>
  /\ replies = <<>>
  /\ seen = [c \in Clients |-> <<>>]
  /\ stored = <<>>
  /\ ideal = <<>>
  /\ overlapped = FALSE
  /\ failures = 0

---------------------------------------------------------------------------
\* Calls start

JoinProject(c) ==
  /\ room' = room \cup {c}
  /\ UNCHANGED <<data, snapshots, batches, task, pipe, replies, seen, overlapped, failures>>

\* The client leaves the project or closes its socket.
LeaveProject(c) ==
  /\ c \in room
  /\ room' = room \ {c}
  /\ UNCHANGED <<data, snapshots, batches, task, pipe, replies, seen, overlapped, failures>>

\* A call takes a slot and sends its first command.
Start(t) ==
  /\ \E s \in FreeSlots :
       /\ task' = [task EXCEPT ![s] = t]
       /\ pipe' = Append(pipe, s)
  /\ overlapped' = (overlapped \/ FreeSlots # Slots)

\* Mutant of Number: the message is numbered before it is counted.
Number_Stale == Len(batches)
Number       == Len(batches) + 1

\* processMessage of notes b up to addItem's GET.  A client gives a new note
\* a fresh uuid.
Added(b) == {b[j].uuid : j \in {i \in DOMAIN b : b[i].action = "ADD"}}
ProcessMessage(b) ==
  /\ room # {}
  /\ Len(batches) < MaxMessages
  /\ \A k \in DOMAIN batches : Added(b) \cap Added(batches[k]) = {}
  /\ batches' = Append(batches, b)
  /\ Start(CallAt("getHistory", "sync", Number, <<>>, <<>>))
  /\ UNCHANGED <<room, data, snapshots, replies, seen, failures>>

CreateSnapshot ==
  /\ Start(CallAt("getContent", "snapshot", 0, <<>>, <<>>))
  /\ UNCHANGED <<room, data, snapshots, batches, replies, seen, failures>>

\* restoreSnapshot of a row, which nothing ever changes, up to GET.
RestoreSnapshot(d) ==
  /\ Start(CallAt("getContent", "restore", 0, <<>>, d))
  /\ UNCHANGED <<room, data, snapshots, batches, replies, seen, failures>>

---------------------------------------------------------------------------
\* Redis executes commands

\* Mutants: the entries are applied to an empty project; the history is
\* written as it was read.
Replaced_Afresh(s)  == IF task[s].kind = "restore" THEN task[s].goal ELSE Edited(<<>>, task[s].message)
Lengthened_Not(s)   == task[s].read

\* What a call writes: the content it read with its entries applied, or the
\* snapshot it restores; the history it read with its message at the end.
Replaced(s)   == IF task[s].kind = "restore" THEN task[s].goal ELSE Edited(task[s].read, task[s].message)
Lengthened(s) == Append(task[s].read, task[s].message)

\* The keys, and the bookkeeping about them, after the command of slot s.
Keys == [history |-> history, content |-> content, stored |-> stored, ideal |-> ideal]
Effect(r, s) ==
  CASE task[s].pc = "setHistory" ->
         [history |-> Lengthened(s), content |-> r.content,
          stored |-> r.stored, ideal |-> r.ideal]
    [] task[s].pc = "setContent" /\ task[s].kind = "sync" ->
         [history |-> r.history, content |-> Replaced(s),
          stored |-> Append(r.stored, task[s].message),
          ideal |-> Edited(r.ideal, task[s].message)]
    [] task[s].pc = "setContent" /\ task[s].kind = "restore" ->
         [history |-> r.history, content |-> Replaced(s),
          stored |-> r.stored, ideal |-> task[s].goal]
    [] OTHER -> r
KeysBecome(r) ==
  /\ history' = r.history
  /\ content' = r.content
  /\ stored' = r.stored
  /\ ideal' = r.ideal

\* The answer to a GET.
Answer(t) ==
  CASE t.pc = "getHistory" -> Got(t, history)
    [] t.pc = "getContent" -> Got(t, content)
    [] OTHER -> t

Execute ==
  /\ pipe # <<>>
  /\ pipe' = Tail(pipe)
  /\ replies' = Append(replies, Head(pipe))
  /\ KeysBecome(Effect(Keys, Head(pipe)))
  /\ task' = [task EXCEPT ![Head(pipe)] = Answer(@)]
  /\ UNCHANGED <<room, snapshots, batches, seen, overlapped, failures>>

\* A command of a snapshot call fails: the request is answered with an error.
RedisError ==
  /\ pipe # <<>>
  /\ failures < MaxFailures
  /\ task[Head(pipe)].kind # "sync"
  /\ failures' = failures + 1
  /\ pipe' = Tail(pipe)
  /\ task' = [task EXCEPT ![Head(pipe)] = NoCall]
  /\ UNCHANGED <<room, data, snapshots, batches, replies, seen, overlapped>>

\* The keys when the n commands behind the head of pipe are executed, but not
\* the head.
KeysAfter(n) ==
  LET after[i \in 0..n] == IF i = 0 THEN Keys ELSE Effect(after[i - 1], pipe[i + 1])
  IN  after[n]

\* Nobody handles the promise of processMessage: a failed command ends the
\* process once the replies before it are handled.  Of the commands sent
\* behind it the first n are still executed.
RedisErrorEndsProcess ==
  /\ pipe # <<>>
  /\ failures < MaxFailures
  /\ task[Head(pipe)].kind = "sync"
  /\ replies = <<>>
  /\ failures' = failures + 1
  /\ \E n \in 0..(Len(pipe) - 1) : KeysBecome(KeysAfter(n))
  /\ room' = {}
  /\ pipe' = <<>>
  /\ task' = [s \in Slots |-> NoCall]
  /\ UNCHANGED <<snapshots, batches, replies, seen, overlapped>>

---------------------------------------------------------------------------
\* Calls go on

\* Mutant of Turn: the replies of calls at one await are handled in any order.
Turn_Any(s, pc, kind) ==
  /\ \E j \in DOMAIN replies : replies[j] = s
  /\ task[s].pc = pc
  /\ task[s].kind = kind

\* It is the turn of the call in slot s, which has its reply at await pc.
Turn(s, pc, kind) ==
  /\ task[s].pc = pc
  /\ task[s].kind = kind
  /\ \E j \in DOMAIN replies :
       /\ replies[j] = s
       /\ \A i \in 1..(j - 1) : task[replies[i]].pc = pc => task[replies[i]].kind # kind

Taken(s) == RemoveAt(replies, CHOOSE j \in DOMAIN replies : replies[j] = s)

\* The call sends its next command, for which it waits at await pc; what it has
\* read is of no use any more once it asks for another key.
Send(s, pc) ==
  /\ task' = [task EXCEPT ![s] = IF pc = "getContent" THEN Got(At(@, pc), <<>>) ELSE At(@, pc)]
  /\ pipe' = Append(pipe, s)

\* The call takes its reply and sends its next command.
GoOn(s, pc) ==
  /\ replies' = Taken(s)
  /\ Send(s, pc)

\* The call is over.
End(s) ==
  /\ replies' = Taken(s)
  /\ task' = [task EXCEPT ![s] = NoCall]
  /\ UNCHANGED pipe

\* addItem between GET and SET.
HistoryRead(s) ==
  /\ Turn(s, "getHistory", "sync")
  /\ GoOn(s, "setHistory")
  /\ UNCHANGED <<room, data, snapshots, batches, seen, overlapped, failures>>

HistoryStored(s) ==
  /\ Turn(s, "setHistory", "sync")
  /\ GoOn(s, "getContent")
  /\ UNCHANGED <<room, data, snapshots, batches, seen, overlapped, failures>>

ContentRead(s) ==
  /\ Turn(s, "getContent", "sync")
  /\ GoOn(s, "setContent")
  /\ UNCHANGED <<room, data, snapshots, batches, seen, overlapped, failures>>

\* The SYNC broadcast goes to whoever is in the room by now, the sender too.
ContentStored(s) ==
  /\ Turn(s, "setContent", "sync")
  /\ seen' = [c \in Clients |-> IF c \in room THEN Append(seen[c], task[s].message) ELSE seen[c]]
  /\ End(s)
  /\ UNCHANGED <<room, data, snapshots, batches, overlapped, failures>>

\* createSnapshot and restoreSnapshot have read the content: a row is saved.
SnapshotRead(s) ==
  /\ \E kind \in {"snapshot", "restore"} : Turn(s, "getContent", kind)
  /\ replies' = Taken(s)
  /\ task' = [task EXCEPT ![s] = At(@, "save")]
  /\ UNCHANGED <<room, data, snapshots, batches, pipe, seen, overlapped, failures>>

\* Mutant of Row: the row saved before a restore has the restored content.
Row_Restored(s) == IF task[s].kind = "restore" THEN task[s].goal ELSE task[s].read
Row(s)          == task[s].read

SnapshotSaved(s) ==
  /\ task[s].pc = "save"
  /\ task[s].kind = "snapshot"
  /\ snapshots' = snapshots \cup {Row(s)}
  /\ task' = [task EXCEPT ![s] = NoCall]
  /\ UNCHANGED <<room, data, batches, pipe, replies, seen, overlapped, failures>>

\* The backup of restoreSnapshot is saved, then the content is overwritten.
BackupSaved(s) ==
  /\ task[s].pc = "save"
  /\ task[s].kind = "restore"
  /\ snapshots' = snapshots \cup {Row(s)}
  /\ Send(s, "setContent")
  /\ UNCHANGED <<room, data, batches, replies, seen, overlapped, failures>>

SaveFails(s) ==
  /\ task[s].pc = "save"
  /\ failures < MaxFailures
  /\ failures' = failures + 1
  /\ task' = [task EXCEPT ![s] = NoCall]
  /\ UNCHANGED <<room, data, snapshots, batches, pipe, replies, seen, overlapped>>

RestoreStored(s) ==
  /\ Turn(s, "setContent", "restore")
  /\ End(s)
  /\ UNCHANGED <<room, data, snapshots, batches, seen, overlapped, failures>>

Continue(s) ==
  \/ HistoryRead(s) \/ HistoryStored(s) \/ ContentRead(s) \/ ContentStored(s)
  \/ SnapshotRead(s) \/ SnapshotSaved(s) \/ BackupSaved(s) \/ RestoreStored(s)

Next ==
  \/ \E c \in Clients : JoinProject(c) \/ LeaveProject(c)
  \/ \E b \in Batches : ProcessMessage(b)
  \/ CreateSnapshot
  \/ \E d \in snapshots : RestoreSnapshot(d)
  \/ Execute \/ RedisError \/ RedisErrorEndsProcess
  \/ \E s \in Slots : Continue(s) \/ SaveFails(s)

Spec == Init /\ [][Next]_vars

---------------------------------------------------------------------------
\* Properties

Contents == Seq(Notes)

\* Types of the state.
TypeOK ==
  /\ room \subseteq Clients
  /\ history \in Seq(1..MaxMessages)
  /\ content \in Contents
  /\ snapshots \subseteq Contents
  /\ batches \in Seq(Batches)
  /\ Len(batches) <= MaxMessages
  /\ pipe \in Seq(Slots)
  /\ replies \in Seq(Slots)
  /\ \A s \in Slots :
       /\ task[s].pc \in PCs
       /\ task[s].kind \in Kinds
       /\ task[s].pc = "idle" <=> task[s].kind = "none"
       /\ task[s].kind = "sync" <=> task[s].message \in DOMAIN batches
       /\ task[s].goal \in Contents
       /\ task[s].read \in IF task[s].pc \in {"getHistory", "setHistory"}
                            THEN Seq(1..MaxMessages) ELSE Contents
  /\ seen \in [Clients -> Seq(1..MaxMessages)]
  /\ stored \in Seq(1..MaxMessages)
  /\ ideal \in Contents
  /\ overlapped \in BOOLEAN
  /\ failures \in 0..MaxFailures

\* Every client sees broadcasts in the order in which the messages were
\* written, and only of messages that were: with calls overlapping, members
\* coming and going and the process restarting, nobody is told of an edit
\* before it is stored or in another order than a later reader will find.
SeenAsStored ==
  \A c \in Clients : \A k \in DOMAIN seen[c] :
    \E p \in DOMAIN stored :
      /\ stored[p] = seen[c][k]
      /\ \A j \in 1..(k - 1) : \E q \in 1..(p - 1) : stored[q] = seen[c][j]

\* As long as calls did not overlap, the content is what the messages and
\* restores make of it one after the other, through failures and restarts.
AloneIsExact == ~overlapped => content = ideal

\* As long as calls did not overlap, the history has every message that wrote
\* the content, in that order: a failure may leave a message in the history
\* that is not in the content, never the other way round.
HistoryLeads ==
  ~overlapped =>
    \A q \in 1..Len(stored) :
      \E h \in 1..Len(history) :
        /\ history[h] = stored[q]
        /\ \A p \in 1..(q - 1) : \E g \in 1..(h - 1) : history[g] = stored[p]

\* No note is there twice, although a note that was deleted can come back with
\* the content another call had read, or with a snapshot.
NotesUnique ==
  \A j, k \in DOMAIN content : content[j].uuid = content[k].uuid => j = k

\* Slot s holds a restore, and its SET is executed in this step.
Overwrites(s) ==
  /\ task[s].kind = "restore" /\ task[s].pc = "setContent"
  /\ pipe # <<>> /\ Head(pipe) = s /\ replies' = Append(replies, s)

\* What a restore overwrites can be restored in turn, as long as calls did not
\* overlap.
RestoreUndoable ==
  [][\A s \in Slots : Overwrites(s) /\ ~overlapped => content \in snapshots]_vars

\* Comment at project.service.ts:317: restoreSnapshot saves "a new snapshot of
\* the current state before restoration (for safety)" - so what a restore
\* overwrites is always in a snapshot.
BackupIsCurrent ==
  [][\A s \in Slots : Overwrites(s) => content \in snapshots]_vars

=============================================================================
