----------------------- MODULE ProjectContent_proofs -----------------------
(***************************************************************************)
(* Theorems about ProjectContent for every number of clients, notes,       *)
(* slots, messages and failures, and their proofs: what the stored notes   *)
(* and their history are as long as calls did not overlap.                 *)
(***************************************************************************)
EXTENDS ProjectContent, TLAPS

---------------------------------------------------------------------------
(***************************************************************************)
(* The inductive invariant.                                                *)
(***************************************************************************)

\* The messages st are among the first n of the messages hi, in that order.
Among(st, hi, n) ==
  \A q \in 1..Len(st) :
    \E h \in 1..n :
      /\ hi[h] = st[q]
      /\ \A p \in 1..(q - 1) : \E g \in 1..(h - 1) : hi[g] = st[p]

\* Every message that wrote the content is among the first n of the history,
\* in that order.
LeadsIn(n) == Among(stored, history, n)

\* Message k is the last of the history and has not written the content.
Ahead(k) ==
  /\ Len(history) > 0
  /\ history[Len(history)] = k
  /\ LeadsIn(Len(history) - 1)

\* A message that has written the history has not yet written the content.
Leads(t) == t.kind = "sync" => Ahead(t.message)

\* The only call, in slot s, waits for its command.  What it has read is what
\* is stored, and what a restore has read is in a snapshot.
Waits(s) ==
  /\ pipe = <<s>>
  /\ replies = <<>>
  /\ \/ task[s].pc = "getHistory" /\ task[s].kind = "sync"
     \/ task[s].pc = "setHistory" /\ task[s].kind = "sync" /\ task[s].read = history
     \/ task[s].pc = "getContent" /\ Leads(task[s])
     \/ /\ task[s].pc = "setContent" /\ task[s].kind = "sync"
        /\ task[s].read = content /\ Leads(task[s])
     \/ task[s].pc = "setContent" /\ task[s].kind = "restore" /\ content \in snapshots

\* The only call, in slot s, has its reply.
Answered(s) ==
  /\ pipe = <<>>
  /\ replies = <<s>>
  /\ \/ task[s].pc = "getHistory" /\ task[s].kind = "sync" /\ task[s].read = history
     \/ task[s].pc = "setHistory" /\ task[s].kind = "sync" /\ Leads(task[s])
     \/ task[s].pc = "getContent" /\ task[s].read = content /\ Leads(task[s])
     \/ task[s].pc = "setContent" /\ task[s].kind \in {"sync", "restore"}

\* The only call, in slot s, waits for the save of a row.
Saves(s) ==
  /\ pipe = <<>>
  /\ replies = <<>>
  /\ task[s].pc = "save"
  /\ task[s].kind \in {"snapshot", "restore"}
  /\ task[s].read = content

\* No call runs, or the one in slot s.
Rests     == pipe = <<>> /\ replies = <<>> /\ \A s \in Slots : task[s] = NoCall
Others(s) == \A r \in Slots \ {s} : task[r] = NoCall
Alone     == Rests \/ \E s \in Slots : Others(s) /\ (Waits(s) \/ Answered(s) \/ Saves(s))

Stored ==
  /\ content = ideal
  /\ history \in Seq(Nat)
  /\ stored \in Seq(Nat)
  /\ LeadsIn(Len(history))

Calls == DOMAIN task = Slots /\ \A s \in Slots : task[s].message \in Nat

IInv ==
  /\ batches \in Seq(Batches)
  /\ Calls
  /\ ~overlapped => Stored /\ Alone

\* Nothing of the calls and of the stored keys changes.
Frozen == UNCHANGED <<data, task, pipe, replies>>

LEMMA FrozenLeads ==
  ASSUME UNCHANGED <<history, stored>>
  PROVE  /\ LeadsIn(Len(history)) => LeadsIn(Len(history))'
         /\ \A t : Leads(t) => Leads(t)'
BY DEF LeadsIn, Leads, Ahead

LEMMA FrozenAlone ==
  ASSUME Stored, Alone, Frozen, snapshots \subseteq snapshots'
  PROVE  Stored' /\ Alone'
<1>1. Stored'
  BY FrozenLeads DEF Stored, Frozen, data
<1>2. ASSUME Rests
      PROVE  Alone'
  BY <1>2 DEF Rests, Alone, Frozen, NoCall, CallAt
<1>3. ASSUME NEW s \in Slots, Others(s), Waits(s) \/ Answered(s) \/ Saves(s)
      PROVE  Alone'
  <2>1. Others(s)' /\ (Saves(s) => Saves(s)')
    BY <1>3 DEF Others, Saves, Frozen, data, NoCall, CallAt
  <2>2. Leads(task[s]) => Leads(task[s])'
    BY FrozenLeads DEF Frozen, data
  <2>3. Waits(s) => Waits(s)'
    BY <2>2 DEF Waits, Frozen, data
  <2>4. Answered(s) => Answered(s)'
    BY <2>2 DEF Answered, Frozen, data
  <2> QED BY <1>3, <2>1, <2>3, <2>4 DEF Alone
<1> QED BY <1>1, <1>2, <1>3 DEF Alone

\* A longer history has what it had.
LEMMA HistoryGrows ==
  ASSUME NEW hi \in Seq(Nat), NEW st \in Seq(Nat), NEW k \in Nat, Among(st, hi, Len(hi))
  PROVE  /\ Among(st, Append(hi, k), Len(hi))
         /\ Among(st, Append(hi, k), Len(hi) + 1)
<1> DEFINE longer == Append(hi, k)
<1>1. \A h \in 1..Len(hi) : longer[h] = hi[h]
  OBVIOUS
<1>2. ASSUME NEW q \in 1..Len(st)
      PROVE  \E h \in 1..Len(hi) :
               /\ longer[h] = st[q]
               /\ \A p \in 1..(q - 1) : \E g \in 1..(h - 1) : longer[g] = st[p]
  <2>1. PICK h \in 1..Len(hi) :
          /\ hi[h] = st[q]
          /\ \A p \in 1..(q - 1) : \E g \in 1..(h - 1) : hi[g] = st[p]
    BY DEF Among
  <2>2. \A g \in 1..(h - 1) : g \in 1..Len(hi)
    OBVIOUS
  <2> HIDE DEF longer
  <2> QED BY <1>1, <2>1, <2>2
<1>3. 1..Len(hi) \subseteq 1..(Len(hi) + 1)
  OBVIOUS
<1> HIDE DEF longer
<1>4. Among(st, longer, Len(hi)) /\ Among(st, longer, Len(hi) + 1)
  BY <1>2, <1>3 DEF Among
<1> QED BY <1>4 DEF longer

\* The last message of the history may write the content, if it has all that
\* wrote it before that message.
LEMMA ContentFollows ==
  ASSUME NEW hi \in Seq(Nat), NEW st \in Seq(Nat), Len(hi) > 0, Among(st, hi, Len(hi) - 1)
  PROVE  Among(Append(st, hi[Len(hi)]), hi, Len(hi))
<1> DEFINE more == Append(st, hi[Len(hi)])
<1>1. /\ Len(more) = Len(st) + 1
      /\ more[Len(st) + 1] = hi[Len(hi)]
      /\ \A q \in 1..Len(st) : more[q] = st[q]
  OBVIOUS
<1> HIDE DEF more
<1>2. ASSUME NEW q \in 1..Len(st)
      PROVE  \E h \in 1..(Len(hi) - 1) :
               /\ hi[h] = st[q]
               /\ \A p \in 1..(q - 1) : \E g \in 1..(h - 1) : hi[g] = st[p]
  BY DEF Among
<1>3. ASSUME NEW q \in 1..(Len(st) + 1)
      PROVE  \E h \in 1..Len(hi) :
               /\ hi[h] = more[q]
               /\ \A p \in 1..(q - 1) : \E g \in 1..(h - 1) : hi[g] = more[p]
  <2>1. CASE q = Len(st) + 1
    <3>1. Len(hi) \in 1..Len(hi) /\ hi[Len(hi)] = more[q]
      BY <1>1, <2>1
    <3>2. ASSUME NEW p \in 1..(q - 1)
          PROVE  \E g \in 1..(Len(hi) - 1) : hi[g] = more[p]
      <4>1. p \in 1..Len(st)
        BY <2>1
      <4> QED BY <1>1, <1>2, <4>1
    <3> QED BY <3>1, <3>2
  <2>2. CASE q # Len(st) + 1
    <3>1. q \in 1..Len(st) /\ \A p \in 1..(q - 1) : p \in 1..Len(st)
      BY <2>2
    <3>2. PICK h \in 1..(Len(hi) - 1) :
            /\ hi[h] = st[q]
            /\ \A p \in 1..(q - 1) : \E g \in 1..(h - 1) : hi[g] = st[p]
      BY <1>2, <3>1
    <3>3. h \in 1..Len(hi)
      OBVIOUS
    <3> QED BY <1>1, <3>1, <3>2, <3>3
  <2> QED BY <2>1, <2>2
<1>4. Among(more, hi, Len(hi))
  BY <1>1, <1>3 DEF Among
<1> QED BY <1>4 DEF more

---------------------------------------------------------------------------
(***************************************************************************)
(* The steps.                                                              *)
(***************************************************************************)

\* The only call, in slot s, goes on as t or ends.
LEMMA Moves ==
  ASSUME Calls, NEW s \in Slots, Others(s), NEW t, t.message \in Nat,
         task' = [task EXCEPT ![s] = t]
  PROVE  /\ Calls'
         /\ task'[s] = t
         /\ Others(s)'
         /\ t = NoCall => \A r \in Slots : task'[r] = NoCall
BY DEF Calls, Others, NoCall, CallAt

LEMMA CallsStep ==
  ASSUME batches \in Seq(Batches), Calls, [Next]_vars
  PROVE  batches' \in Seq(Batches) /\ Calls'
<1>1. NoCall.message \in Nat
  BY DEF NoCall, CallAt
<1>2. \A t : /\ \A pc : At(t, pc).message = t.message
             /\ \A v : Got(t, v).message = t.message
             /\ Answer(t).message = t.message
  BY DEF At, Got, CallAt, Answer
<1>3. ASSUME UNCHANGED <<batches, task>>
      PROVE  batches' \in Seq(Batches) /\ Calls'
  BY <1>3 DEF Calls
<1>4. ASSUME UNCHANGED batches, NEW s, NEW t, task' = [task EXCEPT ![s] = t],
             s \in Slots => t.message \in Nat
      PROVE  batches' \in Seq(Batches) /\ Calls'
  BY <1>4 DEF Calls
<1>5. ASSUME NEW c \in Clients, JoinProject(c) \/ LeaveProject(c)
      PROVE  batches' \in Seq(Batches) /\ Calls'
  BY <1>3, <1>5 DEF JoinProject, LeaveProject
<1>6. ASSUME NEW b \in Batches, ProcessMessage(b)
      PROVE  batches' \in Seq(Batches) /\ Calls'
  <2>1. batches' \in Seq(Batches) /\ Number \in Nat
    BY <1>6 DEF ProcessMessage, Number
  <2>2. PICK s \in Slots :
          task' = [task EXCEPT ![s] = CallAt("getHistory", "sync", Number, <<>>, <<>>)]
    BY <1>6 DEF ProcessMessage, Start, FreeSlots
  <2> QED BY <2>1, <2>2 DEF Calls, CallAt
<1>7. ASSUME CreateSnapshot \/ \E d \in snapshots : RestoreSnapshot(d)
      PROVE  batches' \in Seq(Batches) /\ Calls'
  <2>1. PICK s \in Slots : \E kind, d :
          task' = [task EXCEPT ![s] = CallAt("getContent", kind, 0, <<>>, d)]
    BY <1>7 DEF CreateSnapshot, RestoreSnapshot, Start, FreeSlots
  <2>2. UNCHANGED batches
    BY <1>7 DEF CreateSnapshot, RestoreSnapshot
  <2> QED BY <2>1, <2>2 DEF Calls, CallAt
<1>8. CASE Execute
  BY <1>2, <1>8 DEF Execute, Calls
<1>9. CASE RedisError
  BY <1>1, <1>9 DEF RedisError, Calls
<1>10. CASE RedisErrorEndsProcess
  BY <1>1, <1>10 DEF RedisErrorEndsProcess, Calls
<1>11. ASSUME NEW s \in Slots, Continue(s) \/ SaveFails(s)
       PROVE  batches' \in Seq(Batches) /\ Calls'
  <2>1. UNCHANGED batches
    BY <1>11 DEF Continue, SaveFails, HistoryRead, HistoryStored, ContentRead, ContentStored,
                 SnapshotRead, SnapshotSaved, BackupSaved, RestoreStored
  <2>2. task[s].message \in Nat
    BY DEF Calls
  <2>3. PICK t : task' = [task EXCEPT ![s] = t] /\ t.message \in Nat
    <3>1. CASE HistoryRead(s) \/ HistoryStored(s) \/ ContentRead(s) \/ BackupSaved(s)
      <4>1. PICK pc : Send(s, pc)
        BY <3>1 DEF HistoryRead, HistoryStored, ContentRead, BackupSaved, GoOn
      <4>2. task' = [task EXCEPT ![s] = IF pc = "getContent" THEN Got(At(task[s], pc), <<>>)
                                                             ELSE At(task[s], pc)]
        BY <4>1 DEF Send, Calls
      <4> DEFINE t == IF pc = "getContent" THEN Got(At(task[s], pc), <<>>) ELSE At(task[s], pc)
      <4>3. t.message = task[s].message
        BY <1>2
      <4> QED BY <2>2, <4>2, <4>3
    <3>2. CASE SnapshotRead(s)
      <4> DEFINE t == At(task[s], "save")
      <4>1. t.message = task[s].message
        BY <1>2
      <4>2. task' = [task EXCEPT ![s] = t]
        BY <3>2 DEF SnapshotRead
      <4> HIDE DEF t
      <4> QED BY <2>2, <4>1, <4>2
    <3>3. CASE ContentStored(s) \/ SnapshotSaved(s) \/ RestoreStored(s) \/ SaveFails(s)
      BY <1>1, <3>3 DEF ContentStored, SnapshotSaved, RestoreStored, SaveFails, End
    <3> QED BY <1>11, <3>1, <3>2, <3>3 DEF Continue
  <2> QED BY <1>4, <2>1, <2>3
<1>12. CASE UNCHANGED vars
  BY <1>3, <1>12 DEF vars
<1> QED BY <1>5, <1>6, <1>7, <1>8, <1>9, <1>10, <1>11, <1>12 DEF Next

\* Calls that do not overlap now never did.
LEMMA Separate ==
  ASSUME [Next]_vars, ~overlapped'
  PROVE  ~overlapped
BY DEF Next, vars, JoinProject, LeaveProject, ProcessMessage, CreateSnapshot, RestoreSnapshot,
       Start, Execute, RedisError, RedisErrorEndsProcess, Continue, SaveFails, HistoryRead,
       HistoryStored, ContentRead, ContentStored, SnapshotRead, SnapshotSaved, BackupSaved,
       RestoreStored

\* When the only call has ended, none runs.
LEMMA Ended ==
  ASSUME Calls, Stored, NEW s \in Slots, Others(s), UNCHANGED data,
         task' = [task EXCEPT ![s] = NoCall], pipe' = <<>>, replies' = <<>>
  PROVE  Stored' /\ Alone'
<1>1. Stored'
  BY FrozenLeads DEF Stored, data
<1>2. \A r \in Slots : task'[r] = NoCall
  BY DEF Calls, Others, NoCall, CallAt
<1>3. Rests'
  BY <1>2 DEF Rests, NoCall, CallAt
<1> QED BY <1>1, <1>3 DEF Alone

LEMMA StartAlone ==
  ASSUME Calls, Stored, Alone, UNCHANGED <<data, replies>>, ~overlapped',
         NEW t, Start(t),
         \/ t.pc = "getHistory" /\ t.kind = "sync"
         \/ t.pc = "getContent" /\ t.kind # "sync"
  PROVE  Stored' /\ Alone'
<1>1. Stored'
  BY FrozenLeads DEF Stored, data
<1>2. \A s \in Slots : task[s].pc = "idle"
  BY DEF Start, FreeSlots
<1>3. Rests
  BY <1>2 DEF Alone, Waits, Answered, Saves
<1>4. PICK s \in Slots : task' = [task EXCEPT ![s] = t] /\ pipe' = Append(pipe, s)
  BY DEF Start, FreeSlots
<1>5. /\ task'[s] = t
      /\ \A r \in Slots \ {s} : task'[r] = task[r]
  BY <1>4 DEF Calls
<1>6. Others(s)'
  BY <1>3, <1>5 DEF Others, Rests, NoCall, CallAt
<1>7. pipe' = <<s>> /\ replies' = <<>>
  BY <1>3, <1>4 DEF Rests
<1>8. Waits(s)'
  BY <1>5, <1>7 DEF Waits, Leads
<1> QED BY <1>1, <1>6, <1>8 DEF Alone

LEMMA ExecuteAlone ==
  ASSUME Calls, Stored, Alone, Execute
  PROVE  Stored' /\ Alone'
<1>1. PICK s \in Slots : Others(s) /\ Waits(s)
  BY DEF Alone, Rests, Answered, Saves, Execute
<1>2. Head(pipe) = s /\ pipe' = <<>> /\ replies' = <<s>>
  BY <1>1 DEF Waits, Execute
<1>3. KeysBecome(Effect(Keys, s)) /\ task' = [task EXCEPT ![s] = Answer(task[s])]
  BY <1>2 DEF Execute, Calls
<1>4. task'[s] = Answer(task[s]) /\ Others(s)'
  BY <1>1, <1>3 DEF Calls, Others, NoCall, CallAt
<1>5. task[s].message \in Nat
  BY DEF Calls
<1>6. CASE task[s].pc \in {"getHistory", "getContent"}
  <2>1. UNCHANGED data
    BY <1>3, <1>6 DEF KeysBecome, Effect, Keys, data
  <2>2. Stored'
    BY <2>1, FrozenLeads DEF Stored, data
  <2>3. CASE task[s].pc = "getHistory"
    <3>1. task'[s].pc = "getHistory" /\ task'[s].kind = "sync" /\ task'[s].read = history
      BY <1>1, <1>4, <2>3 DEF Waits, Answer, Got, CallAt
    <3> QED BY <1>2, <1>4, <2>1, <2>2, <3>1 DEF Answered, Alone, data
  <2>4. CASE task[s].pc = "getContent"
    <3>1. /\ task'[s].pc = "getContent" /\ task'[s].kind = task[s].kind
          /\ task'[s].message = task[s].message /\ task'[s].read = content
      BY <1>4, <2>4 DEF Answer, Got, CallAt
    <3>2. Leads(task[s])
      BY <1>1, <2>4 DEF Waits
    <3>3. Leads(task[s])'
      BY <2>1, <3>1, <3>2 DEF Leads, Ahead, LeadsIn, data
    <3> QED BY <1>2, <1>4, <2>1, <2>2, <3>1, <3>3 DEF Answered, Alone, data
  <2> QED BY <1>6, <2>3, <2>4
<1>7. CASE task[s].pc = "setHistory"
  <2>1. task[s].kind = "sync" /\ task[s].read = history
    BY <1>1, <1>7 DEF Waits
  <2>2. /\ history' = Append(history, task[s].message)
        /\ content' = content /\ stored' = stored /\ ideal' = ideal
    BY <1>3, <1>7, <2>1 DEF KeysBecome, Effect, Keys, Lengthened
  <2>3. task'[s] = task[s]
    BY <1>4, <1>7 DEF Answer
  <2>4. /\ Among(stored, Append(history, task[s].message), Len(history))
        /\ Among(stored, Append(history, task[s].message), Len(history) + 1)
    BY <1>5, HistoryGrows DEF Stored, LeadsIn
  <2>5. /\ Append(history, task[s].message) \in Seq(Nat)
        /\ Len(Append(history, task[s].message)) = Len(history) + 1
        /\ Append(history, task[s].message)[Len(history) + 1] = task[s].message
        /\ Len(history) \in Nat
    BY <1>5 DEF Stored
  <2>6. Stored'
    BY <2>2, <2>4, <2>5 DEF Stored, LeadsIn
  <2>7. Leads(task[s])'
    <3>1. Len(history) + 1 > 0 /\ Len(history) + 1 - 1 = Len(history)
      BY <2>5
    <3> QED BY <2>2, <2>3, <2>4, <2>5, <3>1 DEF Leads, Ahead, LeadsIn
  <2>8. Answered(s)'
    BY <1>2, <1>7, <2>1, <2>3, <2>7 DEF Answered
  <2> QED BY <1>4, <2>6, <2>8 DEF Alone
<1>8. CASE task[s].pc = "setContent"
  <2>1. task'[s] = task[s]
    BY <1>4, <1>8 DEF Answer
  <2>2. task[s].kind \in {"sync", "restore"}
    BY <1>1, <1>8 DEF Waits
  <2>3. Answered(s)'
    BY <1>2, <1>8, <2>1, <2>2 DEF Answered
  <2>4. CASE task[s].kind = "sync"
    <3>1. task[s].read = content /\ Ahead(task[s].message)
      BY <1>1, <1>8, <2>4 DEF Waits, Leads
    <3>2. /\ history' = history
          /\ content' = Edited(task[s].read, task[s].message)
          /\ ideal' = Edited(ideal, task[s].message)
          /\ stored' = Append(stored, task[s].message)
      BY <1>3, <1>8, <2>4 DEF KeysBecome, Effect, Keys, Replaced
    <3>3. content' = ideal'
      BY <3>1, <3>2 DEF Stored
    <3>4. Among(Append(stored, task[s].message), history, Len(history))
      BY <3>1, ContentFollows DEF Stored, Ahead, LeadsIn
    <3>5. Append(stored, task[s].message) \in Seq(Nat)
      BY <1>5 DEF Stored
    <3> QED BY <1>4, <2>3, <3>2, <3>3, <3>4, <3>5 DEF Stored, LeadsIn, Alone
  <2>5. CASE task[s].kind = "restore"
    <3>1. /\ history' = history /\ stored' = stored
          /\ content' = task[s].goal /\ ideal' = task[s].goal
      BY <1>3, <1>8, <2>5 DEF KeysBecome, Effect, Keys, Replaced
    <3> QED BY <1>4, <2>3, <3>1 DEF Stored, LeadsIn, Alone
  <2> QED BY <2>2, <2>4, <2>5
<1> QED BY <1>1, <1>6, <1>7, <1>8 DEF Waits

LEMMA ErrorAlone ==
  ASSUME Calls, Stored, Alone, RedisError \/ RedisErrorEndsProcess
  PROVE  Stored' /\ Alone'
<1>1. PICK s \in Slots : Others(s) /\ Waits(s)
  BY DEF Alone, Rests, Answered, Saves, RedisError, RedisErrorEndsProcess
<1>2. pipe = <<s>> /\ replies = <<>>
  BY <1>1 DEF Waits
<1>3. CASE RedisError
  <2>1. Head(pipe) = s /\ Tail(pipe) = <<>>
    BY <1>2
  <2>2. /\ UNCHANGED data
        /\ task' = [task EXCEPT ![s] = NoCall] /\ pipe' = <<>> /\ replies' = <<>>
    BY <1>2, <1>3, <2>1 DEF RedisError
  <2> QED BY <1>1, <2>2, Ended
<1>4. CASE RedisErrorEndsProcess
  <2>1. PICK n \in 0..(Len(pipe) - 1) : KeysBecome(KeysAfter(n))
    BY <1>4 DEF RedisErrorEndsProcess
  <2>2. n = 0
    BY <1>2, <2>1
  <2>3. KeysAfter(0) = Keys
    <3> DEFINE Run(f) == f = [i \in 0..0 |-> IF i = 0 THEN Keys ELSE Effect(f[i - 1], pipe[i + 1])]
    <3>1. Run([i \in 0..0 |-> Keys])
      OBVIOUS
    <3>2. Run(CHOOSE f : Run(f))
      BY <3>1
    <3> QED BY <3>2 DEF KeysAfter
  <2>4. UNCHANGED data
    BY <2>1, <2>2, <2>3 DEF KeysBecome, Keys, data
  <2>5. Stored'
    BY <2>4, FrozenLeads DEF Stored, data
  <2>6. Rests'
    BY <1>2, <1>4 DEF RedisErrorEndsProcess, Rests, NoCall, CallAt
  <2> QED BY <2>5, <2>6 DEF Alone
<1> QED BY <1>3, <1>4

\* Whose turn it is has its reply.
LEMMA OnlyTurn ==
  ASSUME Alone, NEW s \in Slots, NEW pc, NEW kind, Turn(s, pc, kind)
  PROVE  Others(s) /\ Answered(s) /\ Taken(s) = <<>>
<1>1. PICK j \in DOMAIN replies : replies[j] = s
  BY DEF Turn
<1>2. PICK r \in Slots : Others(r) /\ Answered(r)
  BY <1>1 DEF Alone, Rests, Waits, Saves
<1>3. replies = <<r>> /\ r = s
  BY <1>1, <1>2 DEF Answered
<1>4. DOMAIN replies = {1} /\ (CHOOSE i \in DOMAIN replies : replies[i] = s) = 1
  BY <1>3
<1>5. RemoveAt(replies, 1) = <<>>
  BY <1>3 DEF RemoveAt
<1> QED BY <1>2, <1>3, <1>4, <1>5 DEF Taken

LEMMA ContinueAlone ==
  ASSUME Calls, Stored, Alone, NEW s \in Slots, Continue(s) \/ SaveFails(s)
  PROVE  Stored' /\ Alone'
<1>1. UNCHANGED data
  BY DEF Continue, SaveFails, HistoryRead, HistoryStored, ContentRead, ContentStored,
         SnapshotRead, SnapshotSaved, BackupSaved, RestoreStored
<1>2. Stored'
  BY <1>1, FrozenLeads DEF Stored, data
<1>3. \A t : Leads(t) => Leads(t)'
  BY <1>1, FrozenLeads DEF data
<1>4. ASSUME NEW pc, Send(s, pc), Others(s)
      PROVE  /\ task'[s].pc = pc
             /\ task'[s].kind = task[s].kind
             /\ task'[s].message = task[s].message
             /\ pc # "getContent" => task'[s].read = task[s].read
             /\ pipe' = Append(pipe, s)
             /\ Others(s)'
  BY <1>4 DEF Send, Calls, Others, Got, At, NoCall, CallAt
<1>5. ASSUME NEW pc, GoOn(s, pc), Others(s), Answered(s), Taken(s) = <<>>
      PROVE  pipe' = <<s>> /\ replies' = <<>>
  BY <1>5 DEF GoOn, Send, Answered
<1>6. CASE HistoryRead(s)
  <2>1. Others(s) /\ Answered(s) /\ Taken(s) = <<>>
    BY <1>6, OnlyTurn DEF HistoryRead
  <2>2. GoOn(s, "setHistory") /\ task[s].pc = "getHistory" /\ task[s].kind = "sync"
    BY <1>6 DEF HistoryRead, Turn
  <2>3. task[s].read = history
    BY <2>1, <2>2 DEF Answered
  <2>4. Waits(s)' /\ Others(s)'
    BY <1>1, <1>4, <1>5, <2>1, <2>2, <2>3 DEF Waits, GoOn, data
  <2> QED BY <1>2, <2>4 DEF Alone
<1>7. CASE HistoryStored(s)
  <2>1. Others(s) /\ Answered(s) /\ Taken(s) = <<>>
    BY <1>7, OnlyTurn DEF HistoryStored
  <2>2. GoOn(s, "getContent") /\ task[s].pc = "setHistory" /\ task[s].kind = "sync"
    BY <1>7 DEF HistoryStored, Turn
  <2>3. Leads(task[s])
    BY <2>1, <2>2 DEF Answered
  <2>4. Leads(task[s])'
    BY <1>1, <1>4, <2>1, <2>2, <2>3 DEF GoOn, Leads, Ahead, LeadsIn, data
  <2>5. Waits(s)' /\ Others(s)'
    BY <1>4, <1>5, <2>1, <2>2, <2>4 DEF Waits, GoOn
  <2> QED BY <1>2, <2>5 DEF Alone
<1>8. CASE ContentRead(s)
  <2>1. Others(s) /\ Answered(s) /\ Taken(s) = <<>>
    BY <1>8, OnlyTurn DEF ContentRead
  <2>2. GoOn(s, "setContent") /\ task[s].pc = "getContent" /\ task[s].kind = "sync"
    BY <1>8 DEF ContentRead, Turn
  <2>3. Leads(task[s]) /\ task[s].read = content
    BY <2>1, <2>2 DEF Answered
  <2>4. Leads(task[s])'
    BY <1>1, <1>4, <2>1, <2>2, <2>3 DEF GoOn, Leads, Ahead, LeadsIn, data
  <2>5. Waits(s)' /\ Others(s)'
    BY <1>1, <1>4, <1>5, <2>1, <2>2, <2>3, <2>4 DEF Waits, GoOn, data
  <2> QED BY <1>2, <2>5 DEF Alone
<1>9. CASE ContentStored(s) \/ RestoreStored(s)
  <2>1. Others(s) /\ Answered(s) /\ Taken(s) = <<>>
    BY <1>9, OnlyTurn DEF ContentStored, RestoreStored
  <2>2. End(s)
    BY <1>9 DEF ContentStored, RestoreStored
  <2> QED BY <1>1, <2>1, <2>2, Ended DEF End, Answered
<1>10. CASE SnapshotRead(s)
  <2>1. PICK kind \in {"snapshot", "restore"} : Turn(s, "getContent", kind)
    BY <1>10 DEF SnapshotRead
  <2>2. Others(s) /\ Answered(s) /\ Taken(s) = <<>>
    BY <2>1, OnlyTurn
  <2>3. task[s].pc = "getContent" /\ task[s].kind = kind /\ task[s].read = content
    BY <2>1, <2>2 DEF Turn, Answered
  <2>4. /\ task'[s] = At(task[s], "save")
        /\ Others(s)'
    BY <1>10, <2>2 DEF SnapshotRead, Calls, Others, NoCall, CallAt
  <2>5. task'[s].pc = "save" /\ task'[s].kind = kind /\ task'[s].read = content
    BY <2>3, <2>4 DEF At, CallAt
  <2>6. pipe' = <<>> /\ replies' = <<>>
    BY <1>10, <2>2 DEF SnapshotRead, Answered
  <2>7. Saves(s)'
    BY <1>1, <2>5, <2>6 DEF Saves, data
  <2> QED BY <1>2, <2>4, <2>7 DEF Alone
<1>11. ASSUME task[s].pc = "save"
       PROVE  Others(s) /\ Saves(s)
  BY <1>11 DEF Alone, Rests, Others, Waits, Answered, Saves, NoCall, CallAt
<1>12. CASE SnapshotSaved(s) \/ SaveFails(s)
  <2>1. Others(s) /\ Saves(s)
    BY <1>11, <1>12 DEF SnapshotSaved, SaveFails
  <2> QED BY <1>1, <1>12, <2>1, Ended DEF SnapshotSaved, SaveFails, Saves
<1>13. CASE BackupSaved(s)
  <2>1. Others(s) /\ Saves(s) /\ task[s].kind = "restore"
    BY <1>11, <1>13 DEF BackupSaved
  <2>2. Send(s, "setContent") /\ content \in snapshots' /\ replies' = <<>>
    BY <1>13, <2>1 DEF BackupSaved, Row, Saves
  <2>3. pipe' = <<s>>
    BY <2>1, <2>2 DEF Send, Saves
  <2>4. Waits(s)' /\ Others(s)'
    BY <1>1, <1>4, <2>1, <2>2, <2>3 DEF Waits, data
  <2> QED BY <1>2, <2>4 DEF Alone
<1> QED BY <1>6, <1>7, <1>8, <1>9, <1>10, <1>12, <1>13 DEF Continue

---------------------------------------------------------------------------
(***************************************************************************)
(* The theorems.                                                           *)
(***************************************************************************)

LEMMA Invariance == Spec => []IInv
<1>1. Init => IInv
  <2> SUFFICES ASSUME Init PROVE IInv
    OBVIOUS
  <2>1. Calls /\ Rests
    BY DEF Init, Calls, Rests, NoCall, CallAt
  <2>2. LeadsIn(Len(history))
    BY DEF Init, LeadsIn, Among
  <2>3. Stored
    BY <2>2 DEF Init, Stored
  <2> QED BY <2>1, <2>3 DEF Init, IInv, Alone
<1>2. IInv /\ [Next]_vars => IInv'
  <2> SUFFICES ASSUME IInv, [Next]_vars PROVE IInv'
    OBVIOUS
  <2>1. batches' \in Seq(Batches) /\ Calls'
    BY CallsStep DEF IInv
  <2>2. ASSUME ~overlapped'
        PROVE  Stored' /\ Alone'
    <3>1. Calls /\ Stored /\ Alone
      BY <2>2, Separate DEF IInv
    <3>2. CASE UNCHANGED vars
      BY <3>1, <3>2, FrozenAlone DEF vars, Frozen
    <3>3. ASSUME NEW c \in Clients, JoinProject(c) \/ LeaveProject(c)
          PROVE  Stored' /\ Alone'
      BY <3>1, <3>3, FrozenAlone DEF JoinProject, LeaveProject, Frozen
    <3>4. ASSUME NEW b \in Batches, ProcessMessage(b)
          PROVE  Stored' /\ Alone'
      <4> DEFINE t == CallAt("getHistory", "sync", Number, <<>>, <<>>)
      <4>1. t.pc = "getHistory" /\ t.kind = "sync" /\ Start(t) /\ UNCHANGED <<data, replies>>
        BY <3>4 DEF ProcessMessage, CallAt
      <4> QED BY <2>2, <3>1, <4>1, StartAlone
    <3>5. ASSUME CreateSnapshot \/ \E d \in snapshots : RestoreSnapshot(d)
          PROVE  Stored' /\ Alone'
      <4>1. PICK kind \in {"snapshot", "restore"} :
              \E d : Start(CallAt("getContent", kind, 0, <<>>, d))
        BY <3>5 DEF CreateSnapshot, RestoreSnapshot
      <4>2. PICK t : Start(t) /\ t.pc = "getContent" /\ t.kind # "sync"
        BY <4>1 DEF CallAt
      <4>3. UNCHANGED <<data, replies>>
        BY <3>5 DEF CreateSnapshot, RestoreSnapshot
      <4> QED BY <2>2, <3>1, <4>2, <4>3, StartAlone
    <3>6. CASE Execute \/ RedisError \/ RedisErrorEndsProcess
      BY <3>1, <3>6, ExecuteAlone, ErrorAlone
    <3>7. ASSUME NEW s \in Slots, Continue(s) \/ SaveFails(s)
          PROVE  Stored' /\ Alone'
      BY <3>1, <3>7, ContinueAlone
    <3> QED BY <3>2, <3>3, <3>4, <3>5, <3>6, <3>7 DEF Next
  <2> QED BY <2>1, <2>2 DEF IInv
<1> QED BY <1>1, <1>2, PTL DEF Spec

\* As long as calls did not overlap, the content is what the messages and
\* restores make of it one after the other: processMessage, restoreSnapshot
\* and the failures of their commands.
THEOREM Exact == Spec => []AloneIsExact
<1>1. IInv => AloneIsExact
  BY DEF IInv, Stored, AloneIsExact
<1> QED BY <1>1, Invariance, PTL

\* As long as calls did not overlap, the history has the messages that wrote
\* the content, in that order: addItem, which comes first in processMessage.
THEOREM HistoryFirst == Spec => []HistoryLeads
<1>1. IInv => HistoryLeads
  BY DEF IInv, Stored, LeadsIn, Among, HistoryLeads
<1> QED BY <1>1, Invariance, PTL

\* As long as calls did not overlap, restoreSnapshot overwrites only what a
\* snapshot has: its backup.
THEOREM Undoable == Spec => RestoreUndoable
<1>1. IInv => (\A s \in Slots : Overwrites(s) /\ ~overlapped => content \in snapshots)
  <2> SUFFICES ASSUME IInv, NEW s \in Slots, Overwrites(s), ~overlapped
               PROVE  content \in snapshots
    OBVIOUS
  <2>1. pipe # <<>> /\ Head(pipe) = s /\ task[s].kind = "restore" /\ task[s].pc = "setContent"
    BY DEF Overwrites
  <2>2. PICK r \in Slots : Waits(r)
    BY <2>1 DEF IInv, Alone, Rests, Answered, Saves
  <2>3. r = s
    BY <2>1, <2>2 DEF Waits
  <2> QED BY <2>1, <2>2, <2>3 DEF Waits
<1> QED BY <1>1, Invariance, PTL DEF RestoreUndoable

=============================================================================
