-------------------------- MODULE LockQueue_proofs --------------------------
(***************************************************************************)
(* Theorems about LockQueue for every number of users, clients, items,     *)
(* slots and edits, and their proofs.                                      *)
(***************************************************************************)
EXTENDS LockQueue, FiniteSetTheorems, SequenceTheorems, TLAPS

(***************************************************************************)
(* queueEdit: the insertion index lies within the queue, so the result is  *)
(* a queue, and not an empty one.                                          *)
(***************************************************************************)
LEMMA PositionInRange ==
  ASSUME NEW q \in Seq(Edit), NEW p
  PROVE  Position(q, p) \in 0..Len(q)
<1> DEFINE S == {k \in DOMAIN q : \A j \in 1..k : q[j].priority >= p}
<1>1. S \subseteq 1..Len(q)
  OBVIOUS
<1>2. IsFiniteSet(1..Len(q)) /\ Cardinality(1..Len(q)) = Len(q)
  <2>1. Len(q) \in Nat
    OBVIOUS
  <2> QED BY <2>1, FS_Interval
<1>3. Cardinality(S) <= Len(q) /\ Cardinality(S) \in Nat
  BY <1>1, <1>2, FS_Subset, FS_CardinalityType
<1> QED BY <1>3 DEF Position

LEMMA EnqueueType ==
  ASSUME NEW q \in Seq(Edit), NEW e \in Edit
  PROVE  Enqueue(q, e) \in Seq(Edit) /\ Enqueue(q, e) # <<>>
<1> DEFINE n == Position(q, e.priority)
<1>1. n \in 0..Len(q)
  BY PositionInRange
<1>2. SubSeq(q, 1, n) \in Seq(Edit) /\ SubSeq(q, n + 1, Len(q)) \in Seq(Edit)
  BY <1>1, SubSeqProperties
<1>3. <<e>> \in Seq(Edit) /\ Len(<<e>>) = 1
  OBVIOUS
<1>4. SubSeq(q, 1, n) \o <<e>> \in Seq(Edit) /\ Len(SubSeq(q, 1, n) \o <<e>>) >= 1
  <2> HIDE DEF n
  <2> QED BY <1>2, <1>3, ConcatProperties
<1>5. (SubSeq(q, 1, n) \o <<e>>) \o SubSeq(q, n + 1, Len(q)) \in Seq(Edit) \ {<<>>}
  <2> HIDE DEF n
  <2> DEFINE a == SubSeq(q, 1, n) \o <<e>>
             b == SubSeq(q, n + 1, Len(q))
  <2>1. a \in Seq(Edit) /\ b \in Seq(Edit) /\ Len(a) >= 1
    BY <1>2, <1>4
  <2> HIDE DEF a, b
  <2>2. a \o b \in Seq(Edit) /\ Len(a \o b) = Len(a) + Len(b)
    BY <2>1, ConcatProperties
  <2>3. Len(a \o b) # 0
    BY <2>1, <2>2
  <2> QED BY <2>2, <2>3 DEF a, b
<1>6. n + 1 - 1 = n
  BY <1>1
<1> QED BY <1>5, <1>6 DEF Enqueue, InsertAt

(***************************************************************************)
(* Types, and the agreement between the calls and the commands in flight,  *)
(* are inductive together: Redis resumes the call at the head of the pipe, *)
(* which is well typed afterwards only if it was waiting there.            *)
(***************************************************************************)
Typing == TypeOK /\ PipeMatchesCalls

\* The parts of the state that asynchronous calls change, and their types.
CallsTyped ==
  /\ locks \in [Items -> Lock]
  /\ \A i \in Items : locks[i].user = NoUser => locks[i] = NoLock
  /\ userLocks \in [Users -> SUBSET Items]
  /\ pipe \in Seq(Slots)
  /\ task \in [Slots -> Task]
  /\ \A s \in Slots : CallShape(task[s])
  /\ PipeMatchesCalls

\* A call that was not waiting sends a command.
LEMMA SendKeepsPipe ==
  ASSUME Typing, NEW s \in Slots, task[s].pc \notin {"del", "set"},
         NEW t \in Task, t.pc \in {"del", "set"},
         task' = [task EXCEPT ![s] = t], pipe' = Append(pipe, s)
  PROVE  PipeMatchesCalls' /\ pipe' \in Seq(Slots)
<1>1. /\ pipe \in Seq(Slots) /\ pipe' \in Seq(Slots)
      /\ Len(pipe') = Len(pipe) + 1 /\ pipe'[Len(pipe) + 1] = s
      /\ \A k \in 1..Len(pipe) : pipe'[k] = pipe[k]
  BY AppendProperties DEF Typing, TypeOK
<1>2. DOMAIN pipe = 1..Len(pipe) /\ DOMAIN pipe' = 1..(Len(pipe) + 1) /\ Len(pipe) \in Nat
  BY <1>1
<1>3. \A k \in 1..Len(pipe) : pipe[k] # s
  BY <1>2 DEF Typing, PipeMatchesCalls
<1>4. \A x \in Slots : task'[x] = IF x = s THEN t ELSE task[x]
  BY DEF Typing, TypeOK
<1>5. ASSUME NEW x \in Slots
      PROVE  task'[x].pc \in {"del", "set"} <=> \E k \in DOMAIN pipe' : pipe'[k] = x
  <2>1. CASE x = s
    BY <2>1, <1>1, <1>2, <1>4
  <2>2. CASE x # s
    <3>1. (\E k \in DOMAIN pipe' : pipe'[k] = x) <=> \E k \in DOMAIN pipe : pipe[k] = x
      BY <2>2, <1>1, <1>2
    <3> QED BY <3>1, <2>2, <1>4 DEF Typing, PipeMatchesCalls
  <2> QED BY <2>1, <2>2
<1>6. ASSUME NEW j \in DOMAIN pipe', NEW k \in DOMAIN pipe', pipe'[j] = pipe'[k]
      PROVE  j = k
  BY <1>1, <1>2, <1>3, <1>6 DEF Typing, PipeMatchesCalls
<1> QED BY <1>1, <1>5, <1>6 DEF PipeMatchesCalls

LEMMA BeginReleaseTyped ==
  ASSUME Typing, NEW s \in Slots, task[s].pc \notin {"del", "set"}, NEW i \in Items,
         NEW k \in Kinds \ {"none"}, NEW u \in Users \cup {NoUser}, NEW todo \in SUBSET Items,
         k \in {"acquire", "release", "releaseAll"} => u \in Users,
         BeginRelease(s, i, k, u, todo)
  PROVE  CallsTyped'
<1> DEFINE t == CallAt("del", k, i, u, todo)
<1>1. t \in Task /\ CallShape(t) /\ t.pc \in {"del", "set"}
  BY DEF CallAt, Task, PCs, CallShape
<1>2. PipeMatchesCalls' /\ pipe' \in Seq(Slots)
  <2>1. task' = [task EXCEPT ![s] = t] /\ pipe' = Append(pipe, s)
    BY DEF BeginRelease
  <2> HIDE DEF t
  <2> QED BY <1>1, <2>1, SendKeepsPipe
<1>3. task' \in [Slots -> Task] /\ \A x \in Slots : CallShape(task'[x])
  <2>1. task' = [task EXCEPT ![s] = t]
    BY DEF BeginRelease
  <2> HIDE DEF t
  <2>2. task \in [Slots -> Task] /\ \A x \in Slots : CallShape(task[x])
    BY DEF Typing, TypeOK
  <2>3. \A x \in Slots : task'[x] = IF x = s THEN t ELSE task[x]
    BY <2>1, <2>2
  <2> QED BY <1>1, <2>1, <2>2, <2>3
<1>4. locks' \in [Items -> Lock] /\ userLocks' \in [Users -> SUBSET Items]
  BY DEF Typing, TypeOK, BeginRelease, Unindexed, NoLock, Held, Lock
<1>5. \A j \in Items : locks'[j].user = NoUser => locks'[j] = NoLock
  BY DEF Typing, TypeOK, BeginRelease
<1> QED BY <1>2, <1>3, <1>4, <1>5 DEF CallsTyped

LEMMA BeginGrantTyped ==
  ASSUME Typing, NEW s \in Slots, task[s].pc \notin {"del", "set"}, NEW i \in Items,
         NEW u \in Users, BeginGrant(s, i, u)
  PROVE  CallsTyped'
<1> DEFINE t == CallAt("set", "acquire", i, u, {})
<1>1. t \in Task /\ CallShape(t) /\ t.pc \in {"del", "set"}
  BY DEF CallAt, Task, PCs, Kinds, CallShape
<1>2. PipeMatchesCalls' /\ pipe' \in Seq(Slots)
  <2>1. task' = [task EXCEPT ![s] = t] /\ pipe' = Append(pipe, s)
    BY DEF BeginGrant
  <2> HIDE DEF t
  <2> QED BY <1>1, <2>1, SendKeepsPipe
<1>3. task' \in [Slots -> Task] /\ \A x \in Slots : CallShape(task'[x])
  <2>1. task' = [task EXCEPT ![s] = t]
    BY DEF BeginGrant
  <2> HIDE DEF t
  <2>2. task \in [Slots -> Task] /\ \A x \in Slots : CallShape(task[x])
    BY DEF Typing, TypeOK
  <2>3. \A x \in Slots : task'[x] = IF x = s THEN t ELSE task[x]
    BY <2>1, <2>2
  <2> QED BY <1>1, <2>1, <2>2, <2>3
<1>4. locks' \in [Items -> Lock] /\ userLocks' \in [Users -> SUBSET Items]
  BY DEF Typing, TypeOK, BeginGrant, Indexed, Held, Lock
<1>5. \A j \in Items : locks'[j].user = NoUser => locks'[j] = NoLock
  BY LockConstants DEF Typing, TypeOK, BeginGrant, Held
<1> QED BY <1>2, <1>3, <1>4, <1>5 DEF CallsTyped

\* A call that was not waiting moves on, or ends, without a command.
LEMMA MoveTyped ==
  ASSUME Typing, NEW s \in Slots, task[s].pc \notin {"del", "set"},
         NEW t \in Task, CallShape(t), t.pc \notin {"del", "set"},
         task' = [task EXCEPT ![s] = t], UNCHANGED <<locks, userLocks, pipe>>
  PROVE  CallsTyped'
<1>1. task' \in [Slots -> Task] /\ \A x \in Slots : task'[x] = IF x = s THEN t ELSE task[x]
  BY DEF Typing, TypeOK
<1>2. PipeMatchesCalls'
  BY <1>1 DEF Typing, TypeOK, PipeMatchesCalls
<1> QED BY <1>1, <1>2 DEF CallsTyped, Typing, TypeOK

\* The rest of the state, and its types.
RestTyped ==
  /\ editQueues \in [Items -> Seq(Edit)]
  /\ status \in [Clients -> {"new", "open", "closed"}]
  /\ registered \subseteq Clients
  /\ room \subseteq Clients
  /\ redis \in [Items -> Users \cup {NoUser}]
  /\ chunk \in BOOLEAN
  /\ nextEdit \in 0..MaxEdits
  /\ handed \subseteq 1..MaxEdits
  /\ dropped \subseteq 1..MaxEdits
  /\ failures \in 0..MaxFailures
  /\ lapsed \in BOOLEAN

LEMMA TypingParts == Typing <=> CallsTyped /\ RestTyped
  BY DEF Typing, TypeOK, CallsTyped, RestTyped

LEMMA IdsType ==
  ASSUME NEW q \in Seq(Edit)
  PROVE  Ids(q) \subseteq 1..MaxEdits
<1>1. \A k \in DOMAIN q : q[k] \in Edit
  BY ElementOfSeq
<1> QED BY <1>1 DEF Ids, Edit

LEMMA TypingInit == Init => Typing
<1> SUFFICES ASSUME Init PROVE CallsTyped /\ RestTyped
  BY TypingParts
<1> USE LockConstants DEF Init
<1>1. NoTask \in Task /\ CallShape(NoTask) /\ NoTask.pc = "idle"
  BY DEF NoTask, CallAt, Task, PCs, Kinds, CallShape
<1>2. NoLock \in Lock /\ <<>> \in Seq(Edit) /\ <<>> \in Seq(Slots) /\ DOMAIN <<>> = {}
  BY DEF NoLock, Held, Lock
<1>3. PipeMatchesCalls
  BY <1>1, <1>2 DEF PipeMatchesCalls
<1>4. CallsTyped
  BY <1>1, <1>2, <1>3 DEF CallsTyped
<1>5. /\ editQueues \in [Items -> Seq(Edit)]
      /\ status \in [Clients -> {"new", "open", "closed"}]
      /\ redis \in [Items -> Users \cup {NoUser}]
  BY <1>2
<1>6. nextEdit \in 0..MaxEdits /\ failures \in 0..MaxFailures
  OBVIOUS
<1>7. RestTyped
  BY <1>5, <1>6 DEF RestTyped
<1> QED BY <1>4, <1>7

\* Steps of the clients and the clock.
LEMMA TypingClientStep ==
  ASSUME Typing, ClientStep
  PROVE  Typing'
<1> USE LockConstants
<1>0. CallsTyped /\ RestTyped
  BY TypingParts
<1>1. ASSUME NEW c \in Clients, Connect(c) \/ RegisterUser(c) \/ JoinProject(c) \/ LeaveProject(c)
      PROVE  Typing'
  <2>1. CallsTyped'
    BY <1>0, <1>1 DEF Connect, RegisterUser, JoinProject, LeaveProject, memory, CallsTyped,
                      PipeMatchesCalls
  <2>2. RestTyped'
    BY <1>0, <1>1 DEF Connect, RegisterUser, JoinProject, LeaveProject, memory, RestTyped
  <2> QED BY <2>1, <2>2, TypingParts, PTL
<1>2. ASSUME NEW c \in Clients, Disconnect(c)
      PROVE  Typing'
  <2>1. RestTyped'
    BY <1>0, <1>2 DEF Disconnect, memory, RestTyped
  <2>2. CASE task' = task
    <3>1. CallsTyped'
      BY <1>0, <1>2, <2>2 DEF Disconnect, memory, CallsTyped, PipeMatchesCalls
    <3> QED BY <2>1, <3>1, TypingParts, PTL
  <2>3. CASE task' # task
    <3> DEFINE t == Loop("releaseAll", UserOf[c], SnapshotOf(UserOf[c]))
    <3>1. PICK s \in FreeSlots : task' = [task EXCEPT ![s] = t]
      BY <1>2, <2>3 DEF Disconnect
    <3>2. s \in Slots /\ task[s].pc = "idle"
      BY DEF FreeSlots
    <3>3. t \in Task /\ CallShape(t) /\ t.pc = "released"
      BY <1>0 DEF Loop, CallAt, Task, PCs, Kinds, CallShape, SnapshotOf, CallsTyped
    <3>4. UNCHANGED <<locks, userLocks, pipe>>
      BY <1>2 DEF Disconnect, memory
    <3>5. CallsTyped'
      <4> HIDE DEF t
      <4> QED BY <3>1, <3>2, <3>3, <3>4, MoveTyped
    <3> QED BY <2>1, <3>5, TypingParts, PTL
  <2> QED BY <2>2, <2>3
<1>3. ASSUME NEW c \in Clients, NEW i \in Items, RequestFree(c, i)
      PROVE  Typing'
  <2>1. PICK s \in FreeSlots : BeginGrant(s, i, UserOf[c])
    BY <1>3 DEF RequestFree
  <2>2. s \in Slots /\ task[s].pc \notin {"del", "set"} /\ UserOf[c] \in Users
    BY DEF FreeSlots
  <2>3. CallsTyped'
    BY <2>1, <2>2, BeginGrantTyped
  <2>4. RestTyped'
    BY <1>0, <1>3 DEF RequestFree, RestTyped, sockets, edits
  <2> QED BY <2>3, <2>4, TypingParts, PTL
<1>4. ASSUME NEW c \in Clients, NEW i \in Items, RequestExpired(c, i) \/ LockReleased(c, i)
      PROVE  Typing'
  <2>1. PICK s \in FreeSlots, k \in {"acquire", "release"} : BeginRelease(s, i, k, UserOf[c], {})
    BY <1>4 DEF RequestExpired, LockReleased
  <2>2. s \in Slots /\ task[s].pc \notin {"del", "set"} /\ UserOf[c] \in Users
    BY DEF FreeSlots
  <2>3. CallsTyped'
    BY <2>1, <2>2, BeginReleaseTyped DEF Kinds
  <2>4. RestTyped'
    BY <1>0, <1>4 DEF RequestExpired, LockReleased, RestTyped, sockets, edits
  <2> QED BY <2>3, <2>4, TypingParts, PTL
<1>5. ASSUME NEW c \in Clients, NEW i \in Items, RequestRenewed(c, i)
      PROVE  Typing'
  <2>1. CallsTyped'
    BY <1>0, <1>5 DEF RequestRenewed, CallsTyped, PipeMatchesCalls, Lock, NoLock, Held, Live, Locked
  <2>2. RestTyped'
    BY <1>0, <1>5 DEF RequestRenewed, RestTyped, sockets, edits
  <2> QED BY <2>1, <2>2, TypingParts, PTL
<1>6. ASSUME NEW c \in Clients, NEW i \in Items, NEW p \in Priorities, RequestDenied(c, i, p)
      PROVE  Typing'
  <2>1. CallsTyped'
    BY <1>0, <1>6 DEF RequestDenied, CallsTyped, PipeMatchesCalls, sockets
  <2>2. NewEdit(UserOf[c], p) \in Edit
    BY <1>0, <1>6 DEF NewEdit, Edit, RequestDenied, RestTyped
  <2>3. Enqueue(editQueues[i], NewEdit(UserOf[c], p)) \in Seq(Edit)
    BY <1>0, <2>2, EnqueueType DEF RestTyped
  <2>4. editQueues' \in [Items -> Seq(Edit)] /\ nextEdit' \in 0..MaxEdits
    BY <1>0, <1>6, <2>3 DEF RequestDenied, RestTyped
  <2>5. RestTyped'
    BY <1>0, <1>6, <2>4 DEF RequestDenied, RestTyped, sockets
  <2> QED BY <2>1, <2>5, TypingParts, PTL
<1> QED BY <1>1, <1>2, <1>3, <1>4, <1>5, <1>6 DEF ClientStep

\* Steps of time and of Redis.
LEMMA TypingExpire ==
  ASSUME Typing, NEW i \in Items, Expire(i)
  PROVE  Typing'
<1>0. CallsTyped /\ RestTyped
  BY TypingParts
<1>1. locks[i] \in Lock /\ locks[i].user # NoUser
  BY <1>0 DEF Expire, Live, Locked, CallsTyped
<1>2. CallsTyped'
  BY <1>0, <1>1 DEF Expire, CallsTyped, PipeMatchesCalls, Lock, NoLock, Held
<1>3. RestTyped'
  BY <1>0 DEF Expire, RestTyped, sockets, edits
<1> QED BY <1>2, <1>3, TypingParts, PTL

LEMMA TypingCleanupTick ==
  ASSUME Typing, CleanupTick
  PROVE  Typing'
<1>0. CallsTyped /\ RestTyped
  BY TypingParts
<1>1. RestTyped'
  BY <1>0 DEF CleanupTick, memory, sockets, RestTyped
<1>2. CASE task' = task
  <2>1. CallsTyped'
    BY <1>0, <1>2 DEF CleanupTick, memory, sockets, CallsTyped, PipeMatchesCalls
  <2> QED BY <1>1, <2>1, TypingParts, PTL
<1>3. CASE task' # task
  <2> DEFINE t == Loop("cleanup", NoUser, ExpiredSet)
  <2>1. PICK s \in FreeSlots : task' = [task EXCEPT ![s] = t]
    BY <1>3 DEF CleanupTick
  <2>2. s \in Slots /\ task[s].pc = "idle"
    BY DEF FreeSlots
  <2>3. t \in Task /\ CallShape(t) /\ t.pc = "released"
    BY DEF Loop, CallAt, Task, PCs, Kinds, CallShape, ExpiredSet
  <2>4. UNCHANGED <<locks, userLocks, pipe>>
    BY DEF CleanupTick, memory
  <2>5. CallsTyped'
    <3> HIDE DEF t
    <3> QED BY <2>1, <2>2, <2>3, <2>4, MoveTyped
  <2> QED BY <1>1, <2>5, TypingParts, PTL
<1> QED BY <1>2, <1>3

\* The call at the head of the pipe is resumed, or given up.
LEMMA AnswerTyped ==
  ASSUME Typing, pipe # <<>>, pipe' = Tail(pipe),
         NEW t \in Task, CallShape(t), t.pc \notin {"del", "set"},
         task' = [task EXCEPT ![Head(pipe)] = t], UNCHANGED <<locks, userLocks>>
  PROVE  CallsTyped'
<1>1. /\ pipe \in Seq(Slots) /\ Head(pipe) \in Slots /\ pipe' \in Seq(Slots)
      /\ Len(pipe') = Len(pipe) - 1 /\ Len(pipe) \in Nat \ {0} /\ Head(pipe) = pipe[1]
      /\ \A k \in 1..Len(pipe') : pipe'[k] = pipe[k + 1]
  BY HeadTailProperties DEF Typing, TypeOK
<1>2. DOMAIN pipe = 1..Len(pipe) /\ DOMAIN pipe' = 1..(Len(pipe) - 1)
  BY <1>1
<1>3. /\ task' \in [Slots -> Task]
      /\ \A x \in Slots : task'[x] = IF x = Head(pipe) THEN t ELSE task[x]
  BY <1>1 DEF Typing, TypeOK
<1>4. ASSUME NEW x \in Slots
      PROVE  task'[x].pc \in {"del", "set"} <=> \E k \in DOMAIN pipe' : pipe'[k] = x
  <2>1. CASE x = Head(pipe)
    <3>1. \A k \in DOMAIN pipe' : k + 1 \in DOMAIN pipe /\ 1 \in DOMAIN pipe /\ k + 1 # 1
      BY <1>1, <1>2
    <3>2. \A k \in DOMAIN pipe' : pipe[k + 1] # pipe[1]
      BY <3>1 DEF Typing, PipeMatchesCalls
    <3> QED BY <2>1, <3>2, <1>1, <1>2, <1>3
  <2>2. CASE x # Head(pipe)
    <3>1. ASSUME NEW k \in DOMAIN pipe, pipe[k] = x
          PROVE  k - 1 \in DOMAIN pipe' /\ pipe'[k - 1] = x
      <4>1. k # 1 /\ k \in 1..Len(pipe)
        BY <2>2, <3>1, <1>1, <1>2
      <4>2. k - 1 \in 1..Len(pipe')
        BY <4>1, <1>1
      <4> QED BY <4>1, <4>2, <3>1, <1>1, <1>2
    <3>2. ASSUME NEW k \in DOMAIN pipe', pipe'[k] = x
          PROVE  k + 1 \in DOMAIN pipe /\ pipe[k + 1] = x
      BY <3>2, <1>1, <1>2
    <3> QED BY <2>2, <3>1, <3>2, <1>3 DEF Typing, PipeMatchesCalls
  <2> QED BY <2>1, <2>2
<1>5. ASSUME NEW j \in DOMAIN pipe', NEW k \in DOMAIN pipe', pipe'[j] = pipe'[k]
      PROVE  j = k
  <2>1. j + 1 \in DOMAIN pipe /\ k + 1 \in DOMAIN pipe /\ pipe[j + 1] = pipe[k + 1]
    BY <1>1, <1>2, <1>5
  <2>2. j + 1 = k + 1
    BY <2>1 DEF Typing, PipeMatchesCalls
  <2> QED BY <2>2, <1>1, <1>2
<1>6. \A x \in Slots : CallShape(task'[x])
  BY <1>3 DEF Typing, TypeOK
<1> QED BY <1>1, <1>3, <1>4, <1>5, <1>6 DEF CallsTyped, PipeMatchesCalls, Typing, TypeOK

LEMMA TypingRedis ==
  ASSUME Typing, RedisReply \/ RedisError \/ RedisErrorEndsProcess
  PROVE  Typing'
<1> USE LockConstants
<1>0. CallsTyped /\ RestTyped
  BY TypingParts
<1>1. pipe # <<>>
  BY DEF RedisReply, RedisError, RedisErrorEndsProcess
<1>2. Head(pipe) \in Slots /\ \E k \in DOMAIN pipe : pipe[k] = Head(pipe)
  BY <1>0, <1>1, HeadTailProperties DEF CallsTyped
<1>3. task[Head(pipe)].pc \in {"del", "set"} /\ task[Head(pipe)] \in Task /\ CallShape(task[Head(pipe)])
  BY <1>0, <1>2 DEF CallsTyped, PipeMatchesCalls
<1>4. CASE RedisReply
  <2> DEFINE t == Answered(task[Head(pipe)])
  <2>1. t \in Task /\ CallShape(t) /\ t.pc \notin {"del", "set"}
    BY <1>3 DEF Answered, At, CallAt, Task, PCs, CallShape
  <2>2. task' = [task EXCEPT ![Head(pipe)] = t] /\ pipe' = Tail(pipe)
        /\ UNCHANGED <<locks, userLocks>>
    BY <1>4 DEF RedisReply, memory
  <2>3. CallsTyped'
    <3> HIDE DEF t
    <3> QED BY <1>1, <2>1, <2>2, AnswerTyped
  <2>4. Written(Head(pipe)) \in Users \cup {NoUser}
    BY <1>3 DEF Written, Task
  <2>5. RestTyped'
    BY <1>0, <1>4, <2>4 DEF RedisReply, RestTyped, memory, sockets
  <2> QED BY <2>3, <2>5, TypingParts, PTL
<1>5. CASE RedisError
  <2>1. NoTask \in Task /\ CallShape(NoTask) /\ NoTask.pc \notin {"del", "set"}
    BY DEF NoTask, CallAt, Task, PCs, Kinds, CallShape
  <2>2. task' = [task EXCEPT ![Head(pipe)] = NoTask] /\ pipe' = Tail(pipe)
        /\ UNCHANGED <<locks, userLocks>>
    BY <1>5 DEF RedisError, memory
  <2>3. CallsTyped'
    BY <1>1, <2>1, <2>2, AnswerTyped
  <2>4. RestTyped'
    BY <1>0, <1>5 DEF RedisError, RestTyped, memory, sockets
  <2> QED BY <2>3, <2>4, TypingParts, PTL
<1>6. CASE RedisErrorEndsProcess
  <2>1. NoTask \in Task /\ CallShape(NoTask) /\ NoTask.pc = "idle"
    BY DEF NoTask, CallAt, Task, PCs, Kinds, CallShape
  <2>2. NoLock \in Lock /\ <<>> \in Seq(Edit) /\ <<>> \in Seq(Slots) /\ DOMAIN <<>> = {}
    BY DEF NoLock, Held, Lock
  <2>3. CallsTyped'
    BY <1>6, <2>1, <2>2 DEF RedisErrorEndsProcess, CallsTyped, PipeMatchesCalls
  <2>4. UNION {Ids(editQueues[i]) : i \in Items} \subseteq 1..MaxEdits
    BY <1>0, IdsType DEF RestTyped
  <2>5. redis' \in [Items -> Users \cup {NoUser}] /\ editQueues' \in [Items -> Seq(Edit)]
    BY <1>6, <2>2 DEF RedisErrorEndsProcess
  <2>6. status' \in [Clients -> {"new", "open", "closed"}]
    BY <1>0, <1>6 DEF RedisErrorEndsProcess, RestTyped
  <2>7. failures' \in 0..MaxFailures
    <3>1. failures' = failures + 1 /\ failures < MaxFailures
      BY <1>6 DEF RedisErrorEndsProcess
    <3> QED BY <1>0, <3>1 DEF RestTyped
  <2>8. dropped' \subseteq 1..MaxEdits
    <3>1. dropped' = dropped \cup UNION {Ids(editQueues[i]) : i \in Items}
      BY <1>6 DEF RedisErrorEndsProcess
    <3> QED BY <1>0, <2>4, <3>1 DEF RestTyped
  <2>9. /\ registered' = {} /\ room' = {} /\ chunk' = FALSE
        /\ nextEdit' = nextEdit /\ handed' = handed /\ lapsed' = lapsed
    BY <1>6 DEF RedisErrorEndsProcess
  <2>10. RestTyped'
    BY <1>0, <2>5, <2>6, <2>7, <2>8, <2>9 DEF RestTyped
  <2> QED BY <2>3, <2>10, TypingParts, PTL
<1> QED BY <1>4, <1>5, <1>6

\* Steps of resumed calls.
LEMMA TypingResume ==
  ASSUME Typing, NEW s \in Slots, Resume(s)
  PROVE  Typing'
<1> USE LockConstants
<1>0. CallsTyped /\ RestTyped
  BY TypingParts
<1>1. task[s] \in Task /\ CallShape(task[s])
  BY <1>0 DEF CallsTyped
<1>2. task[s].pc \in {"deleted", "released", "stored"}
  BY DEF Resume, ProcessDiscarding, ProcessDiscardingExpired, TakeOver, FinishGrant,
         ReleaseNext, PassOverNext, FinishRelease, AnnounceRelease, AnnounceReleaseExpired
<1>3. task[s].pc \notin {"del", "set"}
  BY <1>2
<1>4. \A i \in Items : Ids(editQueues[i]) \subseteq 1..MaxEdits
  BY <1>0, IdsType DEF RestTyped
<1>5. \A i \in Items : Taken(i) \in [Items -> Seq(Edit)]
  BY <1>0 DEF RestTyped, Taken
<1>6. At(task[s], "released") \in Task
  BY <1>1 DEF At, CallAt, Task, PCs
<1>7. task[s].pc = "deleted" => CallShape(At(task[s], "released"))
  BY <1>1 DEF At, CallAt, CallShape, Task
<1>8. NoTask \in Task /\ CallShape(NoTask) /\ NoTask.pc \notin {"del", "set"}
  BY DEF NoTask, CallAt, Task, PCs, Kinds, CallShape
<1>9. CASE ProcessDiscarding(s)
  <2> DEFINE i == task[s].item
             t == At(task[s], "released")
  <2>1. i \in Items
    BY <1>1, <1>9 DEF ProcessDiscarding, CallShape
  <2>2. t.pc \notin {"del", "set"} /\ t \in Task /\ CallShape(t)
    BY <1>6, <1>7, <1>9 DEF ProcessDiscarding, At, CallAt
  <2>3. task' = [task EXCEPT ![s] = t] /\ UNCHANGED <<locks, userLocks, pipe>>
    BY <1>9 DEF ProcessDiscarding
  <2>4. CallsTyped'
    <3> HIDE DEF t
    <3> QED BY <1>3, <2>2, <2>3, MoveTyped
  <2>5. RestTyped'
    BY <1>0, <1>4, <1>5, <1>9, <2>1 DEF ProcessDiscarding, RestTyped, sockets
  <2> QED BY <2>4, <2>5, TypingParts, PTL
<1>10. CASE ProcessDiscardingExpired(s)
  <2> DEFINE i == task[s].item
             t == At(task[s], "released")
             r == CallAt("del", "background", i, NoUser, {})
             moved == [task EXCEPT ![s] = t]
  <2>1. i \in Items
    BY <1>1, <1>10 DEF ProcessDiscardingExpired, CallShape
  <2>2. t.pc \notin {"del", "set"} /\ t \in Task /\ CallShape(t)
    BY <1>6, <1>7, <1>10 DEF ProcessDiscardingExpired, At, CallAt
  <2>3. r \in Task /\ CallShape(r) /\ r.pc \in {"del", "set"}
    BY <2>1 DEF CallAt, Task, PCs, Kinds, CallShape
  <2>4. PICK b \in FreeSlots \ {s} :
          /\ locks' = [locks EXCEPT ![i] = NoLock]
          /\ userLocks' = Unindexed(i)
          /\ task' = [moved EXCEPT ![b] = r]
          /\ pipe' = Append(pipe, b)
    BY <1>10 DEF ProcessDiscardingExpired
  <2>5. b \in Slots /\ task[b].pc = "idle" /\ b # s
    BY DEF FreeSlots
  <2>6. /\ task' \in [Slots -> Task] /\ \A x \in Slots : CallShape(task'[x])
        /\ \A x \in Slots : task'[x] = IF x = b THEN r ELSE IF x = s THEN t ELSE task[x]
    <3> HIDE DEF t, r
    <3>1. task \in [Slots -> Task] /\ \A x \in Slots : CallShape(task[x])
      BY <1>0 DEF CallsTyped
    <3>2. moved \in [Slots -> Task] /\ \A x \in Slots : moved[x] = IF x = s THEN t ELSE task[x]
      BY <2>2, <3>1
    <3> HIDE DEF moved
    <3>3. \A x \in Slots : task'[x] = IF x = b THEN r ELSE moved[x]
      BY <2>4, <3>2
    <3>4. task' \in [Slots -> Task]
      BY <2>3, <2>4, <3>2
    <3> QED BY <2>2, <2>3, <3>1, <3>2, <3>3, <3>4
  <2>7. pipe \in Seq(Slots) /\ pipe' \in Seq(Slots) /\ PipeMatchesCalls'
    <3> HIDE DEF t, r, moved
    <3>1. /\ pipe \in Seq(Slots) /\ pipe' \in Seq(Slots)
          /\ Len(pipe') = Len(pipe) + 1 /\ pipe'[Len(pipe) + 1] = b
          /\ \A k \in 1..Len(pipe) : pipe'[k] = pipe[k]
      BY <1>0, <2>4, <2>5, AppendProperties DEF CallsTyped
    <3>2. DOMAIN pipe = 1..Len(pipe) /\ DOMAIN pipe' = 1..(Len(pipe) + 1) /\ Len(pipe) \in Nat
      BY <3>1
    <3>3. \A k \in 1..Len(pipe) : pipe[k] # b /\ pipe[k] # s
      BY <1>0, <1>3, <2>5, <3>2 DEF CallsTyped, PipeMatchesCalls
    <3>4. ASSUME NEW x \in Slots
          PROVE  task'[x].pc \in {"del", "set"} <=> \E k \in DOMAIN pipe' : pipe'[k] = x
      <4>1. CASE x = b
        BY <4>1, <2>3, <2>6, <3>1, <3>2
      <4>2. CASE x # b
        <5>1. (\E k \in DOMAIN pipe' : pipe'[k] = x) <=> \E k \in DOMAIN pipe : pipe[k] = x
          BY <4>2, <3>1, <3>2
        <5>2. task'[x].pc \in {"del", "set"} <=> task[x].pc \in {"del", "set"}
          BY <4>2, <1>3, <2>2, <2>6
        <5> QED BY <5>1, <5>2, <1>0 DEF CallsTyped, PipeMatchesCalls
      <4> QED BY <4>1, <4>2
    <3>5. ASSUME NEW j \in DOMAIN pipe', NEW k \in DOMAIN pipe', pipe'[j] = pipe'[k]
          PROVE  j = k
      BY <1>0, <3>1, <3>2, <3>3, <3>5 DEF CallsTyped, PipeMatchesCalls
    <3> QED BY <3>1, <3>4, <3>5 DEF PipeMatchesCalls
  <2>8. locks' \in [Items -> Lock] /\ userLocks' \in [Users -> SUBSET Items]
        /\ \A j \in Items : locks'[j].user = NoUser => locks'[j] = NoLock
    <3> HIDE DEF i, t, r, moved
    <3> QED BY <1>0, <2>1, <2>4 DEF CallsTyped, Unindexed, NoLock, Held, Lock
  <2>9. CallsTyped'
    BY <2>6, <2>7, <2>8 DEF CallsTyped
  <2>10. RestTyped'
    BY <1>0, <1>4, <1>5, <1>10, <2>1 DEF ProcessDiscardingExpired, RestTyped, sockets
  <2> QED BY <2>9, <2>10, TypingParts, PTL
<1>11. CASE TakeOver(s)
  <2>1. task[s].item \in Items /\ task[s].user \in Users
    BY <1>1, <1>11 DEF TakeOver, CallShape
  <2>2. CallsTyped'
    BY <1>3, <1>11, <2>1, BeginGrantTyped DEF TakeOver
  <2>3. RestTyped'
    BY <1>0, <1>11 DEF TakeOver, RestTyped, sockets, edits
  <2> QED BY <2>2, <2>3, TypingParts, PTL
<1>12. CASE FinishGrant(s) \/ FinishRelease(s)
  <2>1. task' = [task EXCEPT ![s] = NoTask] /\ UNCHANGED <<locks, userLocks, pipe>>
    BY <1>12 DEF FinishGrant, FinishRelease, memory
  <2>2. CallsTyped'
    BY <1>3, <1>8, <2>1, MoveTyped
  <2>3. RestTyped'
    BY <1>0, <1>12 DEF FinishGrant, FinishRelease, RestTyped, memory, sockets
  <2> QED BY <2>2, <2>3, TypingParts, PTL
<1>13. CASE ReleaseNext(s)
  <2>1. PICK i \in task[s].rest :
          BeginRelease(s, i, task[s].kind, task[s].user, task[s].rest \ {i})
    BY <1>13 DEF ReleaseNext
  <2>2. /\ i \in Items /\ task[s].rest \ {i} \in SUBSET Items
        /\ task[s].kind \in Kinds \ {"none"} /\ task[s].user \in Users \cup {NoUser}
        /\ task[s].kind \in {"acquire", "release", "releaseAll"} => task[s].user \in Users
    BY <1>1, <1>13 DEF ReleaseNext, Task, Kinds, CallShape
  <2>3. CallsTyped'
    BY <1>3, <2>1, <2>2, BeginReleaseTyped
  <2>4. RestTyped'
    BY <1>0, <1>13 DEF ReleaseNext, RestTyped, sockets, edits
  <2> QED BY <2>3, <2>4, TypingParts, PTL
<1>14. CASE PassOverNext(s)
  <2>1. PICK i \in task[s].rest : task' = [task EXCEPT ![s] = Without(task[s], i)]
    BY <1>14 DEF PassOverNext
  <2> DEFINE t == Without(task[s], i)
  <2>2. t \in Task /\ CallShape(t) /\ t.pc \notin {"del", "set"}
    BY <1>1, <1>3 DEF Without, CallAt, Task, CallShape
  <2>3. UNCHANGED <<locks, userLocks, pipe>>
    BY <1>14 DEF PassOverNext, memory
  <2>4. CallsTyped'
    <3>1. task' = [task EXCEPT ![s] = t]
      BY <2>1
    <3> HIDE DEF t
    <3> QED BY <1>3, <2>2, <2>3, <3>1, MoveTyped
  <2>5. RestTyped'
    BY <1>0, <1>14 DEF PassOverNext, RestTyped, memory, sockets
  <2> QED BY <2>4, <2>5, TypingParts, PTL
<1>15. ASSUME NEW i \in Items, HandOver(i)
       PROVE  /\ editQueues' \in [Items -> Seq(Edit)]
              /\ handed' \subseteq 1..MaxEdits
              /\ dropped' \subseteq 1..MaxEdits
  <2> DEFINE sent == {editQueues[i][k].id :
                        k \in {k \in DOMAIN editQueues[i] : Reachable(editQueues[i][k].author)}}
  <2>1. sent \subseteq Ids(editQueues[i])
    BY DEF Ids
  <2>2. handed' = handed \cup sent /\ dropped' = dropped \cup (Ids(editQueues[i]) \ sent)
    BY <1>15 DEF HandOver
  <2> QED BY <1>0, <1>4, <1>5, <1>15, <2>1, <2>2 DEF HandOver, RestTyped
<1>16. CASE AnnounceRelease(s)
  <2>1. task[s].item \in Items
    BY <1>1, <1>16 DEF AnnounceRelease, CallShape
  <2>2. CallsTyped'
    <3>1. task' = [task EXCEPT ![s] = NoTask] /\ UNCHANGED <<locks, userLocks, pipe>>
      BY <1>16 DEF AnnounceRelease
    <3> QED BY <1>3, <1>8, <3>1, MoveTyped
  <2>3. RestTyped'
    <3>1. \/ HandOver(task[s].item)
          \/ UNCHANGED <<editQueues, handed, dropped>>
      BY <1>16 DEF AnnounceRelease
    <3> QED BY <1>0, <1>15, <1>16, <2>1, <3>1 DEF AnnounceRelease, RestTyped, sockets
  <2> QED BY <2>2, <2>3, TypingParts, PTL
<1>17. CASE AnnounceReleaseExpired(s)
  <2>1. task[s].item \in Items
    BY <1>1, <1>17 DEF AnnounceReleaseExpired, CallShape
  <2>2. CallsTyped'
    <3>1. BeginRelease(s, task[s].item, "background", NoUser, {})
      BY <1>17 DEF AnnounceReleaseExpired
    <3> QED BY <1>3, <2>1, <3>1, BeginReleaseTyped DEF Kinds
  <2>3. RestTyped'
    BY <1>0, <1>15, <1>17, <2>1 DEF AnnounceReleaseExpired, RestTyped, sockets
  <2> QED BY <2>2, <2>3, TypingParts, PTL
<1> QED BY <1>9, <1>10, <1>11, <1>12, <1>13, <1>14, <1>16, <1>17 DEF Resume

LEMMA TypingStep == Typing /\ [Next]_vars => Typing'
<1> SUFFICES ASSUME Typing, [Next]_vars PROVE Typing'
  OBVIOUS
<1>1. CASE UNCHANGED vars
  BY <1>1 DEF vars, Typing, TypeOK, PipeMatchesCalls
<1> QED BY <1>1, TypingClientStep, TypingExpire, TypingCleanupTick, TypingRedis, TypingResume
        DEF Next

\* The state of LockQueue is always well typed: in particular whoever takes a
\* lock after an await still knows its item and its user.
THEOREM TypeCorrect == Spec => []TypeOK
<1>1. Spec => []Typing
  BY TypingInit, TypingStep, PTL DEF Spec
<1>2. Typing => TypeOK
  BY DEF Typing
<1> QED BY <1>1, <1>2, PTL

(***************************************************************************)
(* OwnerIndexed.                                                           *)
(***************************************************************************)
LEMMA ForgetKeepsIndex ==
  ASSUME Typing, OwnerIndexed, NEW i \in Items,
         locks' = [locks EXCEPT ![i] = NoLock], userLocks' = Unindexed(i)
  PROVE  OwnerIndexed'
BY LockConstants DEF Typing, TypeOK, OwnerIndexed, Locked, Unindexed, NoLock, Held, Lock

LEMMA GrantKeepsIndex ==
  ASSUME Typing, OwnerIndexed, NEW i \in Items, NEW u \in Users,
         locks' = [locks EXCEPT ![i] = Held(u, FALSE)], userLocks' = Indexed(i, u)
  PROVE  OwnerIndexed'
BY LockConstants DEF Typing, TypeOK, OwnerIndexed, Locked, Indexed, NoLock, Held, Lock

\* What a resumed call does to the locks.
LEMMA ResumeOnLocks ==
  ASSUME Typing, NEW s \in Slots, Resume(s)
  PROVE  \/ UNCHANGED <<locks, userLocks>>
         \/ \E i \in Items : locks' = [locks EXCEPT ![i] = NoLock] /\ userLocks' = Unindexed(i)
         \/ \E i \in Items, u \in Users :
              locks' = [locks EXCEPT ![i] = Held(u, FALSE)] /\ userLocks' = Indexed(i, u)
<1>1. task[s] \in Task /\ CallShape(task[s])
  BY DEF Typing, TypeOK
<1>2. CASE \/ ProcessDiscarding(s) \/ FinishGrant(s) \/ PassOverNext(s) \/ FinishRelease(s)
           \/ AnnounceRelease(s)
  BY <1>2 DEF ProcessDiscarding, FinishGrant, PassOverNext, FinishRelease, AnnounceRelease, memory
<1>3. CASE ProcessDiscardingExpired(s)
  BY <1>1, <1>3 DEF ProcessDiscardingExpired, CallShape
<1>4. CASE TakeOver(s)
  BY <1>1, <1>4 DEF TakeOver, BeginGrant, CallShape
<1>5. CASE ReleaseNext(s)
  BY <1>1, <1>5 DEF ReleaseNext, BeginRelease, Task
<1>6. CASE AnnounceReleaseExpired(s)
  BY <1>1, <1>6 DEF AnnounceReleaseExpired, BeginRelease, CallShape
<1> QED BY <1>2, <1>3, <1>4, <1>5, <1>6 DEF Resume

LEMMA OwnerIndexedStep == Typing /\ OwnerIndexed /\ [Next]_vars => OwnerIndexed'
<1> SUFFICES ASSUME Typing, OwnerIndexed, [Next]_vars PROVE OwnerIndexed'
  OBVIOUS
<1> USE LockConstants
<1>1. CASE UNCHANGED <<locks, userLocks>>
  BY <1>1 DEF OwnerIndexed, Locked
<1>2. CASE ClientStep
  <2>1. ASSUME NEW c \in Clients, NEW i \in Items, RequestRenewed(c, i)
        PROVE  OwnerIndexed'
    BY <2>1 DEF RequestRenewed, OwnerIndexed, Live, Locked, Typing, TypeOK, Lock, Held, NoLock
  <2>2. ASSUME NEW c \in Clients, NEW i \in Items, RequestFree(c, i)
        PROVE  OwnerIndexed'
    <3>1. UserOf[c] \in Users
      OBVIOUS
    <3> QED BY <2>2, <3>1, GrantKeepsIndex DEF RequestFree, BeginGrant
  <2>3. ASSUME NEW c \in Clients, NEW i \in Items, RequestExpired(c, i) \/ LockReleased(c, i)
        PROVE  OwnerIndexed'
    BY <2>3, ForgetKeepsIndex DEF RequestExpired, LockReleased, BeginRelease
  <2>4. ASSUME NEW c \in Clients,
               \/ Connect(c) \/ RegisterUser(c) \/ JoinProject(c) \/ LeaveProject(c) \/ Disconnect(c)
               \/ \E i \in Items, p \in Priorities : RequestDenied(c, i, p)
        PROVE  OwnerIndexed'
    BY <1>1, <2>4 DEF Connect, RegisterUser, JoinProject, LeaveProject, Disconnect, RequestDenied,
                      memory
  <2> QED BY <1>2, <2>1, <2>2, <2>3, <2>4 DEF ClientStep
<1>3. ASSUME NEW i \in Items, Expire(i)
      PROVE  OwnerIndexed'
  BY <1>3 DEF Expire, OwnerIndexed, Live, Locked, Typing, TypeOK, Lock, Held, NoLock
<1>4. CASE CleanupTick \/ RedisReply \/ RedisError
  BY <1>1, <1>4 DEF CleanupTick, RedisReply, RedisError, memory
<1>5. CASE RedisErrorEndsProcess
  BY <1>5 DEF RedisErrorEndsProcess, OwnerIndexed, Locked
<1>6. ASSUME NEW s \in Slots, Resume(s)
      PROVE  OwnerIndexed'
  BY <1>1, <1>6, ResumeOnLocks, ForgetKeepsIndex, GrantKeepsIndex
<1>7. CASE UNCHANGED vars
  BY <1>1, <1>7 DEF vars
<1> QED BY <1>2, <1>3, <1>4, <1>5, <1>6, <1>7 DEF Next

\* A user's lock is always found in userLocks under that user, so the release
\* at disconnect cannot miss it.
THEOREM LocksIndexed == Spec => []OwnerIndexed
<1>1. Init => OwnerIndexed
  BY DEF Init, OwnerIndexed, Locked
<1>2. Spec => []Typing
  BY TypingInit, TypingStep, PTL DEF Spec
<1> QED BY <1>1, <1>2, OwnerIndexedStep, PTL DEF Spec

(***************************************************************************)
(* QueueHasDrainer.  The calls that will drain an item's queue are those   *)
(* between their DEL and the processing of the queue.                      *)
(***************************************************************************)
Drains(s, i) == task[s].item = i /\ task[s].pc \in {"del", "deleted"}

LEMMA QueueHasDrainerStep ==
  Typing /\ QueueHasDrainer /\ [Next]_vars => QueueHasDrainer'
<1> SUFFICES ASSUME Typing, QueueHasDrainer, [Next]_vars, failures' = 0,
                    NEW i \in Items, editQueues'[i] # <<>>
             PROVE  Locked(i)' \/ \E s \in Slots : Drains(s, i)'
  BY DEF QueueHasDrainer, Drains
<1> USE LockConstants
<1>0. /\ task \in [Slots -> Task] /\ \A s \in Slots : CallShape(task[s])
      /\ locks \in [Items -> Lock] /\ editQueues \in [Items -> Seq(Edit)]
      /\ failures \in Nat /\ nextEdit \in Nat
  BY DEF Typing, TypeOK
<1>a. failures = 0 /\ editQueues[i] # <<>> => Locked(i) \/ \E s \in Slots : Drains(s, i)
  BY DEF QueueHasDrainer, Drains
<1>1. ASSUME failures' = failures, editQueues' = editQueues,
             Locked(i) => Locked(i)',
             \A s \in Slots : Drains(s, i) => Drains(s, i)'
      PROVE  Locked(i)' \/ \E s \in Slots : Drains(s, i)'
  BY <1>a, <1>1
<1>2. ASSUME NEW j \in Items, NEW s \in Slots, NEW k, NEW u, NEW todo,
             task[s].pc \notin {"del", "deleted"}, BeginRelease(s, j, k, u, todo),
             failures' = failures, editQueues' = editQueues
      PROVE  Locked(i)' \/ \E x \in Slots : Drains(x, i)'
  <2> DEFINE t == CallAt("del", k, j, u, todo)
  <2>1. t.pc = "del" /\ t.item = j
    BY DEF CallAt
  <2>2. task' = [task EXCEPT ![s] = t] /\ locks' = [locks EXCEPT ![j] = NoLock]
    BY <1>2 DEF BeginRelease
  <2> HIDE DEF t
  <2>3. task'[s] = t /\ \A x \in Slots \ {s} : task'[x] = task[x]
    BY <1>0, <2>2
  <2>4. CASE i = j
    BY <2>1, <2>3, <2>4 DEF Drains
  <2>5. CASE i # j
    <3>1. locks'[i] = locks[i]
      BY <1>0, <2>2, <2>5
    <3>2. \A x \in Slots : Drains(x, i) => Drains(x, i)'
      BY <1>2, <2>3 DEF Drains
    <3> QED BY <1>1, <1>2, <3>1, <3>2 DEF Locked
  <2> QED BY <2>4, <2>5
<1>3. ASSUME NEW j \in Items, NEW s \in Slots, NEW u \in Users,
             task[s].pc \notin {"del", "deleted"}, BeginGrant(s, j, u),
             failures' = failures, editQueues' = editQueues
      PROVE  Locked(i)' \/ \E x \in Slots : Drains(x, i)'
  <2>1. \A x \in Slots : Drains(x, i) => Drains(x, i)'
    BY <1>0, <1>3 DEF BeginGrant, Drains
  <2>2. Locked(i) => Locked(i)'
    BY <1>0, <1>3 DEF BeginGrant, Locked, NoLock, Held, Lock
  <2> QED BY <1>1, <1>3, <2>1, <2>2
<1>4. CASE ClientStep
  <2>1. ASSUME NEW c \in Clients,
               Connect(c) \/ RegisterUser(c) \/ JoinProject(c) \/ LeaveProject(c)
        PROVE  Locked(i)' \/ \E x \in Slots : Drains(x, i)'
    BY <1>1, <2>1 DEF Connect, RegisterUser, JoinProject, LeaveProject, memory, Locked, Drains
  <2>2. ASSUME NEW c \in Clients, Disconnect(c)
        PROVE  Locked(i)' \/ \E x \in Slots : Drains(x, i)'
    <3>1. UNCHANGED <<locks, editQueues, failures>>
      BY <2>2 DEF Disconnect, memory
    <3>2. \/ task' = task
          \/ \E s \in FreeSlots : \E t : task' = [task EXCEPT ![s] = t]
      BY <2>2 DEF Disconnect
    <3>3. \A x \in Slots : Drains(x, i) => Drains(x, i)'
      BY <1>0, <3>2 DEF Drains, FreeSlots
    <3> QED BY <1>1, <3>1, <3>3 DEF Locked
  <2>3. ASSUME NEW c \in Clients, NEW j \in Items, RequestFree(c, j)
        PROVE  Locked(i)' \/ \E x \in Slots : Drains(x, i)'
    <3>1. PICK s \in FreeSlots : BeginGrant(s, j, UserOf[c])
      BY <2>3 DEF RequestFree
    <3>2. s \in Slots /\ task[s].pc \notin {"del", "deleted"} /\ UserOf[c] \in Users
      BY DEF FreeSlots
    <3>3. failures' = failures /\ editQueues' = editQueues
      BY <2>3 DEF RequestFree, edits
    <3> QED BY <1>3, <3>1, <3>2, <3>3
  <2>4. ASSUME NEW c \in Clients, NEW j \in Items, RequestExpired(c, j) \/ LockReleased(c, j)
        PROVE  Locked(i)' \/ \E x \in Slots : Drains(x, i)'
    <3>1. PICK s \in FreeSlots, k \in {"acquire", "release"} :
            BeginRelease(s, j, k, UserOf[c], {})
      BY <2>4 DEF RequestExpired, LockReleased
    <3>2. s \in Slots /\ task[s].pc \notin {"del", "deleted"}
      BY DEF FreeSlots
    <3>3. failures' = failures /\ editQueues' = editQueues
      BY <2>4 DEF RequestExpired, LockReleased, edits
    <3> QED BY <1>2, <3>1, <3>2, <3>3
  <2>5. ASSUME NEW c \in Clients, NEW j \in Items, RequestRenewed(c, j)
        PROVE  Locked(i)' \/ \E x \in Slots : Drains(x, i)'
    <3>1. UNCHANGED <<task, editQueues, failures>>
      BY <2>5 DEF RequestRenewed, edits
    <3>2. Locked(i) => Locked(i)'
      BY <1>0, <2>5 DEF RequestRenewed, Locked, NoLock, Held
    <3> QED BY <1>1, <3>1, <3>2 DEF Drains
  <2>6. ASSUME NEW c \in Clients, NEW j \in Items, NEW p \in Priorities, RequestDenied(c, j, p)
        PROVE  Locked(i)' \/ \E x \in Slots : Drains(x, i)'
    <3>1. UNCHANGED <<task, locks, failures>> /\ Locked(j)
      BY <2>6 DEF RequestDenied, Live
    <3>2. i # j => editQueues'[i] = editQueues[i]
      BY <1>0, <2>6 DEF RequestDenied
    <3> QED BY <1>a, <3>1, <3>2 DEF Locked, Drains
  <2> QED BY <1>4, <2>1, <2>2, <2>3, <2>4, <2>5, <2>6 DEF ClientStep
<1>5. ASSUME NEW j \in Items, Expire(j)
      PROVE  Locked(i)' \/ \E x \in Slots : Drains(x, i)'
  <2>1. UNCHANGED <<task, editQueues, failures>>
    BY <1>5 DEF Expire, edits
  <2>2. Locked(i) => Locked(i)'
    BY <1>0, <1>5 DEF Expire, Locked, NoLock, Held
  <2> QED BY <1>1, <2>1, <2>2 DEF Drains
<1>6. CASE CleanupTick
  <2>1. UNCHANGED <<locks, editQueues, failures>>
    BY <1>6 DEF CleanupTick, memory
  <2>2. task' = task \/ \E s \in FreeSlots : \E t : task' = [task EXCEPT ![s] = t]
    BY <1>6 DEF CleanupTick
  <2>3. \A x \in Slots : Drains(x, i) => Drains(x, i)'
    BY <1>0, <2>2 DEF Drains, FreeSlots
  <2> QED BY <1>1, <2>1, <2>3 DEF Locked
<1>7. CASE RedisReply
  <2>1. UNCHANGED <<locks, editQueues, failures>>
    BY <1>7 DEF RedisReply, memory
  <2>2. task' = [task EXCEPT ![Head(pipe)] = Answered(@)]
    BY <1>7 DEF RedisReply
  <2>3. ASSUME NEW x \in Slots, Drains(x, i)
        PROVE  Drains(x, i)'
    <3>1. task'[x] = IF x = Head(pipe) THEN Answered(task[x]) ELSE task[x]
      BY <1>0, <2>2
    <3>2. Answered(task[x]).item = task[x].item
          /\ (task[x].pc # "set" => Answered(task[x]).pc = "deleted")
      BY DEF Answered, At, CallAt
    <3> QED BY <2>3, <3>1, <3>2 DEF Drains
  <2> QED BY <1>1, <2>1, <2>3 DEF Locked
<1>8. CASE RedisError \/ RedisErrorEndsProcess
  BY <1>0, <1>8 DEF RedisError, RedisErrorEndsProcess
<1>9. ASSUME NEW s \in Slots, Resume(s)
      PROVE  Locked(i)' \/ \E x \in Slots : Drains(x, i)'
  <2>1. CASE ProcessDiscarding(s)
    <3>1. UNCHANGED <<locks, failures>>
      BY <2>1 DEF ProcessDiscarding
    <3>2. \A x \in Slots : x # s => task'[x] = task[x]
      BY <1>0, <2>1 DEF ProcessDiscarding
    <3>3. task[s].item = i => Locked(i)
      BY <1>0, <2>1 DEF ProcessDiscarding, Withheld, Taken
    <3>4. task[s].item # i => editQueues'[i] = editQueues[i]
      BY <1>0, <2>1 DEF ProcessDiscarding, Withheld, Taken
    <3> QED BY <1>a, <3>1, <3>2, <3>3, <3>4 DEF Drains, Locked
  <2>2. CASE ProcessDiscardingExpired(s)
    <3> DEFINE j == task[s].item
    <3>1. PICK b \in FreeSlots \ {s} :
            /\ locks' = [locks EXCEPT ![j] = NoLock]
            /\ task' = [[task EXCEPT ![s] = At(@, "released")]
                        EXCEPT ![b] = CallAt("del", "background", j, NoUser, {})]
      BY <2>2 DEF ProcessDiscardingExpired
    <3>2. j # i
      BY <1>0, <2>2 DEF ProcessDiscardingExpired, Taken
    <3>3. locks'[i] = locks[i] /\ failures' = failures
          /\ editQueues'[i] = editQueues[i]
      <4> HIDE DEF j
      <4>1. editQueues' = [editQueues EXCEPT ![j] = <<>>] /\ failures' = failures
        BY <2>2 DEF ProcessDiscardingExpired, Taken, j
      <4> QED BY <1>0, <3>1, <3>2, <4>1
    <3>4. \A x \in Slots : x # s /\ x # b => task'[x] = task[x]
      BY <1>0, <3>1
    <3>5. \A x \in Slots : Drains(x, i) => Drains(x, i)'
      BY <3>2, <3>4 DEF Drains, FreeSlots
    <3> QED BY <1>a, <3>3, <3>5 DEF Locked
  <2>3. CASE TakeOver(s)
    <3>1. /\ task[s].pc \notin {"del", "deleted"} /\ BeginGrant(s, task[s].item, task[s].user)
          /\ task[s].item \in Items /\ task[s].user \in Users
          /\ failures' = failures /\ editQueues' = editQueues
      BY <1>0, <2>3 DEF TakeOver, CallShape, edits
    <3> QED BY <1>3, <3>1
  <2>4. CASE FinishGrant(s) \/ PassOverNext(s) \/ FinishRelease(s)
    <3>1. UNCHANGED <<locks, editQueues, failures>>
      BY <2>4 DEF FinishGrant, PassOverNext, FinishRelease, memory
    <3>2. task[s].pc \in {"released", "stored"} /\ \A x \in Slots : x # s => task'[x] = task[x]
      BY <1>0, <2>4 DEF FinishGrant, PassOverNext, FinishRelease
    <3>3. \A x \in Slots : Drains(x, i) => Drains(x, i)'
      BY <3>2 DEF Drains
    <3> QED BY <1>1, <3>1, <3>3 DEF Locked
  <2>5. CASE ReleaseNext(s)
    <3>1. PICK j \in task[s].rest :
            BeginRelease(s, j, task[s].kind, task[s].user, task[s].rest \ {j})
      BY <2>5 DEF ReleaseNext
    <3>2. /\ j \in Items /\ task[s].pc \notin {"del", "deleted"}
          /\ failures' = failures /\ editQueues' = editQueues
      BY <1>0, <2>5 DEF ReleaseNext, Task, edits
    <3> QED BY <1>2, <3>1, <3>2
  <2>6. CASE AnnounceRelease(s)
    <3>1. UNCHANGED <<locks, failures>>
      BY <2>6 DEF AnnounceRelease
    <3>2. task[s].pc = "released" /\ \A x \in Slots : x # s => task'[x] = task[x]
      BY <1>0, <2>6 DEF AnnounceRelease
    <3>3. editQueues'[i] = editQueues[i]
      BY <1>0, <2>6 DEF AnnounceRelease, HandOver, Taken
    <3>4. \A x \in Slots : Drains(x, i) => Drains(x, i)'
      BY <3>2 DEF Drains
    <3> QED BY <1>a, <3>1, <3>3, <3>4 DEF Locked
  <2>7. CASE AnnounceReleaseExpired(s)
    <3> DEFINE j == task[s].item
    <3>1. /\ BeginRelease(s, j, "background", NoUser, {}) /\ task[s].pc = "released"
          /\ editQueues' = Taken(j) /\ failures' = failures
      BY <2>7 DEF AnnounceReleaseExpired, HandOver
    <3>2. i # j /\ editQueues'[i] = editQueues[i]
      BY <1>0, <3>1 DEF Taken
    <3>3. locks'[i] = locks[i] /\ \A x \in Slots : x # s => task'[x] = task[x]
      BY <1>0, <3>1, <3>2 DEF BeginRelease
    <3>4. \A x \in Slots : Drains(x, i) => Drains(x, i)'
      BY <3>1, <3>3 DEF Drains
    <3> QED BY <1>a, <3>1, <3>2, <3>3, <3>4 DEF Locked
  <2> QED BY <1>9, <2>1, <2>2, <2>3, <2>4, <2>5, <2>6, <2>7 DEF Resume
<1>10. CASE UNCHANGED vars
  BY <1>1, <1>10 DEF vars, Locked, Drains
<1> QED BY <1>4, <1>5, <1>6, <1>7, <1>8, <1>9, <1>10 DEF Next

\* While Redis answers, no edit waits for an item that nobody holds and nobody
\* is releasing.
THEOREM QueuesDrained == Spec => []QueueHasDrainer
<1>1. Init => QueueHasDrainer
  BY DEF Init, QueueHasDrainer
<1>2. Spec => []Typing
  BY TypingInit, TypingStep, PTL DEF Spec
<1> QED BY <1>1, <1>2, QueueHasDrainerStep, PTL DEF Spec

(***************************************************************************)
(* What a step may do to the queues, and what a disconnect may release.    *)
(***************************************************************************)
LEMMA QueueTakenStep ==
  ASSUME Typing, [Next]_vars, NEW i \in Items,
         editQueues[i] # <<>>, editQueues'[i] = <<>>, failures' = failures
  PROVE  ~Live(i)
<1>0. editQueues \in [Items -> Seq(Edit)] /\ failures \in Nat /\ nextEdit \in Nat
  BY LockConstants DEF Typing, TypeOK
<1>1. editQueues' # editQueues
  OBVIOUS
<1>2. ~UNCHANGED vars
  BY <1>1 DEF vars
<1>3. ASSUME NEW c \in Clients, NEW j \in Items, NEW p \in Priorities
      PROVE  ~RequestDenied(c, j, p)
  <2> SUFFICES ASSUME RequestDenied(c, j, p) PROVE FALSE
    OBVIOUS
  <2> DEFINE e == NewEdit(UserOf[c], p)
  <2>1. e \in Edit
    BY <1>0, LockConstants DEF RequestDenied, NewEdit, Edit
  <2>2. editQueues' = [editQueues EXCEPT ![j] = Enqueue(@, e)]
    BY DEF RequestDenied
  <2> HIDE DEF e
  <2>3. Enqueue(editQueues[j], e) # <<>>
    BY <1>0, <2>1, EnqueueType
  <2> QED BY <1>0, <2>2, <2>3
<1>4. ~ClientStep
  BY <1>1, <1>3 DEF ClientStep, Connect, RegisterUser, JoinProject, LeaveProject, Disconnect,
                    RequestFree, RequestExpired, RequestRenewed, LockReleased, memory, edits
<1>5. /\ \A j \in Items : ~Expire(j)
      /\ ~CleanupTick /\ ~RedisReply /\ ~RedisError
  BY <1>1 DEF Expire, CleanupTick, RedisReply, RedisError, memory, edits
<1>6. ~RedisErrorEndsProcess
  BY <1>0 DEF RedisErrorEndsProcess
<1>7. PICK s \in Slots : Resume(s)
  BY <1>2, <1>4, <1>5, <1>6 DEF Next
<1>8. CASE ProcessDiscarding(s)
  BY <1>0, <1>1, <1>8 DEF ProcessDiscarding, Taken, Withheld, Live
<1>9. CASE ProcessDiscardingExpired(s)
  BY <1>0, <1>9 DEF ProcessDiscardingExpired, FindsExpired, Taken, Live
<1>10. CASE AnnounceRelease(s)
  BY <1>0, <1>1, <1>10 DEF AnnounceRelease, HandOver, Taken, Withheld, Live
<1>11. CASE AnnounceReleaseExpired(s)
  BY <1>0, <1>11 DEF AnnounceReleaseExpired, HandOver, FindsExpired, Taken, Live
<1>12. CASE TakeOver(s) \/ FinishGrant(s) \/ ReleaseNext(s) \/ PassOverNext(s) \/ FinishRelease(s)
  BY <1>1, <1>12 DEF TakeOver, FinishGrant, ReleaseNext, PassOverNext, FinishRelease, memory, edits
<1> QED BY <1>7, <1>8, <1>9, <1>10, <1>11, <1>12 DEF Resume

\* Edits leave a queue only while no live lock is on the item.
THEOREM QueueTakenSafely == Spec => QueueTakenWhenFree
<1>1. Typing /\ [Next]_vars =>
        [\A i \in Items : editQueues[i] # <<>> /\ editQueues'[i] = <<>> /\ failures' = failures
           => ~Live(i)]_vars
  BY QueueTakenStep
<1>2. Spec => []Typing
  BY TypingInit, TypingStep, PTL DEF Spec
<1> QED BY <1>1, <1>2, PTL DEF Spec, QueueTakenWhenFree

(***************************************************************************)
(* The edits in the queues: their order, and where each of them is.        *)
(***************************************************************************)

LEMMA EditNumbers == \A x \in Edit : x.priority \in Int /\ x.id \in Int
<1>1. Priorities \subseteq Int /\ 1..MaxEdits \subseteq Int
  BY LockConstants
<1>2. \A x \in Edit : x.priority \in Priorities /\ x.id \in 1..MaxEdits
  BY DEF Edit
<1> QED BY <1>1, <1>2

LEMMA InsertAtSplits ==
  ASSUME NEW q, NEW e, NEW i, NEW n, i - 1 = n
  PROVE  InsertAt(q, i, e) = SubSeq(q, 1, n) \o <<e>> \o SubSeq(q, i, Len(q))
BY DEF InsertAt

\* queueEdit: what comes before the insertion index stays, the rest moves up.
InsertedAt(r, q, e, n) ==
  /\ n \in 0..Len(q)
  /\ r \in Seq(Edit)
  /\ Len(r) = Len(q) + 1
  /\ \A k \in 1..n : r[k] = q[k]
  /\ r[n + 1] = e
  /\ \A k \in (n + 2)..(Len(q) + 1) : r[k] = q[k - 1]

LEMMA EnqueueAt ==
  ASSUME NEW q \in Seq(Edit), NEW e \in Edit,
         NEW n, n = Position(q, e.priority), NEW r, r = Enqueue(q, e)
  PROVE  InsertedAt(r, q, e, n)
<1>1. n \in 0..Len(q) /\ Len(q) \in Nat
  BY PositionInRange
<1> DEFINE a == SubSeq(q, 1, n)
           b == SubSeq(q, n + 1, Len(q))
           ae == a \o <<e>>
<1>2. /\ a \in Seq(Edit) /\ Len(a) = n
      /\ \A k \in 1..n : a[k] = q[k]
  BY <1>1, SubSeqProperties
<1>3. /\ b \in Seq(Edit) /\ Len(b) = Len(q) - n
      /\ \A k \in 1..(Len(q) - n) : b[k] = q[n + k]
  BY <1>1, SubSeqProperties
<1>4. r = ae \o b
  <2>1. PICK i : i = n + 1
    OBVIOUS
  <2>2. i - 1 = n
    BY <1>1, <2>1
  <2>3. r = InsertAt(q, i, e)
    BY <2>1, Zenon DEF Enqueue
  <2>4. InsertAt(q, i, e) = SubSeq(q, 1, n) \o <<e>> \o SubSeq(q, i, Len(q))
    BY <2>2, InsertAtSplits
  <2> QED BY <2>1, <2>3, <2>4
<1>5. <<e>> \in Seq(Edit) /\ Len(<<e>>) = 1 /\ <<e>>[1] = e
  OBVIOUS
<1> HIDE DEF a, b
<1>6. /\ ae \in Seq(Edit) /\ Len(ae) = n + 1
      /\ \A k \in 1..n : ae[k] = a[k]
      /\ ae[n + 1] = e
  BY <1>1, <1>2, <1>5, ConcatProperties
<1> HIDE DEF ae
<1>7. /\ ae \o b \in Seq(Edit) /\ Len(ae \o b) = Len(q) + 1
      /\ \A k \in 1..(n + 1) : (ae \o b)[k] = ae[k]
      /\ \A k \in (n + 2)..(Len(q) + 1) : (ae \o b)[k] = b[k - (n + 1)]
  BY <1>1, <1>3, <1>6, ConcatProperties
<1>8. \A k \in (n + 2)..(Len(q) + 1) : b[k - (n + 1)] = q[k - 1]
  <2> TAKE k \in (n + 2)..(Len(q) + 1)
  <2>1. k - (n + 1) \in 1..(Len(q) - n) /\ n + (k - (n + 1)) = k - 1
    BY <1>1
  <2> QED BY <1>3, <2>1
<1>9. r \in Seq(Edit) /\ Len(r) = Len(q) + 1
  BY <1>4, <1>7
<1>10. \A k \in 1..n : r[k] = q[k]
  <2> SUFFICES ASSUME NEW k \in 1..n PROVE r[k] = q[k]
    OBVIOUS
  <2>1. k \in 1..(n + 1)
    BY <1>1
  <2> QED BY <1>2, <1>4, <1>6, <1>7, <2>1
<1>11. r[n + 1] = e
  <2>1. n + 1 \in 1..(n + 1)
    BY <1>1
  <2> QED BY <1>4, <1>6, <1>7, <2>1
<1>12. \A k \in (n + 2)..(Len(q) + 1) : r[k] = q[k - 1]
  BY <1>4, <1>7, <1>8
<1> QED BY <1>1, <1>9, <1>10, <1>11, <1>12 DEF InsertedAt

\* Nothing of lower priority is before the insertion index, nothing of the
\* same or a higher one behind it.
Before(a, b) == a.priority > b.priority \/ (a.priority = b.priority /\ a.id < b.id)
Ordered(q)   == \A j, k \in DOMAIN q : j < k => Before(q[j], q[k])

LEMMA PositionSplits ==
  ASSUME NEW q \in Seq(Edit), Ordered(q), NEW p \in Int, NEW n, n = Position(q, p)
  PROVE  /\ \A k \in 1..n : q[k].priority >= p
         /\ \A k \in (n + 1)..Len(q) : q[k].priority < p
<1> DEFINE S == {k \in DOMAIN q : \A j \in 1..k : q[j].priority >= p}
<1>1. n \in 0..Len(q) /\ Len(q) \in Nat /\ DOMAIN q = 1..Len(q)
  BY PositionInRange
<1>2. \A k \in 1..Len(q) : q[k] \in Edit /\ q[k].priority \in Int
  <2>1. \A k \in 1..Len(q) : q[k] \in Edit
    BY <1>1, ElementOfSeq
  <2> QED BY <2>1, LockConstants DEF Edit
<1>3. S \subseteq 1..Len(q) /\ IsFiniteSet(S) /\ Cardinality(S) = n
  <2>1. S \subseteq 1..Len(q) /\ IsFiniteSet(1..Len(q))
    BY <1>1, FS_Interval
  <2> QED BY <2>1, FS_Subset DEF Position
<1>4. \A k \in S : 1..k \subseteq S
  <2> SUFFICES ASSUME NEW k \in S, NEW i \in 1..k PROVE i \in S
    OBVIOUS
  <2>1. k \in 1..Len(q) /\ \A j \in 1..k : q[j].priority >= p
    BY <1>1
  <2>2. i \in 1..Len(q) /\ \A j \in 1..i : j \in 1..k
    BY <1>1, <2>1
  <2> QED BY <1>1, <2>1, <2>2
<1>5. S \subseteq 1..n
  <2> SUFFICES ASSUME NEW k \in S PROVE k \in 1..n
    OBVIOUS
  <2>1. k \in Nat /\ k >= 1
    BY <1>1, <1>3
  <2>2. IsFiniteSet(1..k) /\ Cardinality(1..k) = k
    BY <2>1, FS_Interval
  <2>3. Cardinality(1..k) <= Cardinality(S)
    BY <1>3, <1>4, FS_Subset
  <2> QED BY <1>1, <1>3, <2>1, <2>2, <2>3
<1>6. S = 1..n
  <2>1. IsFiniteSet(1..n) /\ Cardinality(1..n) = n
    BY <1>1, FS_Interval
  <2> QED BY <1>3, <1>5, <2>1, FS_Subset
<1>7. \A k \in 1..n : q[k].priority >= p
  <2> SUFFICES ASSUME NEW k \in 1..n PROVE q[k].priority >= p
    OBVIOUS
  <2>1. k \in S /\ k \in 1..k
    BY <1>1, <1>6
  <2> QED BY <2>1
<1>8. ASSUME NEW k \in (n + 1)..Len(q)
      PROVE  q[k].priority < p
  <2>1. n + 1 \in DOMAIN q /\ n + 1 \notin S /\ n + 1 \in 1..Len(q) /\ k \in 1..Len(q)
    BY <1>1, <1>6
  <2>2. PICK j \in 1..(n + 1) : ~(q[j].priority >= p)
    BY <2>1
  <2>3. j = n + 1
    BY <1>1, <1>7, <2>2
  <2>4. q[n + 1].priority < p
    BY <1>2, <2>1, <2>2, <2>3
  <2>5. k = n + 1 \/ n + 1 < k
    BY <1>1
  <2>6. ASSUME n + 1 < k
        PROVE  q[n + 1].priority >= q[k].priority
    <3>1. Before(q[n + 1], q[k])
      BY <1>1, <2>1, <2>6 DEF Ordered
    <3>2. q[n + 1].priority \in Int /\ q[k].priority \in Int
      BY <1>2, <2>1
    <3> QED BY <3>1, <3>2 DEF Before
  <2> QED BY <1>2, <2>1, <2>4, <2>5, <2>6
<1> QED BY <1>7, <1>8

LEMMA EnqueueOrdered ==
  ASSUME NEW q \in Seq(Edit), Ordered(q), NEW e \in Edit,
         NEW n, n = Position(q, e.priority), NEW r, r = Enqueue(q, e),
         \A k \in DOMAIN q : q[k].id < e.id
  PROVE  Ordered(r)
<1>1. /\ n \in 0..Len(q)
      /\ r \in Seq(Edit)
      /\ Len(r) = Len(q) + 1
      /\ \A k \in 1..n : r[k] = q[k]
      /\ r[n + 1] = e
      /\ \A k \in (n + 2)..(Len(q) + 1) : r[k] = q[k - 1]
  <2>1. InsertedAt(r, q, e, n)
    BY EnqueueAt
  <2> QED BY <2>1 DEF InsertedAt
<1>2. Len(q) \in Nat /\ DOMAIN q = 1..Len(q) /\ DOMAIN r = 1..(Len(q) + 1)
  BY <1>1
<1>3. \A k \in 1..Len(q) : q[k].priority \in Int /\ q[k].id \in Int /\ q[k].id < e.id
  <2>1. \A k \in 1..Len(q) : q[k] \in Edit
    BY <1>2, ElementOfSeq
  <2>2. \A x \in Edit : x.priority \in Int /\ x.id \in Int
    BY EditNumbers
  <2> QED BY <1>2, <2>1, <2>2
<1>4. e.priority \in Int /\ e.id \in Int
  BY EditNumbers
<1>5. /\ \A k \in 1..n : q[k].priority >= e.priority
      /\ \A k \in (n + 1)..Len(q) : q[k].priority < e.priority
  BY <1>4, PositionSplits
<1>6. \A j, k \in 1..Len(q) : j < k => Before(q[j], q[k])
  BY <1>2 DEF Ordered
<1>7. ASSUME NEW j \in 1..(Len(q) + 1), NEW k \in 1..(Len(q) + 1), j < k
      PROVE  Before(r[j], r[k])
  <2>1. CASE k <= n
    <3>1. j \in 1..n /\ k \in 1..n /\ j \in 1..Len(q) /\ k \in 1..Len(q)
      BY <1>1, <1>2, <1>7, <2>1
    <3>2. r[j] = q[j] /\ r[k] = q[k]
      BY <1>1, <3>1
    <3> QED BY <1>6, <1>7, <3>1, <3>2
  <2>2. CASE k = n + 1
    <3>1. j \in 1..n /\ j \in 1..Len(q)
      BY <1>1, <1>2, <1>7, <2>2
    <3>2. r[j] = q[j] /\ r[k] = e
      BY <1>1, <2>2, <3>1
    <3>3. q[j].priority \in Int /\ q[j].priority >= e.priority /\ q[j].id < e.id
      BY <1>3, <1>5, <3>1
    <3> QED BY <1>4, <3>2, <3>3 DEF Before
  <2>3. CASE k > n + 1 /\ j <= n
    <3>1. j \in 1..n /\ j \in 1..Len(q) /\ k \in (n + 2)..(Len(q) + 1) /\ k - 1 \in 1..Len(q) /\ j < k - 1
      BY <1>1, <1>2, <1>7, <2>3
    <3> QED BY <1>1, <1>6, <3>1
  <2>4. CASE k > n + 1 /\ j = n + 1
    <3>1. k \in (n + 2)..(Len(q) + 1) /\ k - 1 \in (n + 1)..Len(q) /\ k - 1 \in 1..Len(q)
      BY <1>1, <1>2, <1>7, <2>4
    <3>2. r[j] = e /\ r[k] = q[k - 1]
      BY <1>1, <2>4, <3>1
    <3>3. q[k - 1].priority \in Int /\ q[k - 1].priority < e.priority
      BY <1>3, <1>5, <3>1
    <3> QED BY <1>4, <3>2, <3>3 DEF Before
  <2>5. CASE j > n + 1
    <3>1. /\ j \in (n + 2)..(Len(q) + 1) /\ k \in (n + 2)..(Len(q) + 1)
          /\ j - 1 \in 1..Len(q) /\ k - 1 \in 1..Len(q) /\ j - 1 < k - 1
      BY <1>1, <1>2, <1>7, <2>5
    <3> QED BY <1>1, <1>6, <3>1
  <2> QED BY <1>1, <1>2, <1>7, <2>1, <2>2, <2>3, <2>4, <2>5
<1>8. Ordered(r)
  BY <1>2, <1>7 DEF Ordered
<1> QED BY <1>8

LEMMA EnqueueIds ==
  ASSUME NEW q \in Seq(Edit), NEW e \in Edit,
         NEW n, n = Position(q, e.priority), NEW r, r = Enqueue(q, e)
  PROVE  Ids(r) = Ids(q) \cup {e.id} /\ Len(r) = Len(q) + 1
<1>1. /\ n \in 0..Len(q)
      /\ r \in Seq(Edit)
      /\ Len(r) = Len(q) + 1
      /\ \A k \in 1..n : r[k] = q[k]
      /\ r[n + 1] = e
      /\ \A k \in (n + 2)..(Len(q) + 1) : r[k] = q[k - 1]
  <2>1. InsertedAt(r, q, e, n)
    BY EnqueueAt
  <2> QED BY <2>1 DEF InsertedAt
<1>2. Len(q) \in Nat /\ DOMAIN q = 1..Len(q) /\ DOMAIN r = 1..(Len(q) + 1)
  BY <1>1
<1>3. ASSUME NEW k \in 1..(Len(q) + 1)
      PROVE  r[k].id \in Ids(q) \cup {e.id}
  <2>1. CASE k \in 1..n
    <3>1. r[k] = q[k] /\ k \in DOMAIN q
      BY <1>1, <1>2, <2>1
    <3> QED BY <3>1 DEF Ids
  <2>2. CASE k = n + 1
    BY <1>1, <2>2
  <2>3. CASE k \in (n + 2)..(Len(q) + 1)
    <3>1. k - 1 \in 1..Len(q)
      BY <1>1, <1>2, <2>3
    <3> QED BY <1>1, <1>2, <2>3, <3>1 DEF Ids
  <2> QED BY <1>1, <1>2, <2>1, <2>2, <2>3
<1>4. ASSUME NEW k \in 1..Len(q)
      PROVE  \E j \in 1..(Len(q) + 1) : r[j] = q[k]
  <2>1. CASE k <= n
    BY <1>1, <1>2, <2>1
  <2>2. CASE k > n
    <3>1. k + 1 \in (n + 2)..(Len(q) + 1) /\ (k + 1) - 1 = k /\ k + 1 \in 1..(Len(q) + 1)
      BY <1>1, <1>2, <2>2
    <3> QED BY <1>1, <3>1
  <2> QED BY <1>1, <1>2, <2>1, <2>2
<1>5. n + 1 \in 1..(Len(q) + 1)
  BY <1>1, <1>2
<1>6. Ids(r) = Ids(q) \cup {e.id}
  <2>1. Ids(r) \subseteq Ids(q) \cup {e.id}
    BY <1>2, <1>3 DEF Ids
  <2>2. Ids(q) \subseteq Ids(r)
    BY <1>2, <1>4 DEF Ids
  <2>3. e.id \in Ids(r)
    BY <1>1, <1>2, <1>5 DEF Ids
  <2> QED BY <2>1, <2>2, <2>3
<1> QED BY <1>1, <1>6


\* What a step does to the edits: nothing; a new edit is queued; a queue is
\* taken, and what is not handed to its author is dropped; or the process ends
\* and every queue with it.
Queues(i, u, p) ==
  /\ nextEdit < MaxEdits
  /\ nextEdit' = nextEdit + 1
  /\ editQueues' = [editQueues EXCEPT ![i] = Enqueue(@, NewEdit(u, p))]
  /\ UNCHANGED <<handed, dropped>>
Takes(i, sent) ==
  /\ editQueues' = [editQueues EXCEPT ![i] = <<>>]
  /\ handed' = handed \cup sent
  /\ dropped' = dropped \cup (Ids(editQueues[i]) \ sent)
  /\ UNCHANGED nextEdit
LosesAll ==
  /\ editQueues' = [i \in Items |-> <<>>]
  /\ dropped' = dropped \cup UNION {Ids(editQueues[i]) : i \in Items}
  /\ UNCHANGED <<handed, nextEdit>>

LEMMA HandOverTakes ==
  ASSUME NEW i \in Items, HandOver(i), UNCHANGED nextEdit
  PROVE  \E sent \in SUBSET Ids(editQueues[i]) : Takes(i, sent)
<1> DEFINE reached == {k \in DOMAIN editQueues[i] : Reachable(editQueues[i][k].author)}
           sent    == {editQueues[i][k].id : k \in reached}
<1>1. sent \subseteq Ids(editQueues[i])
  BY DEF Ids
<1>2. Takes(i, sent)
  BY DEF HandOver, Takes, Taken
<1> HIDE DEF sent
<1> QED BY <1>1, <1>2

LEMMA ResumeOnEdits ==
  ASSUME Typing, NEW s \in Slots, Resume(s)
  PROVE  \/ UNCHANGED edits
         \/ \E i \in Items : \E sent \in SUBSET Ids(editQueues[i]) : Takes(i, sent)
<1>1. task[s] \in Task /\ CallShape(task[s])
  BY DEF Typing, TypeOK
<1>2. CASE TakeOver(s) \/ FinishGrant(s) \/ ReleaseNext(s) \/ PassOverNext(s) \/ FinishRelease(s)
  BY <1>2 DEF TakeOver, FinishGrant, ReleaseNext, PassOverNext, FinishRelease, memory, edits
<1>3. ASSUME NEW i \in Items, editQueues' = Taken(i), UNCHANGED <<nextEdit, handed>>,
             dropped' = dropped \cup Ids(editQueues[i])
      PROVE  \E j \in Items : \E sent \in SUBSET Ids(editQueues[j]) : Takes(j, sent)
  <2>1. Takes(i, {})
    BY <1>3 DEF Takes, Taken
  <2> QED BY <2>1
<1>4. CASE ProcessDiscarding(s)
  <2>1. task[s].item \in Items
    BY <1>1, <1>4 DEF ProcessDiscarding, CallShape
  <2> QED BY <1>3, <1>4, <2>1 DEF ProcessDiscarding, edits
<1>5. CASE ProcessDiscardingExpired(s)
  <2>1. task[s].item \in Items
    BY <1>1, <1>5 DEF ProcessDiscardingExpired, CallShape
  <2> QED BY <1>3, <1>5, <2>1 DEF ProcessDiscardingExpired
<1>6. CASE AnnounceRelease(s)
  <2>1. task[s].item \in Items
    BY <1>1, <1>6 DEF AnnounceRelease, CallShape
  <2> QED BY <1>6, <2>1, HandOverTakes DEF AnnounceRelease, edits
<1>7. CASE AnnounceReleaseExpired(s)
  <2>1. task[s].item \in Items
    BY <1>1, <1>7 DEF AnnounceReleaseExpired, CallShape
  <2> QED BY <1>7, <2>1, HandOverTakes DEF AnnounceReleaseExpired
<1> QED BY <1>2, <1>4, <1>5, <1>6, <1>7 DEF Resume

LEMMA StepOnEdits ==
  ASSUME Typing, [Next]_vars
  PROVE  \/ UNCHANGED edits
         \/ \E i \in Items, u \in Users, p \in Priorities : Queues(i, u, p)
         \/ \E i \in Items : \E sent \in SUBSET Ids(editQueues[i]) : Takes(i, sent)
         \/ LosesAll
<1>1. ASSUME NEW c \in Clients, NEW i \in Items, NEW p \in Priorities, RequestDenied(c, i, p)
      PROVE  Queues(i, UserOf[c], p) /\ UserOf[c] \in Users
  BY <1>1, LockConstants DEF RequestDenied, Queues
<1>2. ASSUME NEW c \in Clients,
             \/ Connect(c) \/ RegisterUser(c) \/ JoinProject(c) \/ LeaveProject(c) \/ Disconnect(c)
             \/ \E i \in Items : \/ RequestFree(c, i) \/ RequestExpired(c, i)
                                 \/ RequestRenewed(c, i) \/ LockReleased(c, i)
      PROVE  UNCHANGED edits
  BY <1>2 DEF Connect, RegisterUser, JoinProject, LeaveProject, Disconnect, RequestFree,
              RequestExpired, RequestRenewed, LockReleased, memory, edits
<1>3. CASE ClientStep
  BY <1>1, <1>2, <1>3 DEF ClientStep
<1>4. ASSUME \/ \E i \in Items : Expire(i)
             \/ CleanupTick \/ RedisReply \/ RedisError \/ UNCHANGED vars
      PROVE  UNCHANGED edits
  BY <1>4 DEF Expire, CleanupTick, RedisReply, RedisError, memory, edits, vars
<1>5. CASE RedisErrorEndsProcess
  BY <1>5 DEF RedisErrorEndsProcess, LosesAll
<1>6. ASSUME NEW s \in Slots, Resume(s)
      PROVE  \/ UNCHANGED edits
             \/ \E i \in Items : \E sent \in SUBSET Ids(editQueues[i]) : Takes(i, sent)
  BY <1>6, ResumeOnEdits
<1> QED BY <1>3, <1>4, <1>5, <1>6 DEF Next

\* An edit is in one queue only: no other has its id.
QueuesApart ==
  \A i, k \in Items : i # k => Ids(editQueues[i]) \cap Ids(editQueues[k]) = {}

Accounted == EditsAccountedFor /\ QueuesApart

LEMMA IdsFinite ==
  ASSUME NEW q \in Seq(Edit)
  PROVE  IsFiniteSet(Ids(q))
<1>1. Ids(q) \subseteq 1..MaxEdits
  BY IdsType
<1>2. IsFiniteSet(1..MaxEdits)
  BY FS_Interval, LockConstants
<1> QED BY <1>1, <1>2, FS_Subset

LEMMA NoIds == Ids(<<>>) = {} /\ Cardinality(Ids(<<>>)) = Len(<<>>)
<1>1. Ids(<<>>) = {}
  BY DEF Ids
<1> QED BY <1>1, FS_EmptySet

LEMMA AccountedStep == Typing /\ Accounted /\ [Next]_vars => Accounted'
<1> SUFFICES ASSUME Typing, Accounted, [Next]_vars PROVE Accounted'
  OBVIOUS
<1>0. editQueues \in [Items -> Seq(Edit)] /\ nextEdit \in Nat
  BY LockConstants DEF Typing, TypeOK
<1> DEFINE D(i) == Ids(editQueues[i])
<1>1. /\ handed \cap dropped = {}
      /\ \A i \in Items : D(i) \cap (handed \cup dropped) = {}
      /\ \A i \in Items : Cardinality(D(i)) = Len(editQueues[i])
      /\ 1..nextEdit = handed \cup dropped \cup UNION {D(i) : i \in Items}
      /\ \A i, k \in Items : i # k => D(i) \cap D(k) = {}
  BY DEF Accounted, EditsAccountedFor, QueuesApart
<1>2. CASE UNCHANGED edits
  BY <1>2 DEF edits, Accounted, EditsAccountedFor, QueuesApart
<1>3. ASSUME NEW i \in Items, NEW u \in Users, NEW p \in Priorities, Queues(i, u, p)
      PROVE  Accounted'
  <2> DEFINE e == NewEdit(u, p)
             q == editQueues[i]
             new == nextEdit + 1
  <2>1. e \in Edit /\ e.id = new
    BY <1>0, <1>3, LockConstants DEF Queues, NewEdit, Edit
  <2> HIDE DEF e
  <2>2. Ids(Enqueue(q, e)) = D(i) \cup {new} /\ Len(Enqueue(q, e)) = Len(q) + 1
    BY <1>0, <2>1, EnqueueIds
  <2>3. /\ D(i)' = D(i) \cup {new}
        /\ Len(editQueues'[i]) = Len(editQueues[i]) + 1
        /\ \A k \in Items : k # i => D(k)' = D(k) /\ editQueues'[k] = editQueues[k]
    BY <1>0, <1>3, <2>2 DEF Queues, e
  <2>4. handed' = handed /\ dropped' = dropped /\ nextEdit' = nextEdit + 1
    BY <1>3 DEF Queues
  <2>5. new \notin 1..nextEdit /\ 1..nextEdit' = (1..nextEdit) \cup {new}
    BY <1>0, <2>4
  <2>6. new \notin handed \cup dropped /\ \A k \in Items : new \notin D(k)
    BY <1>1, <2>5
  <2>7. Cardinality(D(i)') = Len(editQueues'[i])
    BY <1>0, <1>1, <2>3, <2>6, IdsFinite, FS_AddElement
  <2> HIDE DEF D, new
  <2>8. UNION {D(k)' : k \in Items} = (UNION {D(k) : k \in Items}) \cup {new}
    BY <2>3
  <2>9. /\ handed' \cap dropped' = {}
        /\ \A k \in Items : D(k)' \cap (handed' \cup dropped') = {}
        /\ \A k \in Items : Cardinality(D(k)') = Len(editQueues'[k])
        /\ 1..nextEdit' = handed' \cup dropped' \cup UNION {D(k)' : k \in Items}
        /\ \A k, j \in Items : k # j => D(k)' \cap D(j)' = {}
    <3>1. handed' \cap dropped' = {} /\ \A k \in Items : D(k)' \cap (handed' \cup dropped') = {}
      BY <1>1, <2>3, <2>4, <2>6
    <3>2. \A k \in Items : Cardinality(D(k)') = Len(editQueues'[k])
      BY <1>1, <2>3, <2>7
    <3>3. 1..nextEdit' = handed' \cup dropped' \cup UNION {D(k)' : k \in Items}
      BY <1>1, <2>4, <2>5, <2>8
    <3>4. \A k, j \in Items : k # j => D(k)' \cap D(j)' = {}
      BY <1>1, <2>3, <2>6
    <3> QED BY <3>1, <3>2, <3>3, <3>4
  <2> QED BY <2>9 DEF D, Accounted, EditsAccountedFor, QueuesApart
<1>4. ASSUME NEW i \in Items, NEW sent \in SUBSET D(i), Takes(i, sent)
      PROVE  Accounted'
  <2>1. /\ D(i)' = {} /\ Cardinality(D(i)') = Len(editQueues'[i])
        /\ \A k \in Items : k # i => D(k)' = D(k) /\ editQueues'[k] = editQueues[k]
    BY <1>0, <1>4, NoIds DEF Takes
  <2>2. /\ handed' = handed \cup sent /\ dropped' = dropped \cup (D(i) \ sent)
        /\ nextEdit' = nextEdit
    BY <1>4 DEF Takes
  <2> HIDE DEF D
  <2>3. handed' \cap dropped' = {}
    BY <1>1, <2>2
  <2>4. \A k \in Items : D(k)' \cap (handed' \cup dropped') = {}
    BY <1>1, <2>1, <2>2
  <2>5. \A k \in Items : Cardinality(D(k)') = Len(editQueues'[k])
    BY <1>1, <2>1
  <2>6. UNION {D(k) : k \in Items} = D(i) \cup UNION {D(k)' : k \in Items}
    BY <2>1
  <2>7. 1..nextEdit' = handed' \cup dropped' \cup UNION {D(k)' : k \in Items}
    BY <1>1, <2>2, <2>6
  <2>8. \A k, j \in Items : k # j => D(k)' \cap D(j)' = {}
    BY <1>1, <2>1
  <2> QED BY <2>3, <2>4, <2>5, <2>7, <2>8 DEF D, Accounted, EditsAccountedFor, QueuesApart
<1>5. CASE LosesAll
  <2>1. \A k \in Items : D(k)' = {} /\ Cardinality(D(k)') = Len(editQueues'[k])
    BY <1>5, NoIds DEF LosesAll
  <2>2. handed' = handed /\ dropped' = dropped \cup UNION {D(k) : k \in Items} /\ nextEdit' = nextEdit
    BY <1>5 DEF LosesAll
  <2> HIDE DEF D
  <2>3. handed' \cap dropped' = {}
    BY <1>1, <2>2
  <2>4. UNION {D(k)' : k \in Items} = {}
    BY <2>1
  <2>5. 1..nextEdit' = handed' \cup dropped' \cup UNION {D(k)' : k \in Items}
    BY <1>1, <2>2, <2>4
  <2> QED BY <2>1, <2>3, <2>5 DEF D, Accounted, EditsAccountedFor, QueuesApart
<1> QED BY <1>2, <1>3, <1>4, <1>5, StepOnEdits

LEMMA AccountedInit == Init => Accounted
<1> SUFFICES ASSUME Init PROVE Accounted
  OBVIOUS
<1>1. /\ handed = {} /\ dropped = {} /\ 1..nextEdit = {}
      /\ \A i \in Items : Ids(editQueues[i]) = {} /\ Cardinality(Ids(editQueues[i])) = Len(editQueues[i])
  BY NoIds DEF Init
<1> QED BY <1>1 DEF Accounted, EditsAccountedFor, QueuesApart

LEMMA OrderedStep == Typing /\ Accounted /\ QueueOrdered /\ [Next]_vars => QueueOrdered'
<1> SUFFICES ASSUME Typing, Accounted, QueueOrdered, [Next]_vars PROVE QueueOrdered'
  OBVIOUS
<1>0. editQueues \in [Items -> Seq(Edit)] /\ nextEdit \in Nat
  BY LockConstants DEF Typing, TypeOK
<1>1. QueueOrdered <=> \A i \in Items : Ordered(editQueues[i])
  BY DEF QueueOrdered, Ordered, Before
<1>2. (\A i \in Items : Ordered(editQueues'[i])) => QueueOrdered'
  BY DEF QueueOrdered, Ordered, Before
<1>3. Ordered(<<>>)
  BY DEF Ordered
<1>4. CASE UNCHANGED edits
  BY <1>1, <1>2, <1>4 DEF edits
<1>5. ASSUME NEW i \in Items, NEW u \in Users, NEW p \in Priorities, Queues(i, u, p)
      PROVE  QueueOrdered'
  <2> DEFINE e == NewEdit(u, p)
             q == editQueues[i]
  <2>1. e \in Edit /\ e.id = nextEdit + 1
    BY <1>0, <1>5, LockConstants DEF Queues, NewEdit, Edit
  <2>2. \A k \in DOMAIN q : q[k].id < e.id
    <3>1. Ids(q) \subseteq 1..nextEdit
      BY DEF Accounted, EditsAccountedFor
    <3>2. \A k \in DOMAIN q : q[k].id \in 1..nextEdit
      BY <3>1 DEF Ids
    <3> QED BY <1>0, <2>1, <3>2
  <2> HIDE DEF e
  <2>3. Ordered(Enqueue(q, e))
    BY <1>0, <1>1, <2>1, <2>2, EnqueueOrdered
  <2>4. \A k \in Items : editQueues'[k] = IF k = i THEN Enqueue(q, e) ELSE editQueues[k]
    BY <1>0, <1>5 DEF Queues, e
  <2> QED BY <1>1, <1>2, <2>3, <2>4
<1>6. ASSUME NEW i \in Items, NEW sent, Takes(i, sent)
      PROVE  QueueOrdered'
  <2>1. \A k \in Items : editQueues'[k] = IF k = i THEN <<>> ELSE editQueues[k]
    BY <1>0, <1>6 DEF Takes
  <2> QED BY <1>1, <1>2, <1>3, <2>1
<1>7. CASE LosesAll
  BY <1>2, <1>3, <1>7 DEF LosesAll
<1> QED BY <1>4, <1>5, <1>6, <1>7, StepOnEdits

\* Every edit that queueEdit accepted waits in one queue, or was handed to its
\* author, or was dropped, and never two of these: the two passes that a release
\* makes over a queue process no edit twice.
THEOREM EditsKept == Spec => []EditsAccountedFor
<1>1. Spec => []Typing
  BY TypingInit, TypingStep, PTL DEF Spec
<1>2. Spec => []Accounted
  BY <1>1, AccountedInit, AccountedStep, PTL DEF Spec
<1>3. Accounted => EditsAccountedFor
  BY DEF Accounted
<1> QED BY <1>2, <1>3, PTL

\* The queue of an item is in order of priority, and of arrival within one.
THEOREM QueuesInOrder == Spec => []QueueOrdered
<1>1. Spec => []Typing
  BY TypingInit, TypingStep, PTL DEF Spec
<1>2. Spec => []Accounted
  BY <1>1, AccountedInit, AccountedStep, PTL DEF Spec
<1>3. Init => QueueOrdered
  BY DEF Init, QueueOrdered
<1> QED BY <1>1, <1>2, <1>3, OrderedStep, PTL DEF Spec

(***************************************************************************)
(* MirrorAgrees.  The last command in flight for an item, if there is one, *)
(* writes the user that holds it; otherwise its key has that user.         *)
(***************************************************************************)
For(t, p, k, i)     == t[p[k]].item = i
LastFor(t, p, k, i) == For(t, p, k, i) /\ \A j \in DOMAIN p : For(t, p, j, i) => j <= k
Writes(c)           == IF c.pc = "set" THEN c.user ELSE NoUser
Mirrors(l, r, p, t, i) ==
  \/ (\A k \in DOMAIN p : ~For(t, p, k, i)) /\ l[i].user = r[i]
  \/ \E k \in DOMAIN p : LastFor(t, p, k, i) /\ l[i].user = Writes(t[p[k]])
Mirror == \A i \in Items : Mirrors(locks, redis, pipe, task, i)

\* The calls that wait for Redis go on waiting, and no lock changes hands.
KeepsWaiting == \A k \in DOMAIN pipe : task'[pipe[k]] = task[pipe[k]]
KeepsOwners  == \A i \in Items : locks'[i].user = locks[i].user

LEMMA MirrorKept ==
  ASSUME Mirror, KeepsWaiting, KeepsOwners, UNCHANGED <<pipe, redis>>
  PROVE  Mirror'
<1> SUFFICES ASSUME NEW i \in Items PROVE Mirrors(locks', redis', pipe', task', i)
  BY DEF Mirror
<1>1. \A k \in DOMAIN pipe :
         /\ For(task', pipe', k, i) = For(task, pipe, k, i)
         /\ Writes(task'[pipe[k]]) = Writes(task[pipe[k]])
  BY DEF KeepsWaiting, For, Writes
<1>2. DOMAIN pipe' = DOMAIN pipe /\ locks'[i].user = locks[i].user /\ redis'[i] = redis[i]
  BY DEF KeepsOwners
<1>3. \A k \in DOMAIN pipe : LastFor(task', pipe', k, i) <=> LastFor(task, pipe, k, i)
  BY <1>1, <1>2 DEF LastFor
<1>4. Mirrors(locks, redis, pipe, task, i)
  BY DEF Mirror
<1> QED BY <1>1, <1>2, <1>3, <1>4 DEF Mirrors

\* The call in slot s sends the command that writes the new holder of item i.
Sends(s, i) ==
  /\ pipe' = Append(pipe, s)
  /\ task'[s].item = i
  /\ locks'[i].user = Writes(task'[s])
  /\ \A j \in Items : j # i => locks'[j].user = locks[j].user

LEMMA MirrorSent ==
  ASSUME Mirror, pipe \in Seq(Slots), KeepsWaiting, UNCHANGED redis,
         NEW s \in Slots, NEW i \in Items, Sends(s, i)
  PROVE  Mirror'
<1> DEFINE n == Len(pipe) + 1
<1>1. /\ Len(pipe) \in Nat /\ DOMAIN pipe = 1..Len(pipe) /\ DOMAIN pipe' = 1..n
      /\ pipe'[n] = s
      /\ \A k \in DOMAIN pipe : pipe'[k] = pipe[k]
  BY DEF Sends
<1>2. \A j \in Items : \A k \in DOMAIN pipe :
        For(task', pipe', k, j) = For(task, pipe, k, j) /\ Writes(task'[pipe'[k]]) = Writes(task[pipe[k]])
  BY <1>1 DEF KeepsWaiting, For, Writes
<1>3. \A j \in Items : For(task', pipe', n, j) <=> i = j
  BY <1>1 DEF Sends, For
<1>4. n \in DOMAIN pipe' /\ \A k \in DOMAIN pipe' : k <= n /\ (k # n => k \in DOMAIN pipe)
  BY <1>1
<1>5. Mirrors(locks', redis', pipe', task', i)
  <2>1. LastFor(task', pipe', n, i)
    BY <1>3, <1>4 DEF LastFor
  <2>2. locks'[i].user = Writes(task'[pipe'[n]])
    BY <1>1 DEF Sends, Writes
  <2> QED BY <1>4, <2>1, <2>2 DEF Mirrors
<1>6. ASSUME NEW j \in Items, j # i
      PROVE  Mirrors(locks', redis', pipe', task', j)
  <2>1. locks'[j].user = locks[j].user /\ redis'[j] = redis[j] /\ Mirrors(locks, redis, pipe, task, j)
    BY <1>6 DEF Sends, Mirror
  <2>2. CASE (\A k \in DOMAIN pipe : ~For(task, pipe, k, j)) /\ locks[j].user = redis[j]
    <3>1. \A k \in DOMAIN pipe' : ~For(task', pipe', k, j)
      BY <1>2, <1>3, <1>4, <1>6, <2>2
    <3> QED BY <2>1, <2>2, <3>1 DEF Mirrors
  <2>3. ASSUME NEW k \in DOMAIN pipe, LastFor(task, pipe, k, j), locks[j].user = Writes(task[pipe[k]])
        PROVE  Mirrors(locks', redis', pipe', task', j)
    <3>1. k \in DOMAIN pipe' /\ LastFor(task', pipe', k, j)
      BY <1>1, <1>2, <1>3, <1>4, <1>6, <2>3 DEF LastFor
    <3> QED BY <1>2, <2>1, <2>3, <3>1 DEF Mirrors
  <2> QED BY <2>1, <2>2, <2>3 DEF Mirrors
<1> QED BY <1>5, <1>6 DEF Mirror

\* Redis answers: the command of the head of the pipe is executed.
LEMMA MirrorAnswered ==
  ASSUME Typing, Mirror, RedisReply
  PROVE  Mirror'
<1> DEFINE h == Head(pipe)
<1>1. /\ pipe \in Seq(Slots) /\ Len(pipe) \in Nat /\ DOMAIN pipe = 1..Len(pipe)
      /\ 1 \in DOMAIN pipe /\ h = pipe[1] /\ h \in Slots
      /\ DOMAIN pipe' = 1..(Len(pipe) - 1)
      /\ \A k \in DOMAIN pipe' : k + 1 \in DOMAIN pipe /\ pipe'[k] = pipe[k + 1]
      /\ \A k \in DOMAIN pipe : k = 1 \/ k - 1 \in DOMAIN pipe'
  BY DEF Typing, TypeOK, RedisReply
<1>2. \A k \in DOMAIN pipe : k # 1 => pipe[k] # h
  BY <1>1 DEF Typing, PipeMatchesCalls
<1>3. /\ task'[h].item = task[h].item
      /\ \A s \in Slots : s # h => task'[s] = task[s]
  <2>1. task' = [task EXCEPT ![h] = Answered(task[h])]
    BY <1>1 DEF RedisReply, Typing, TypeOK
  <2> QED BY <1>1, <2>1 DEF Typing, TypeOK, Answered, At, CallAt
<1>4. /\ task[h].item \in Items
      /\ \A i \in Items : redis'[i] = IF i = task[h].item THEN Writes(task[h]) ELSE redis[i]
      /\ locks' = locks
  <2>1. task[h].pc \in {"del", "set"}
    BY <1>1 DEF Typing, PipeMatchesCalls
  <2>2. task[h].item \in Items
    BY <1>1, <2>1 DEF Typing, TypeOK, CallShape
  <2> QED BY <2>2 DEF Typing, TypeOK, RedisReply, Written, Writes, memory
<1> HIDE DEF h
<1>5. \A i \in Items : \A k \in DOMAIN pipe' :
        For(task', pipe', k, i) = For(task, pipe, k + 1, i) /\ Writes(task'[pipe'[k]]) = Writes(task[pipe[k + 1]])
  <2> TAKE i \in Items
  <2> TAKE k \in DOMAIN pipe'
  <2>1. pipe'[k] = pipe[k + 1] /\ pipe[k + 1] # h /\ pipe[k + 1] \in Slots
    BY <1>1, <1>2
  <2>2. task'[pipe[k + 1]] = task[pipe[k + 1]]
    BY <1>3, <2>1
  <2> QED BY <2>1, <2>2 DEF For, Writes
<1> SUFFICES ASSUME NEW i \in Items PROVE Mirrors(locks', redis', pipe', task', i)
  BY DEF Mirror
<1>6. Mirrors(locks, redis, pipe, task, i)
  BY DEF Mirror
<1>7. CASE (\A k \in DOMAIN pipe : ~For(task, pipe, k, i)) /\ locks[i].user = redis[i]
  <2>1. \A k \in DOMAIN pipe' : ~For(task', pipe', k, i)
    BY <1>1, <1>5, <1>7
  <2>2. redis'[i] = redis[i]
    BY <1>1, <1>4, <1>7 DEF For
  <2> QED BY <1>4, <1>7, <2>1, <2>2 DEF Mirrors
<1>8. CASE LastFor(task, pipe, 1, i) /\ locks[i].user = Writes(task[pipe[1]])
  <2>1. \A k \in DOMAIN pipe' : ~For(task', pipe', k, i)
    <3> TAKE k \in DOMAIN pipe'
    <3>1. k + 1 \in DOMAIN pipe /\ ~(k + 1 <= 1)
      BY <1>1
    <3> QED BY <1>5, <1>8, <3>1 DEF LastFor
  <2>2. redis'[i] = Writes(task[pipe[1]])
    BY <1>1, <1>4, <1>8 DEF LastFor, For
  <2> QED BY <1>4, <1>8, <2>1, <2>2 DEF Mirrors
<1>9. ASSUME NEW k \in DOMAIN pipe, k # 1, LastFor(task, pipe, k, i), locks[i].user = Writes(task[pipe[k]])
      PROVE  Mirrors(locks', redis', pipe', task', i)
  <2>1. k - 1 \in DOMAIN pipe' /\ (k - 1) + 1 = k
    BY <1>1, <1>9
  <2>2. PICK m : m = k - 1
    OBVIOUS
  <2>3. m \in DOMAIN pipe' /\ m + 1 = k
    BY <2>1, <2>2
  <2>4. LastFor(task', pipe', m, i)
    <3>1. For(task', pipe', m, i)
      BY <1>5, <1>9, <2>3 DEF LastFor
    <3>2. ASSUME NEW j \in DOMAIN pipe', For(task', pipe', j, i)
          PROVE  j <= m
      <4>1. j + 1 \in DOMAIN pipe /\ For(task, pipe, j + 1, i)
        BY <1>1, <1>5, <3>2
      <4>2. j + 1 <= m + 1
        BY <1>9, <2>3, <4>1 DEF LastFor
      <4> QED BY <1>1, <2>3, <4>2
    <3> QED BY <3>1, <3>2 DEF LastFor
  <2>5. locks'[i].user = Writes(task'[pipe'[m]])
    BY <1>4, <1>5, <1>9, <2>3
  <2> QED BY <2>3, <2>4, <2>5 DEF Mirrors
<1> QED BY <1>6, <1>7, <1>8, <1>9 DEF Mirrors

\* A call in a slot that does not wait may do what it likes with its slot.
LEMMA NotWaiting ==
  ASSUME Typing, NEW s \in Slots, task[s].pc \notin {"del", "set"}
  PROVE  /\ \A k \in DOMAIN pipe : pipe[k] # s /\ pipe[k] \in Slots
         /\ \A t : task' = [task EXCEPT ![s] = t] => KeepsWaiting /\ task'[s] = t
<1>1. pipe \in Seq(Slots) /\ task \in [Slots -> Task]
  BY DEF Typing, TypeOK
<1>2. \A k \in DOMAIN pipe : pipe[k] # s /\ pipe[k] \in Slots
  BY <1>1 DEF Typing, PipeMatchesCalls
<1> QED BY <1>1, <1>2 DEF KeepsWaiting

LEMMA ReleaseMirrored ==
  ASSUME Typing, Mirror, NEW s \in Slots, task[s].pc \notin {"del", "set"}, NEW i \in Items,
         NEW k, NEW u, NEW todo, BeginRelease(s, i, k, u, todo), UNCHANGED redis
  PROVE  Mirror'
<1>1. KeepsWaiting /\ task'[s] = CallAt("del", k, i, u, todo)
  BY NotWaiting DEF BeginRelease
<1>2. /\ pipe \in Seq(Slots)
      /\ \A j \in Items : locks'[j] = IF j = i THEN NoLock ELSE locks[j]
  BY DEF Typing, TypeOK, BeginRelease
<1>3. task'[s].pc = "del" /\ task'[s].item = i
  BY <1>1 DEF CallAt
<1>4. locks'[i].user = NoUser
  BY <1>2 DEF NoLock, Held
<1>5. Sends(s, i)
  BY <1>2, <1>3, <1>4 DEF BeginRelease, Sends, Writes
<1> QED BY <1>1, <1>2, <1>5, MirrorSent

LEMMA GrantMirrored ==
  ASSUME Typing, Mirror, NEW s \in Slots, task[s].pc \notin {"del", "set"}, NEW i \in Items,
         NEW u, BeginGrant(s, i, u), UNCHANGED redis
  PROVE  Mirror'
<1>1. KeepsWaiting /\ task'[s] = CallAt("set", "acquire", i, u, {})
  BY NotWaiting DEF BeginGrant
<1>2. /\ pipe \in Seq(Slots)
      /\ \A j \in Items : locks'[j] = IF j = i THEN Held(u, FALSE) ELSE locks[j]
  BY DEF Typing, TypeOK, BeginGrant
<1>3. task'[s].pc = "set" /\ task'[s].item = i /\ task'[s].user = u
  BY <1>1 DEF CallAt
<1>4. locks'[i].user = u
  BY <1>2 DEF Held
<1>5. Sends(s, i)
  BY <1>2, <1>3, <1>4 DEF BeginGrant, Sends, Writes
<1> QED BY <1>1, <1>2, <1>5, MirrorSent

LEMMA MirrorStep ==
  ASSUME Typing, Mirror, [Next]_vars, failures' = failures
  PROVE  Mirror'
<1>0. task \in [Slots -> Task] /\ locks \in [Items -> Lock] /\ failures \in Nat /\ pipe \in Seq(Slots)
  BY LockConstants DEF Typing, TypeOK
<1>1. \A s \in Slots : task[s] \in Task /\ CallShape(task[s])
  BY DEF Typing, TypeOK
<1>2. ASSUME task' = task \/ (\E s \in Slots : /\ task[s].pc \notin {"del", "set"}
                                               /\ \E t : task' = [task EXCEPT ![s] = t]),
             KeepsOwners, UNCHANGED <<pipe, redis>>
      PROVE  Mirror'
  <2>1. KeepsWaiting
    BY <1>2, NotWaiting DEF KeepsWaiting
  <2> QED BY <1>2, <2>1, MirrorKept
<1>3. UNCHANGED locks => KeepsOwners
  BY DEF KeepsOwners
<1>4. \A s \in FreeSlots : s \in Slots /\ task[s].pc \notin {"del", "set"}
  BY DEF FreeSlots
<1>5. CASE ClientStep
  <2>1. ASSUME NEW c \in Clients, Connect(c) \/ RegisterUser(c) \/ JoinProject(c) \/ LeaveProject(c)
        PROVE  Mirror'
    BY <1>2, <1>3, <2>1 DEF Connect, RegisterUser, JoinProject, LeaveProject, memory
  <2>2. ASSUME NEW c \in Clients, Disconnect(c)
        PROVE  Mirror'
    <3>1. task' = task \/ \E s \in FreeSlots : \E t : task' = [task EXCEPT ![s] = t]
      BY <2>2 DEF Disconnect
    <3> QED BY <1>2, <1>3, <1>4, <2>2, <3>1 DEF Disconnect, memory
  <2>3. ASSUME NEW c \in Clients, NEW i \in Items, RequestFree(c, i)
        PROVE  Mirror'
    BY <1>4, <2>3, GrantMirrored DEF RequestFree
  <2>4. ASSUME NEW c \in Clients, NEW i \in Items, RequestExpired(c, i) \/ LockReleased(c, i)
        PROVE  Mirror'
    BY <1>4, <2>4, ReleaseMirrored DEF RequestExpired, LockReleased
  <2>5. ASSUME NEW c \in Clients, NEW i \in Items, RequestRenewed(c, i)
        PROVE  Mirror'
    <3>1. KeepsOwners
      BY <1>0, <2>5 DEF RequestRenewed, KeepsOwners, Held
    <3> QED BY <1>2, <2>5, <3>1 DEF RequestRenewed
  <2>6. ASSUME NEW c \in Clients, NEW i \in Items, NEW p \in Priorities, RequestDenied(c, i, p)
        PROVE  Mirror'
    BY <1>2, <1>3, <2>6 DEF RequestDenied
  <2> QED BY <1>5, <2>1, <2>2, <2>3, <2>4, <2>5, <2>6 DEF ClientStep
<1>6. ASSUME NEW i \in Items, Expire(i)
      PROVE  Mirror'
  <2>1. KeepsOwners
    BY <1>0, <1>6 DEF Expire, KeepsOwners, Held
  <2> QED BY <1>2, <1>6, <2>1 DEF Expire
<1>7. CASE CleanupTick
  <2>1. task' = task \/ \E s \in FreeSlots : \E t : task' = [task EXCEPT ![s] = t]
    BY <1>7 DEF CleanupTick
  <2> QED BY <1>2, <1>3, <1>4, <1>7, <2>1 DEF CleanupTick, memory
<1>8. CASE RedisReply
  BY <1>8, MirrorAnswered
<1>9. ~RedisError /\ ~RedisErrorEndsProcess
  BY <1>0 DEF RedisError, RedisErrorEndsProcess
<1>10. ASSUME NEW s \in Slots, Resume(s)
       PROVE  Mirror'
  <2>1. task[s].pc \notin {"del", "set"}
    BY <1>10 DEF Resume, ProcessDiscarding, ProcessDiscardingExpired, TakeOver, FinishGrant,
       ReleaseNext, PassOverNext, FinishRelease, AnnounceRelease, AnnounceReleaseExpired
  <2>2. CASE \/ ProcessDiscarding(s) \/ FinishGrant(s) \/ PassOverNext(s) \/ FinishRelease(s)
             \/ AnnounceRelease(s)
    <3>1. \E t : task' = [task EXCEPT ![s] = t]
      <4>1. CASE ProcessDiscarding(s)
        <5>1. task' = [task EXCEPT ![s] = At(task[s], "released")]
          BY <1>0, <4>1 DEF ProcessDiscarding
        <5> QED BY <5>1
      <4>2. CASE PassOverNext(s)
        <5>1. PICK i : task' = [task EXCEPT ![s] = Without(task[s], i)]
          BY <1>0, <4>2 DEF PassOverNext
        <5> QED BY <5>1
      <4>3. CASE FinishGrant(s) \/ FinishRelease(s) \/ AnnounceRelease(s)
        BY <4>3 DEF FinishGrant, FinishRelease, AnnounceRelease
      <4> QED BY <2>2, <4>1, <4>2, <4>3
    <3>2. UNCHANGED <<locks, pipe, redis>>
      BY <2>2 DEF ProcessDiscarding, FinishGrant, PassOverNext, FinishRelease, AnnounceRelease, memory
    <3> QED BY <1>2, <1>3, <2>1, <3>1, <3>2
  <2>3. CASE ProcessDiscardingExpired(s)
    <3> DEFINE i == task[s].item
    <3>1. i \in Items
      BY <1>1, <2>3 DEF ProcessDiscardingExpired, CallShape
    <3>2. PICK b \in FreeSlots \ {s} :
            /\ locks' = [locks EXCEPT ![i] = NoLock]
            /\ task' = [[task EXCEPT ![s] = At(@, "released")]
                         EXCEPT ![b] = CallAt("del", "background", i, NoUser, {})]
            /\ pipe' = Append(pipe, b)
      BY <2>3 DEF ProcessDiscardingExpired
    <3>3. b \in Slots /\ task[b].pc \notin {"del", "set"}
      BY <1>4
    <3>4. \A k \in DOMAIN pipe : pipe[k] \in Slots /\ pipe[k] # s /\ pipe[k] # b
      BY <2>1, <3>3, NotWaiting
    <3>5. KeepsWaiting /\ task'[b] = CallAt("del", "background", i, NoUser, {})
      BY <1>0, <3>2, <3>3, <3>4 DEF KeepsWaiting
    <3>6. locks'[i].user = NoUser /\ \A j \in Items : j # i => locks'[j].user = locks[j].user
      BY <1>0, <3>1, <3>2 DEF NoLock, Held
    <3>7. Sends(b, i)
      BY <3>2, <3>5, <3>6 DEF Sends, Writes, CallAt
    <3>8. UNCHANGED redis
      BY <2>3 DEF ProcessDiscardingExpired
    <3> QED BY <1>0, <3>1, <3>3, <3>5, <3>7, <3>8, MirrorSent
  <2>4. CASE TakeOver(s)
    <3>1. task[s].item \in Items
      BY <1>1, <2>4 DEF TakeOver, CallShape
    <3> QED BY <2>1, <2>4, <3>1, GrantMirrored DEF TakeOver
  <2>5. CASE ReleaseNext(s)
    <3>1. PICK i \in task[s].rest : BeginRelease(s, i, task[s].kind, task[s].user, task[s].rest \ {i})
      BY <2>5 DEF ReleaseNext
    <3>2. i \in Items
      BY <1>1 DEF Task
    <3> QED BY <2>1, <2>5, <3>1, <3>2, ReleaseMirrored DEF ReleaseNext
  <2>6. CASE AnnounceReleaseExpired(s)
    <3>1. task[s].item \in Items
      BY <1>1, <2>6 DEF AnnounceReleaseExpired, CallShape
    <3> QED BY <2>1, <2>6, <3>1, ReleaseMirrored DEF AnnounceReleaseExpired
  <2> QED BY <1>10, <2>2, <2>3, <2>4, <2>5, <2>6 DEF Resume
<1>11. CASE UNCHANGED vars
  BY <1>2, <1>3, <1>11 DEF vars
<1> QED BY <1>5, <1>6, <1>7, <1>8, <1>9, <1>10, <1>11 DEF Next

\* Once the commands in flight are executed, the lock:* key of an item names
\* the user that holds it in memory, whatever overlaps, while Redis answers.
THEOREM MirrorFollows == Spec => []MirrorAgrees
<1> DEFINE MirrorInv == failures = 0 => Mirror
<1>1. Spec => []Typing
  BY TypingInit, TypingStep, PTL DEF Spec
<1>2. Init => MirrorInv
  BY DEF Init, Mirror, Mirrors, For, NoLock, Held
<1>3. Typing /\ MirrorInv /\ [Next]_vars => MirrorInv'
  <2> SUFFICES ASSUME Typing, MirrorInv, [Next]_vars, failures' = 0 PROVE Mirror'
    OBVIOUS
  <2>1. failures' = failures
    <3>1. failures \in Nat
      BY LockConstants DEF Typing, TypeOK
    <3>2. failures' = failures \/ failures' = failures + 1
      BY DEF Next, vars, ClientStep, Connect, RegisterUser, JoinProject, LeaveProject, Disconnect,
             RequestFree, RequestExpired, RequestRenewed, RequestDenied, LockReleased, Expire,
             CleanupTick, RedisReply, RedisError, RedisErrorEndsProcess, Resume,
             ProcessDiscarding, ProcessDiscardingExpired, TakeOver, FinishGrant, ReleaseNext,
             PassOverNext, FinishRelease, AnnounceRelease, AnnounceReleaseExpired
    <3> QED BY <3>1, <3>2
  <2> QED BY <2>1, MirrorStep
<1>4. Typing /\ MirrorInv => MirrorAgrees
  <2> SUFFICES ASSUME Typing, Mirror, NEW i \in Items
               PROVE  LET sent == {k \in DOMAIN pipe : task[pipe[k]].item = i}
                      IN locks[i].user = IF sent = {} THEN redis[i]
                                         ELSE Written(pipe[CHOOSE k \in sent : \A j \in sent : j <= k])
    BY DEF MirrorAgrees
  <2> DEFINE sent == {k \in DOMAIN pipe : task[pipe[k]].item = i}
             last == CHOOSE k \in sent : \A j \in sent : j <= k
  <2> SUFFICES locks[i].user = IF sent = {} THEN redis[i] ELSE Written(pipe[last])
    OBVIOUS
  <2>1. Mirrors(locks, redis, pipe, task, i) /\ DOMAIN pipe \subseteq Int
    BY DEF Mirror, Typing, TypeOK
  <2>2. CASE (\A k \in DOMAIN pipe : ~For(task, pipe, k, i)) /\ locks[i].user = redis[i]
    <3>1. sent = {}
      BY <2>2 DEF For
    <3> QED BY <2>2, <3>1
  <2>3. ASSUME NEW k \in DOMAIN pipe, LastFor(task, pipe, k, i), locks[i].user = Writes(task[pipe[k]])
        PROVE  sent # {} /\ locks[i].user = Written(pipe[last])
    <3>1. k \in sent /\ \A j \in sent : j <= k
      BY <2>3 DEF LastFor, For
    <3>2. \A m \in sent : (\A j \in sent : j <= m) => m = k
      BY <2>1, <3>1
    <3>3. last = k
      BY <3>1, <3>2
    <3> HIDE DEF last
    <3> QED BY <2>3, <3>1, <3>3 DEF Written, Writes
  <2> HIDE DEF sent, last
  <2> QED BY <2>1, <2>2, <2>3 DEF Mirrors
<1> QED BY <1>1, <1>2, <1>3, <1>4, PTL DEF Spec
---------------------------------------------------------------------------
(***************************************************************************)
(* Who takes a lock from its holder.  Until a lock expires nobody does,    *)
(* and the service is a table of locks.                                    *)
(***************************************************************************)
NoneExpired == ExpiredSet = {}

Frees(i)     == locks' = [locks EXCEPT ![i] = NoLock]
Grants(i, u) == locks' = [locks EXCEPT ![i] = Held(u, FALSE)]

\* The holder of item i gives it back, himself or by disconnecting.
GivesBack(i) ==
  /\ Frees(i)
  /\ locks[i].user \in Users
  /\ \E s \in Slots : /\ task'[s].pc = "del" /\ task'[s].item = i
                      /\ task'[s].kind \in {"release", "releaseAll"}
                      /\ task'[s].user = locks[i].user

\* A request that awaited the release of an expired lock takes item i; the
\* timer releases what it found expired before its last await.
TakesOver(i) ==
  \E s \in Slots : /\ task[s].pc = "released" /\ task[s].kind = "acquire"
                  /\ task[s].item = i /\ Grants(i, task[s].user)
CleansUp(i) ==
  \E s \in Slots : /\ task[s].pc = "released" /\ task[s].kind = "cleanup"
                  /\ i \in task[s].rest /\ Frees(i)

HoldersStep ==
  \/ Holder' = Holder /\ Leaving' \subseteq Leaving
  \/ \E i \in Items : ~Locked(i) /\ Leaving' = Leaving /\ \E u \in Users : Grants(i, u)
  \/ \E i \in Items : GivesBack(i) /\ Leaving' = Leaving \cup {<<locks[i].user, i>>}
  \/ \E i \in Items : locks[i].expired /\ Frees(i)
  \/ \E i \in Items : TakesOver(i) \/ CleansUp(i)
  \/ RedisErrorEndsProcess

LEMMA HoldersStays ==
  ASSUME \A i \in Items : locks'[i].user = locks[i].user, Leaving' \subseteq Leaving
  PROVE  HoldersStep
BY DEF HoldersStep, Holder

\* The returns under way, after one call has moved.
LEMMA LeavingIs ==
  \A p : p \in Leaving <=> \E s \in Slots : GivingBack(task[s]) /\ p = <<task[s].user, task[s].item>>
BY DEF Leaving

LEMMA LeavingMoves ==
  ASSUME Typing, NEW s \in Slots, NEW t, task' = [task EXCEPT ![s] = t]
  PROVE  /\ ~GivingBack(t) => Leaving' \subseteq Leaving
         /\ ~GivingBack(t) /\ ~GivingBack(task[s]) => Leaving' = Leaving
         /\ GivingBack(t) /\ ~GivingBack(task[s]) =>
              Leaving' = Leaving \cup {<<t.user, t.item>>}
<1>1. \A x \in Slots : task'[x] = IF x = s THEN t ELSE task[x]
  BY DEF Typing, TypeOK
<1>2. ASSUME NEW p
      PROVE  p \in Leaving' <=> \E x \in Slots : GivingBack(task'[x]) /\ p = <<task'[x].user, task'[x].item>>
  BY DEF Leaving, GivingBack
<1>3. ASSUME NEW p
      PROVE  p \in Leaving' <=> \/ GivingBack(t) /\ p = <<t.user, t.item>>
                               \/ \E x \in Slots \ {s} : GivingBack(task[x]) /\ p = <<task[x].user, task[x].item>>
  BY <1>1, <1>2
<1>4. ASSUME NEW p
      PROVE  p \in Leaving <=> \/ GivingBack(task[s]) /\ p = <<task[s].user, task[s].item>>
                              \/ \E x \in Slots \ {s} : GivingBack(task[x]) /\ p = <<task[x].user, task[x].item>>
  BY LeavingIs
<1> QED BY <1>3, <1>4

LEMMA LeavingKept ==
  ASSUME UNCHANGED task
  PROVE  Leaving' = Leaving
BY DEF Leaving, GivingBack

\* The slot in which a release or a grant begins, and the returns under way.
LEMMA BeginsAt ==
  ASSUME Typing, NEW s \in Slots, NEW i \in Items, NEW k, NEW u, NEW todo,
         BeginRelease(s, i, k, u, todo)
  PROVE  /\ Frees(i) /\ task'[s] = CallAt("del", k, i, u, todo)
         /\ k \in {"release", "releaseAll"} /\ ~GivingBack(task[s]) =>
              Leaving' = Leaving \cup {<<u, i>>}
<1>1. task' = [task EXCEPT ![s] = CallAt("del", k, i, u, todo)]
  BY DEF BeginRelease
<1>2. k \in {"release", "releaseAll"} => GivingBack(CallAt("del", k, i, u, todo))
  BY DEF GivingBack, CallAt
<1>3. CallAt("del", k, i, u, todo).user = u /\ CallAt("del", k, i, u, todo).item = i
  BY DEF CallAt
<1> QED BY <1>1, <1>2, <1>3, LeavingMoves DEF BeginRelease, Frees, Typing, TypeOK

LEMMA GrantLeaves ==
  ASSUME Typing, NEW s \in Slots, ~GivingBack(task[s]), NEW i, NEW u, BeginGrant(s, i, u)
  PROVE  Leaving' = Leaving
<1>1. ~GivingBack(CallAt("set", "acquire", i, u, {}))
  BY DEF GivingBack, CallAt
<1> QED BY <1>1, LeavingMoves DEF BeginGrant

LEMMA ClientOnHolders ==
  ASSUME Typing, NEW c \in Clients, NEW i \in Items,
         RequestFree(c, i) \/ RequestExpired(c, i) \/ RequestRenewed(c, i) \/ LockReleased(c, i)
  PROVE  HoldersStep
<1>0. UserOf[c] \in Users /\ \A s \in FreeSlots : s \in Slots /\ ~GivingBack(task[s])
  BY LockConstants DEF FreeSlots, GivingBack
<1>1. CASE RequestFree(c, i)
  <2>1. ~Locked(i) /\ Grants(i, UserOf[c])
    BY <1>1 DEF RequestFree, BeginGrant, Grants
  <2>2. Leaving' = Leaving
    BY <1>0, <1>1, GrantLeaves DEF RequestFree
  <2> QED BY <1>0, <2>1, <2>2 DEF HoldersStep
<1>2. CASE RequestExpired(c, i)
  <2>1. locks[i].expired /\ Frees(i)
    BY <1>2 DEF RequestExpired, BeginRelease, Frees
  <2> QED BY <2>1 DEF HoldersStep
<1>3. CASE RequestRenewed(c, i)
  <2>1. \A j \in Items : locks'[j].user = locks[j].user
    BY <1>3 DEF RequestRenewed, Held, Typing, TypeOK
  <2>2. Leaving' = Leaving
    BY <1>3, LeavingKept DEF RequestRenewed
  <2> QED BY <2>1, <2>2, HoldersStays
<1>4. CASE LockReleased(c, i)
  <2>1. PICK s \in FreeSlots : BeginRelease(s, i, "release", UserOf[c], {})
    BY <1>0, <1>4 DEF LockReleased
  <2>2. /\ Frees(i) /\ task'[s] = CallAt("del", "release", i, UserOf[c], {})
        /\ Leaving' = Leaving \cup {<<UserOf[c], i>>}
    BY <1>0, <2>1, BeginsAt
  <2>3. locks[i].user = UserOf[c]
    BY <1>4 DEF LockReleased
  <2>4. GivesBack(i) /\ Leaving' = Leaving \cup {<<locks[i].user, i>>}
    BY <1>0, <2>2, <2>3 DEF GivesBack, CallAt
  <2> QED BY <2>4 DEF HoldersStep
<1> QED BY <1>1, <1>2, <1>3, <1>4

LEMMA ResumeOnHolders ==
  ASSUME Typing, NEW s \in Slots, Resume(s)
  PROVE  HoldersStep
<1>0. task[s] \in Task /\ CallShape(task[s]) /\ ~GivingBack(NoTask)
  BY DEF Typing, TypeOK, GivingBack, NoTask, CallAt
<1>1. CASE \/ ProcessDiscarding(s) \/ FinishGrant(s) \/ PassOverNext(s) \/ FinishRelease(s)
           \/ AnnounceRelease(s)
  <2>1. UNCHANGED locks
    BY <1>1 DEF ProcessDiscarding, FinishGrant, PassOverNext, FinishRelease, AnnounceRelease, memory
  <2>2. ASSUME ProcessDiscarding(s) PROVE Leaving' \subseteq Leaving
    <3>1. ~GivingBack(At(task[s], "released"))
      BY DEF GivingBack, At, CallAt
    <3> QED BY <2>2, <3>1, LeavingMoves DEF ProcessDiscarding
  <2>3. ASSUME PassOverNext(s) PROVE Leaving' \subseteq Leaving
    <3>1. \A i : ~GivingBack(Without(task[s], i))
      BY <2>3 DEF GivingBack, Without, CallAt, PassOverNext
    <3> QED BY <2>3, <3>1, LeavingMoves DEF PassOverNext
  <2>4. ASSUME FinishGrant(s) \/ FinishRelease(s) \/ AnnounceRelease(s)
        PROVE  Leaving' \subseteq Leaving
    BY <1>0, <2>4, LeavingMoves DEF FinishGrant, FinishRelease, AnnounceRelease
  <2> QED BY <1>1, <2>1, <2>2, <2>3, <2>4, HoldersStays
<1>2. CASE ProcessDiscardingExpired(s) \/ AnnounceReleaseExpired(s)
  <2>1. PICK i : i = task[s].item
    OBVIOUS
  <2>2. i \in Items /\ locks[i].expired /\ Frees(i)
    BY <1>0, <1>2, <2>1
       DEF ProcessDiscardingExpired, AnnounceReleaseExpired, FindsExpired, BeginRelease, Frees,
           CallShape
  <2> QED BY <2>2 DEF HoldersStep
<1>3. CASE TakeOver(s)
  <2>1. task[s].item \in Items
    BY <1>0, <1>3 DEF TakeOver, CallShape
  <2>2. TakesOver(task[s].item)
    BY <1>3 DEF TakeOver, BeginGrant, TakesOver, Grants
  <2> QED BY <2>1, <2>2 DEF HoldersStep
<1>4. CASE ReleaseNext(s)
  <2>1. PICK i \in task[s].rest :
          /\ Releasable(s, i)
          /\ BeginRelease(s, i, task[s].kind, task[s].user, task[s].rest \ {i})
    BY <1>4 DEF ReleaseNext
  <2>2. i \in Items /\ ~GivingBack(task[s])
    BY <1>0, <1>4 DEF Task, ReleaseNext, GivingBack
  <2>3. /\ Frees(i) /\ task'[s] = CallAt("del", task[s].kind, i, task[s].user, task[s].rest \ {i})
        /\ task[s].kind = "releaseAll" => Leaving' = Leaving \cup {<<task[s].user, i>>}
    BY <2>1, <2>2, BeginsAt
  <2>4. CASE task[s].kind = "cleanup"
    <3>1. CleansUp(i)
      BY <1>4, <2>3, <2>4 DEF ReleaseNext, CleansUp
    <3> QED BY <2>2, <3>1 DEF HoldersStep
  <2>5. CASE task[s].kind = "releaseAll"
    <3>1. locks[i].user = task[s].user /\ task[s].user \in Users
      BY <1>0, <2>1, <2>5 DEF Releasable, CallShape
    <3>2. GivesBack(i) /\ Leaving' = Leaving \cup {<<locks[i].user, i>>}
      BY <2>3, <2>5, <3>1 DEF GivesBack, CallAt
    <3> QED BY <2>2, <3>2 DEF HoldersStep
  <2> QED BY <1>4, <2>4, <2>5 DEF ReleaseNext
<1> QED BY <1>1, <1>2, <1>3, <1>4 DEF Resume

LEMMA StepOnHolders == Typing /\ [Next]_vars => HoldersStep
<1> SUFFICES ASSUME Typing, [Next]_vars PROVE HoldersStep
  OBVIOUS
<1>1. ASSUME UNCHANGED <<locks, task>> PROVE HoldersStep
  BY <1>1, HoldersStays, LeavingKept
<1>2. ASSUME UNCHANGED locks, NEW s \in Slots, NEW t, ~GivingBack(t), task' = [task EXCEPT ![s] = t]
      PROVE  HoldersStep
  BY <1>2, HoldersStays, LeavingMoves
<1>3. CASE ClientStep
  <2>1. ASSUME NEW c \in Clients, Disconnect(c) PROVE HoldersStep
    <3>1. \A u, todo : ~GivingBack(Loop("releaseAll", u, todo))
      BY DEF GivingBack, Loop, CallAt
    <3> QED BY <1>1, <1>2, <2>1, <3>1 DEF Disconnect, memory, FreeSlots
  <2>2. ASSUME NEW c \in Clients,
               \/ Connect(c) \/ RegisterUser(c) \/ JoinProject(c) \/ LeaveProject(c)
               \/ \E i \in Items, p \in Priorities : RequestDenied(c, i, p)
        PROVE  UNCHANGED <<locks, task>>
    BY <2>2 DEF Connect, RegisterUser, JoinProject, LeaveProject, RequestDenied, memory
  <2> QED BY <1>1, <1>3, <2>1, <2>2, ClientOnHolders DEF ClientStep
<1>4. ASSUME NEW i \in Items, Expire(i) PROVE HoldersStep
  <2>1. \A j \in Items : locks'[j].user = locks[j].user
    BY <1>4 DEF Expire, Held, Typing, TypeOK
  <2>2. Leaving' = Leaving
    BY <1>4, LeavingKept DEF Expire
  <2> QED BY <2>1, <2>2, HoldersStays
<1>5. CASE CleanupTick
  <2>1. \A todo : ~GivingBack(Loop("cleanup", NoUser, todo))
    BY DEF GivingBack, Loop, CallAt
  <2> QED BY <1>1, <1>2, <1>5, <2>1 DEF CleanupTick, memory, FreeSlots
<1>6. CASE RedisReply \/ RedisError
  <2>1. PICK s : s = Head(pipe)
    OBVIOUS
  <2>2. s \in Slots
    BY <1>6, <2>1 DEF RedisReply, RedisError, Typing, TypeOK
  <2>3. ~GivingBack(NoTask) /\ ~GivingBack(Answered(task[s]))
    BY DEF GivingBack, NoTask, Answered, At, CallAt
  <2> QED BY <1>2, <1>6, <2>1, <2>2, <2>3 DEF RedisReply, RedisError, memory
<1>7. CASE RedisErrorEndsProcess
  BY <1>7 DEF HoldersStep
<1>8. CASE UNCHANGED vars
  BY <1>1, <1>8 DEF vars
<1> QED BY <1>3, <1>4, <1>5, <1>6, <1>7, <1>8, ResumeOnHolders DEF Next

\* A user loses a live lock without a call of his own only to a request that
\* had found an earlier lock of the item expired, to the timer that had, or
\* because the process ends: acquireLockImpl and cleanupExpiredLocksImpl act
\* on what they saw before an await, and nothing else does.
THEOREM LiveLockTakers ==
  Spec => [][\A i \in Items : Live(i) /\ locks'[i].user # locks[i].user =>
               GivesBack(i) \/ TakesOver(i) \/ CleansUp(i) \/ RedisErrorEndsProcess]_vars
<1>1. ASSUME Typing, HoldersStep, NEW i \in Items, Live(i), locks'[i].user # locks[i].user
      PROVE  GivesBack(i) \/ TakesOver(i) \/ CleansUp(i) \/ RedisErrorEndsProcess
  <2>0. locks \in [Items -> Lock]
    BY <1>1 DEF Typing, TypeOK
  <2>1. Holder' # Holder
    BY <1>1 DEF Holder
  <2>2. ASSUME NEW j \in Items, Frees(j) \/ \E u : Grants(j, u) PROVE j = i
    BY <1>1, <2>0, <2>2 DEF Frees, Grants
  <2>3. \A j \in Items : GivesBack(j) \/ TakesOver(j) \/ CleansUp(j) => j = i
    BY <2>2 DEF GivesBack, TakesOver, CleansUp
  <2>4. \A j \in Items : locks[j].expired /\ Frees(j) => FALSE
    BY <1>1, <2>2 DEF Live
  <2>5. \A j \in Items : ~Locked(j) => \A u \in Users : ~Grants(j, u)
    BY <1>1, <2>2 DEF Live
  <2> HIDE DEF GivesBack, TakesOver, CleansUp
  <2> QED BY <1>1, <2>1, <2>3, <2>4, <2>5 DEF HoldersStep
<1>2. Typing /\ [Next]_vars =>
        [\A i \in Items : Live(i) /\ locks'[i].user # locks[i].user =>
           GivesBack(i) \/ TakesOver(i) \/ CleansUp(i) \/ RedisErrorEndsProcess]_vars
  BY <1>1, StepOnHolders
<1>3. Spec => []Typing
  BY TypingInit, TypingStep, PTL DEF Spec
<1> QED BY <1>2, <1>3, PTL DEF Spec

\* No call is about to take a lock over, or to release one that had expired.
CalmCall(t) ==
  /\ t.kind \notin {"cleanup", "background"}
  /\ t.kind = "acquire" => t.pc \in {"set", "stored"}
Calm == \A s \in Slots : CalmCall(task[s])

LEMMA CalmInit == Init => Calm
BY DEF Init, Calm, CalmCall, NoTask, CallAt

LEMMA CalmMove ==
  ASSUME Typing, Calm, NEW s, NEW t, CalmCall(t), task' = [task EXCEPT ![s] = t]
  PROVE  Calm'
BY DEF Typing, TypeOK, Calm

LEMMA CalmBegins ==
  ASSUME Typing, Calm, NEW s, NEW i, NEW k, NEW u, NEW todo,
         \/ BeginGrant(s, i, u)
         \/ k \in {"release", "releaseAll"} /\ BeginRelease(s, i, k, u, todo)
  PROVE  Calm'
<1>1. CalmCall(CallAt("set", "acquire", i, u, {}))
  BY DEF CalmCall, CallAt
<1>2. k \in {"release", "releaseAll"} => CalmCall(CallAt("del", k, i, u, todo))
  BY DEF CalmCall, CallAt
<1> QED BY <1>1, <1>2, CalmMove DEF BeginGrant, BeginRelease

LEMMA CalmClientStep == Typing /\ Calm /\ NoneExpired /\ ClientStep => Calm'
<1> SUFFICES ASSUME Typing, Calm, NoneExpired, ClientStep PROVE Calm'
  OBVIOUS
<1>1. ASSUME task' = task PROVE Calm'
  BY <1>1 DEF Calm
<1>2. ASSUME NEW c \in Clients, Disconnect(c) PROVE Calm'
  <2>1. \A u, todo : CalmCall(Loop("releaseAll", u, todo))
    BY DEF CalmCall, Loop, CallAt
  <2> QED BY <1>1, <1>2, <2>1, CalmMove DEF Disconnect
<1>3. ASSUME NEW c \in Clients, NEW i \in Items,
             RequestFree(c, i) \/ RequestExpired(c, i) \/ LockReleased(c, i)
      PROVE  Calm'
  <2>1. ~RequestExpired(c, i)
    BY DEF RequestExpired, NoneExpired, ExpiredSet
  <2> QED BY <1>3, <2>1, CalmBegins DEF RequestFree, LockReleased
<1>4. ASSUME NEW c \in Clients,
             \/ Connect(c) \/ RegisterUser(c) \/ JoinProject(c) \/ LeaveProject(c)
             \/ \E i \in Items : RequestRenewed(c, i) \/ \E p \in Priorities : RequestDenied(c, i, p)
      PROVE  Calm'
  BY <1>1, <1>4 DEF Connect, RegisterUser, JoinProject, LeaveProject, RequestRenewed, RequestDenied
<1> QED BY <1>2, <1>3, <1>4 DEF ClientStep

LEMMA CalmResume ==
  ASSUME Typing, Calm, NoneExpired, NEW s \in Slots, Resume(s)
  PROVE  Calm'
<1>0. /\ CallShape(task[s]) /\ CalmCall(task[s])
      /\ CalmCall(NoTask)
  BY DEF Typing, TypeOK, Calm, CalmCall, NoTask, CallAt
<1>1. \A i \in Items : ~FindsExpired(i)
  BY DEF FindsExpired, NoneExpired, ExpiredSet
<1>2. CASE ProcessDiscarding(s)
  <2>1. CalmCall(At(task[s], "released"))
    BY <1>0, <1>2 DEF ProcessDiscarding, CalmCall, At, CallAt
  <2> QED BY <1>2, <2>1, CalmMove DEF ProcessDiscarding
<1>3. ~ProcessDiscardingExpired(s) /\ ~AnnounceReleaseExpired(s)
  BY <1>0, <1>1 DEF ProcessDiscardingExpired, AnnounceReleaseExpired, CallShape
<1>4. ~TakeOver(s)
  BY <1>0 DEF TakeOver, CalmCall
<1>5. CASE FinishGrant(s) \/ FinishRelease(s) \/ AnnounceRelease(s)
  BY <1>0, <1>5, CalmMove DEF FinishGrant, FinishRelease, AnnounceRelease
<1>6. CASE ReleaseNext(s)
  BY <1>0, <1>6, CalmBegins DEF ReleaseNext, CalmCall
<1>7. CASE PassOverNext(s)
  <2>1. \A i : CalmCall(Without(task[s], i))
    BY <1>0 DEF CalmCall, Without, CallAt
  <2> QED BY <1>7, <2>1, CalmMove DEF PassOverNext
<1> QED BY <1>2, <1>3, <1>4, <1>5, <1>6, <1>7 DEF Resume

\* No background release is in flight whose failure would end the process.
LEMMA CalmSurvives == Typing /\ Calm => ~RedisErrorEndsProcess
<1> SUFFICES ASSUME Typing, Calm, RedisErrorEndsProcess PROVE FALSE
  OBVIOUS
<1>1. Head(pipe) \in Slots
  BY DEF Typing, TypeOK, RedisErrorEndsProcess
<1> QED BY <1>1 DEF Calm, CalmCall, RedisErrorEndsProcess

LEMMA CalmStep == Typing /\ Calm /\ NoneExpired /\ [Next]_vars => Calm'
<1> SUFFICES ASSUME Typing, Calm, NoneExpired, [Next]_vars PROVE Calm'
  OBVIOUS
<1>1. ASSUME task' = task PROVE Calm'
  BY <1>1 DEF Calm
<1>2. CASE CleanupTick
  BY <1>1, <1>2 DEF CleanupTick, NoneExpired
<1>3. CASE RedisReply
  <2>1. PICK s : s = Head(pipe)
    OBVIOUS
  <2>2. s \in Slots
    BY <1>3, <2>1 DEF RedisReply, Typing, TypeOK
  <2>3. s \in Slots /\ task[s].pc \in {"del", "set"}
    <3>1. \E k \in DOMAIN pipe : pipe[k] = s
      BY <1>3, <2>1 DEF RedisReply, Typing, TypeOK
    <3> QED BY <2>2, <3>1 DEF Typing, PipeMatchesCalls
  <2>4. CalmCall(task[s])
    BY <2>2 DEF Calm
  <2>5. CalmCall(Answered(task[s]))
    BY <2>3, <2>4 DEF CalmCall, Answered, At, CallAt
  <2>6. task' = [task EXCEPT ![s] = Answered(task[s])]
    BY <1>3, <2>1 DEF RedisReply
  <2> QED BY <2>5, <2>6, CalmMove
<1>4. CASE RedisError
  <2>1. CalmCall(NoTask)
    BY DEF CalmCall, NoTask, CallAt
  <2> QED BY <1>4, <2>1, CalmMove DEF RedisError
<1>5. ~RedisErrorEndsProcess
  BY CalmSurvives
<1>6. CASE UNCHANGED vars
  BY <1>1, <1>6 DEF vars
<1>7. CASE \E i \in Items : Expire(i)
  BY <1>1, <1>7 DEF Expire
<1> QED BY <1>2, <1>3, <1>4, <1>5, <1>6, <1>7, CalmClientStep, CalmResume DEF Next

\* Only Expire makes a lock expire, and says so.
LEMMA LapsedStep ==
  ASSUME Typing, [Next]_vars
  PROVE  \/ \E i \in Items : Expire(i)
         \/ /\ lapsed' = lapsed
            /\ \A i \in Items : locks'[i].expired => locks[i].expired
<1>0. locks \in [Items -> Lock] /\ ~NoLock.expired /\ \A u : ~Held(u, FALSE).expired
  BY DEF Typing, TypeOK, NoLock, Held
<1> DEFINE Kept == lapsed' = lapsed /\ \A i \in Items : locks'[i].expired => locks[i].expired
<1>1. ASSUME lapsed' = lapsed, UNCHANGED locks PROVE Kept
  BY <1>1
<1>2. ASSUME lapsed' = lapsed, NEW i, Frees(i) \/ \E u : Grants(i, u) PROVE Kept
  BY <1>0, <1>2 DEF Frees, Grants
<1> HIDE DEF Kept
<1>3. ASSUME NEW s, NEW i, NEW k, NEW u, NEW todo, lapsed' = lapsed,
             BeginRelease(s, i, k, u, todo) \/ BeginGrant(s, i, u)
      PROVE  Kept
  <2>1. Frees(i) \/ Grants(i, u)
    BY <1>3 DEF BeginRelease, BeginGrant, Frees, Grants
  <2> QED BY <1>2, <1>3, <2>1
<1>4. ASSUME ClientStep PROVE Kept
  <2>1. ASSUME NEW c \in Clients, NEW i \in Items,
               RequestFree(c, i) \/ RequestExpired(c, i) \/ LockReleased(c, i)
        PROVE  Kept
    BY <1>3, <2>1 DEF RequestFree, RequestExpired, LockReleased
  <2>2. ASSUME NEW c \in Clients, NEW i \in Items, RequestRenewed(c, i) PROVE Kept
    <3>1. lapsed' = lapsed /\ Grants(i, UserOf[c])
      BY <2>2 DEF RequestRenewed, Grants
    <3> QED BY <1>2, <3>1
  <2>3. ASSUME NEW c \in Clients,
               \/ Connect(c) \/ RegisterUser(c) \/ JoinProject(c) \/ LeaveProject(c) \/ Disconnect(c)
               \/ \E i \in Items, p \in Priorities : RequestDenied(c, i, p)
        PROVE  Kept
    <3>1. lapsed' = lapsed /\ UNCHANGED locks
      BY <2>3 DEF Connect, RegisterUser, JoinProject, LeaveProject, Disconnect, RequestDenied, memory
    <3> QED BY <1>1, <3>1
  <2> QED BY <1>4, <2>1, <2>2, <2>3 DEF ClientStep
<1>5. ASSUME CleanupTick \/ RedisReply \/ RedisError \/ UNCHANGED vars PROVE Kept
  <2>1. lapsed' = lapsed /\ UNCHANGED locks
    BY <1>5 DEF CleanupTick, RedisReply, RedisError, memory, vars
  <2> QED BY <1>1, <2>1
<1>6. ASSUME RedisErrorEndsProcess PROVE Kept
  BY <1>0, <1>6 DEF RedisErrorEndsProcess, Kept
<1>7. ASSUME NEW s \in Slots, Resume(s) PROVE Kept
  <2>1. ASSUME \/ ProcessDiscarding(s) \/ FinishGrant(s) \/ PassOverNext(s) \/ FinishRelease(s)
               \/ AnnounceRelease(s)
        PROVE  Kept
    <3>1. lapsed' = lapsed /\ UNCHANGED locks
      BY <2>1 DEF ProcessDiscarding, FinishGrant, PassOverNext, FinishRelease, AnnounceRelease, memory
    <3> QED BY <1>1, <3>1
  <2>2. ASSUME ProcessDiscardingExpired(s) PROVE Kept
    <3>1. lapsed' = lapsed /\ Frees(task[s].item)
      BY <2>2 DEF ProcessDiscardingExpired, Frees
    <3> QED BY <1>2, <3>1
  <2>3. ASSUME TakeOver(s) \/ ReleaseNext(s) \/ AnnounceReleaseExpired(s) PROVE Kept
    <3>1. lapsed' = lapsed
      BY <2>3 DEF TakeOver, ReleaseNext, AnnounceReleaseExpired
    <3> QED BY <1>3, <2>3, <3>1 DEF TakeOver, ReleaseNext, AnnounceReleaseExpired
  <2> QED BY <1>7, <2>1, <2>2, <2>3 DEF Resume
<1> QED BY <1>4, <1>5, <1>6, <1>7 DEF Next, Kept

\* Until a lock expires every step is one of the table.
LEMMA TableStep ==
  ASSUME Typing, Calm, NoneExpired, ~lapsed, lapsed' = lapsed, [Next]_vars
  PROVE  /\ Table!Next
         /\ \A i \in Items : locks[i].user # NoUser => locks'[i].user \in {locks[i].user, NoUser}
<1>0. /\ locks \in [Items -> Lock] /\ NoUser \notin Users
      /\ \A i \in Items : Locked(i) <=> locks[i].user # NoUser
  BY LockConstants DEF Typing, TypeOK, Locked, NoLock, Held
<1>1. CASE Holder' = Holder /\ Leaving' \subseteq Leaving
  <2>1. Table!Next
    BY <1>0, <1>1 DEF Table!Next, Table!Finish
  <2> QED BY <1>1, <2>1 DEF Holder
<1>2. ASSUME NEW i \in Items, ~Locked(i), Leaving' = Leaving, NEW u \in Users, Grants(i, u)
      PROVE  /\ Table!Next
             /\ \A j \in Items : locks[j].user # NoUser => locks'[j].user \in {locks[j].user, NoUser}
  <2>1. Holder[i] = NoUser /\ \A j \in Items : locks'[j].user = IF j = i THEN u ELSE locks[j].user
    BY <1>0, <1>2 DEF Grants, Held, Holder
  <2>2. Holder' = [Holder EXCEPT ![i] = u]
    BY <2>1 DEF Holder
  <2>3. Table!Acquire(u, i)
    BY <1>0, <1>2, <2>1, <2>2 DEF Table!Acquire
  <2> QED BY <2>1, <2>3, <1>0, <1>2 DEF Table!Next
<1>3. ASSUME NEW i \in Items, GivesBack(i), Leaving' = Leaving \cup {<<locks[i].user, i>>}
      PROVE  /\ Table!Next
             /\ \A j \in Items : locks[j].user # NoUser => locks'[j].user \in {locks[j].user, NoUser}
  <2>1. /\ Holder[i] = locks[i].user /\ locks[i].user \in Users
        /\ \A j \in Items : locks'[j].user = IF j = i THEN NoUser ELSE locks[j].user
    BY <1>0, <1>3 DEF GivesBack, Frees, NoLock, Held, Holder
  <2>2. Holder' = [Holder EXCEPT ![i] = NoUser]
    BY <2>1 DEF Holder
  <2>3. Table!Release(locks[i].user, i)
    BY <1>0, <1>3, <2>1, <2>2 DEF Table!Release
  <2> QED BY <2>1, <2>3 DEF Table!Next
<1>4. \A i \in Items : ~locks[i].expired
  BY DEF NoneExpired, ExpiredSet
<1>5. \A i \in Items : ~TakesOver(i) /\ ~CleansUp(i)
  BY DEF TakesOver, CleansUp, Calm, CalmCall
<1> QED BY <1>1, <1>2, <1>3, <1>4, <1>5, StepOnHolders, CalmSurvives DEF HoldersStep

LEMMA LockTyping == Spec => []Typing
BY TypingInit, TypingStep, PTL DEF Spec

\* Until a lock expires no call is about to take over or to clean up.
CalmUntilLapse == ~lapsed => NoneExpired /\ Calm

LEMMA CalmUntilLapseStep == Typing /\ CalmUntilLapse /\ [Next]_vars => CalmUntilLapse'
<1> SUFFICES ASSUME Typing, CalmUntilLapse, [Next]_vars, ~lapsed' PROVE NoneExpired' /\ Calm'
  BY DEF CalmUntilLapse
<1>1. \A i \in Items : ~Expire(i)
  BY DEF Expire
<1>2. lapsed' = lapsed /\ \A i \in Items : locks'[i].expired => locks[i].expired
  BY <1>1, LapsedStep
<1>3. NoneExpired /\ Calm
  BY <1>2 DEF CalmUntilLapse
<1>4. NoneExpired'
  BY <1>2, <1>3 DEF NoneExpired, ExpiredSet
<1> QED BY <1>3, <1>4, CalmStep

LEMMA CalmUntilLapseHolds == Spec => []CalmUntilLapse
<1>1. Init => CalmUntilLapse
  <2>1. Init => NoneExpired
    BY DEF Init, NoneExpired, ExpiredSet, NoLock, Held
  <2> QED BY <2>1, CalmInit DEF CalmUntilLapse
<1> QED BY <1>1, CalmUntilLapseStep, LockTyping, PTL DEF Spec

\* Until a lock expires for the first time the lock service is a table of
\* locks: an item is given to one user at a time, and free again only when a
\* release or the disconnect of that user gives it back - across all awaits
\* of requests and releases, snapshots of a disconnect included.
THEOREM TableUntilLapse == Spec => TableSpec
<1>1. Init => Table!Init
  <2>1. NoTask.pc # "del" /\ NoLock.user = NoUser
    BY DEF NoTask, CallAt, NoLock, Held
  <2>2. Init => Leaving = {}
    BY <2>1 DEF Init, Leaving, GivingBack
  <2>3. Init => Holder = [i \in Items |-> NoUser]
    BY <2>1 DEF Init, Holder
  <2> QED BY <2>2, <2>3 DEF Init, Table!Init
<1>2. Typing /\ CalmUntilLapse /\ [Next]_vars => [Table!Next]_(Table!vars)
  <2> SUFFICES ASSUME Typing, CalmUntilLapse, [Next]_vars PROVE Table!Next
    OBVIOUS
  <2>1. ASSUME NEW i \in Items, Expire(i) PROVE Table!Next
    <3>1. \A j \in Items : locks'[j].user = locks[j].user
      BY <2>1 DEF Expire, Held, Typing, TypeOK
    <3>2. Holder' = Holder /\ Leaving' = Leaving /\ lapsed' = TRUE
      BY <2>1, <3>1, LeavingKept DEF Expire, Holder
    <3> QED BY <3>2 DEF Table!Next, Table!Lapse
  <2>2. CASE lapsed' = lapsed
    <3>1. CASE lapsed
      BY <2>2, <3>1 DEF Table!Next
    <3>2. CASE ~lapsed
      BY <2>2, <3>2, TableStep DEF CalmUntilLapse
    <3> QED BY <3>1, <3>2
  <2> QED BY <2>1, <2>2, LapsedStep
<1> QED BY <1>1, <1>2, LockTyping, CalmUntilLapseHolds, PTL DEF Spec, TableSpec, Table!Spec

\* What the comments of acquireLock and of the timer promise holds until a
\* lock expires: a live lock is neither replaced nor removed by the timer.
THEOREM LiveLockKeptUntilLapse ==
  Spec => [][~lapsed' => \A i \in Items : Live(i) =>
               /\ locks'[i].user \in {locks[i].user, NoUser}
               /\ \A s \in Slots :
                    task[s].kind = "cleanup" /\ task[s].pc # "del" /\ task'[s].pc = "del"
                      => task'[s].item # i]_vars
<1>1. ASSUME Typing, CalmUntilLapse, [Next]_vars, ~lapsed', NEW i \in Items, Live(i)
      PROVE  /\ locks'[i].user \in {locks[i].user, NoUser}
             /\ \A s \in Slots :
                  task[s].kind = "cleanup" /\ task[s].pc # "del" /\ task'[s].pc = "del" => task'[s].item # i
  <2>1. locks[i].user # NoUser
    BY <1>1 DEF Live, Locked, Typing, TypeOK
  <2>2. lapsed' = lapsed
    BY <1>1, LapsedStep DEF Expire
  <2>3. Calm /\ NoneExpired
    BY <1>1, <2>2 DEF CalmUntilLapse
  <2>4. locks'[i].user \in {locks[i].user, NoUser}
    BY <1>1, <2>1, <2>2, <2>3, TableStep
  <2> QED BY <2>3, <2>4 DEF Calm, CalmCall
<1>2. Typing /\ CalmUntilLapse /\ [Next]_vars =>
        [~lapsed' => \A i \in Items : Live(i) =>
           /\ locks'[i].user \in {locks[i].user, NoUser}
           /\ \A s \in Slots :
                task[s].kind = "cleanup" /\ task[s].pc # "del" /\ task'[s].pc = "del"
                  => task'[s].item # i]_vars
  BY <1>1
<1> QED BY <1>2, LockTyping, CalmUntilLapseHolds, PTL DEF Spec

=============================================================================
