----------------------------- MODULE LockQueue -----------------------------
(***************************************************************************)
(* The lock and edit-queue service of one project                          *)
(* (src/src/socket/lock-queue.service.ts) together with the gateway        *)
(* handlers that drive it (src/src/socket/sync.gateway.ts) and the single  *)
(* FIFO connection to Redis it awaits (src/src/socket/redis.service.ts).   *)
(*                                                                         *)
(* The program is one JavaScript thread.  A websocket message or a timer   *)
(* runs to its first await without interruption, so it is one action,      *)
(* enabled only when no resumed call is waiting to run (Quiet).  The only  *)
(* awaits that really suspend are the round trips to Redis.  Replies that  *)
(* arrive in one network chunk resolve several promises before any of      *)
(* their continuations runs; those continuations then interleave.          *)
(*                                                                         *)
(* Wall-clock time is abstracted to a flag on a lock: Expire says that     *)
(* Date.now() has passed the expiresAt of the lock.                        *)
(***************************************************************************)
EXTENDS Integers, Sequences, FiniteSets, SequencesExt

CONSTANTS
  Users,        \* user ids
  NoUser,       \* "no user": the owner field of an absent lock
  Clients,      \* websocket objects; each is opened and closed once
  UserOf,       \* the user on whose behalf a client speaks
  Items,        \* item ids of the project
  NoItem,       \* "no item": the item field of an idle slot
  Slots,        \* places for asynchronous calls in flight
  Priorities,   \* priorities a queued edit can carry
  MaxEdits,     \* bound: edits ever queued
  MaxFailures   \* bound: Redis commands answered with an error

ASSUME LockConstants ==
  /\ NoUser \notin Users
  /\ NoItem \notin Items
  /\ UserOf \in [Clients -> Users]
  /\ Priorities \subseteq Int
  /\ MaxEdits \in Nat
  /\ MaxFailures \in Nat
  /\ IsFiniteSet(Slots)

VARIABLES
  locks,       \* locks: item -> its lock, or NoLock
  userLocks,   \* userLocks: user -> items recorded as locked by the user
  editQueues,  \* editQueues: item -> edits waiting for it
  status,      \* client -> "new", "open" or "closed"
  registered,  \* clients in clientToUserId and in userConnections
  room,        \* rooms[projectId]; the room exists while it is not empty
  redis,       \* the lock:* keys in Redis: item -> user, or NoUser
  pipe,        \* calls whose Redis command is in flight, in FIFO order
  task,        \* slot -> the asynchronous call it holds
  chunk,       \* TRUE while the replies of one network chunk are delivered
  nextEdit,    \* number of edits queued so far; gives each edit its id
  handed,      \* ids of edits that were sent to their author as processable
  dropped,     \* ids of edits taken from a queue and sent to nobody
  failures,    \* number of Redis commands that failed
  lapsed       \* TRUE once some lock has expired

memory  == <<locks, userLocks, editQueues>>
sockets == <<status, registered, room>>
edits   == <<editQueues, nextEdit, handed, dropped>>
vars == <<locks, userLocks, editQueues, status, registered, room, redis, pipe,
          task, chunk, nextEdit, handed, dropped, failures, lapsed>>

---------------------------------------------------------------------------
\* Data

Lock       == [user : Users \cup {NoUser}, expired : BOOLEAN]
Held(u, e) == [user |-> u, expired |-> e]
NoLock     == Held(NoUser, FALSE)
Edit       == [id : 1..MaxEdits, author : Users, priority : Priorities]

\* What an asynchronous call is for: the caller that awaits it.
Kinds == {"none", "acquire", "release", "releaseAll", "cleanup", "background"}

\* Where a call is: del and set wait for Redis; deleted, released and stored
\* have been resumed and wait for their turn in the microtask queue.
PCs == {"idle", "del", "deleted", "released", "set", "stored"}

Task == [pc : PCs, kind : Kinds, item : Items \cup {NoItem},
         user : Users \cup {NoUser}, rest : SUBSET Items]
CallAt(pc, k, i, u, todo) ==
  [pc |-> pc, kind |-> k, item |-> i, user |-> u, rest |-> todo]
NoTask        == CallAt("idle", "none", NoItem, NoUser, {})
Loop(k, u, todo) == CallAt("released", k, NoItem, u, todo)
At(t, pc)     == CallAt(pc, t.kind, t.item, t.user, t.rest)
Answered(t)   == At(t, IF t.pc = "set" THEN "stored" ELSE "deleted")
Without(t, i) == CallAt(t.pc, t.kind, t.item, t.user, t.rest \ {i})

Locked(i) == locks[i] # NoLock
Live(i)   == Locked(i) /\ ~locks[i].expired
Ids(q)    == {q[k].id : k \in DOMAIN q}

Resumed(s)  == task[s].pc \in {"deleted", "released", "stored"}
Quiet       == \A s \in Slots : ~Resumed(s)
FreeSlots   == {s \in Slots : task[s].pc = "idle"}
ExpiredSet  == {i \in Items : locks[i].expired}

\* Bound: every expired lock keeps a slot in reserve, so that the release
\* isLocked() may start for it in the background never has to wait for one.
CanStart == Cardinality(FreeSlots) > Cardinality(ExpiredSet)

Init ==
  /\ locks = [i \in Items |-> NoLock]
  /\ userLocks = [u \in Users |-> {}]
  /\ editQueues = [i \in Items |-> <<>>]
  /\ status = [c \in Clients |-> "new"]
  /\ registered = {}
  /\ room = {}
  /\ redis = [i \in Items |-> NoUser]
  /\ pipe = <<>>
  /\ task = [s \in Slots |-> NoTask]
  /\ chunk = FALSE
  /\ nextEdit = 0
  /\ handed = {}
  /\ dropped = {}
  /\ failures = 0
  /\ lapsed = FALSE

---------------------------------------------------------------------------
\* Parts of the calls.  Each changes memory and sends a Redis command in the
\* same uninterrupted step.

\* Mutant of Indexed: the user's set is created anew on every acquisition.
Indexed_Reset(i, u) == [userLocks EXCEPT ![u] = {i}]

\* userLocks with item i added for user u, or removed for its owner.
Indexed(i, u) == [userLocks EXCEPT ![u] = @ \cup {i}]
Unindexed(i)  == [userLocks EXCEPT ![locks[i].user] = @ \ {i}]

\* releaseLockImpl up to its await: forget the lock, then DEL.  The call that
\* waits for the answer is of kind k for user u, with todo to release after i.
BeginRelease(s, i, k, u, todo) ==
  /\ locks' = [locks EXCEPT ![i] = NoLock]
  /\ userLocks' = Unindexed(i)
  /\ task' = [task EXCEPT ![s] = CallAt("del", k, i, u, todo)]
  /\ pipe' = Append(pipe, s)

\* acquireLockImpl from the construction of the lock to its await: record the
\* lock whatever is there, then SET.
BeginGrant(s, i, u) ==
  /\ locks' = [locks EXCEPT ![i] = Held(u, FALSE)]
  /\ userLocks' = Indexed(i, u)
  /\ task' = [task EXCEPT ![s] = CallAt("set", "acquire", i, u, {})]
  /\ pipe' = Append(pipe, s)

\* Mutants of queueEdit: a newer edit overtakes those of its own priority; the
\* counter is read before it is advanced.
Position_AheadOfEquals(q, p) ==
  Cardinality({k \in DOMAIN q : \A j \in 1..k : q[j].priority > p})
NewEdit_StaleId(u, p) == [id |-> nextEdit, author |-> u, priority |-> p]

\* queueEdit: the new edit goes behind the leading edits of no lower priority.
Position(q, p) ==
  Cardinality({k \in DOMAIN q : \A j \in 1..k : q[j].priority >= p})
NewEdit(u, p)  == [id |-> nextEdit + 1, author |-> u, priority |-> p]
Enqueue(q, e)  == InsertAt(q, Position(q, e.priority) + 1, e)

---------------------------------------------------------------------------
\* Connections

\* A websocket connection is accepted; nothing is recorded for it.
Connect(c) ==
  /\ Quiet
  /\ status[c] = "new"
  /\ status' = [status EXCEPT ![c] = "open"]
  /\ UNCHANGED <<registered, room, memory, redis, pipe, task, chunk, nextEdit,
                 handed, dropped, failures, lapsed>>

\* registerUser: the client joins the connections of its user.
RegisterUser(c) ==
  /\ Quiet
  /\ status[c] = "open"
  /\ registered' = registered \cup {c}
  /\ UNCHANGED <<status, room, memory, redis, pipe, task, chunk, nextEdit,
                 handed, dropped, failures, lapsed>>

JoinProject(c) ==
  /\ Quiet
  /\ status[c] = "open"
  /\ room' = room \cup {c}
  /\ UNCHANGED <<status, registered, memory, redis, pipe, task, chunk, nextEdit,
                 handed, dropped, failures, lapsed>>

LeaveProject(c) ==
  /\ Quiet
  /\ status[c] = "open"
  /\ room' = room \ {c}
  /\ UNCHANGED <<status, registered, memory, redis, pipe, task, chunk, nextEdit,
                 handed, dropped, failures, lapsed>>

\* releaseAllUserLocksImpl's snapshot: keys indexed under the user that have
\* some lock, without a look at whose lock it is.
SnapshotOf(u) == {i \in userLocks[u] : Locked(i)}

\* The socket closes: leave the room, start releasing every lock of the user
\* (even if the user has other connections), forget the connection.
Disconnect(c) ==
  /\ Quiet
  /\ status[c] = "open"
  /\ status' = [status EXCEPT ![c] = "closed"]
  /\ room' = room \ {c}
  /\ registered' = registered \ {c}
  /\ IF c \in registered /\ SnapshotOf(UserOf[c]) # {}
       THEN /\ CanStart
            /\ \E s \in FreeSlots :
                 task' = [task EXCEPT ![s] = Loop("releaseAll", UserOf[c],
                                                  SnapshotOf(UserOf[c]))]
       ELSE task' = task
  /\ UNCHANGED <<memory, redis, pipe, chunk, nextEdit, handed, dropped, failures, lapsed>>

---------------------------------------------------------------------------
\* handleLockRequest and acquireLockImpl, one action per outcome of the
\* check on the existing lock.

\* No lock: take it.
RequestFree(c, i) ==
  /\ Quiet
  /\ status[c] = "open"
  /\ ~Locked(i)
  /\ CanStart
  /\ \E s \in FreeSlots : BeginGrant(s, i, UserOf[c])
  /\ UNCHANGED <<sockets, redis, chunk, edits, failures, lapsed>>

\* An expired lock: release it first and wait for Redis.
RequestExpired(c, i) ==
  /\ Quiet
  /\ status[c] = "open"
  /\ locks[i].expired
  /\ \E s \in FreeSlots : BeginRelease(s, i, "acquire", UserOf[c], {})
  /\ UNCHANGED <<sockets, redis, chunk, edits, failures, lapsed>>

\* The user's own live lock: its clock restarts.
RequestRenewed(c, i) ==
  /\ Quiet
  /\ status[c] = "open"
  /\ Live(i)
  /\ locks[i].user = UserOf[c]
  /\ locks' = [locks EXCEPT ![i] = Held(UserOf[c], FALSE)]
  /\ UNCHANGED <<userLocks, sockets, redis, pipe, task, chunk, edits, failures, lapsed>>

\* Somebody else's live lock: denied.  An edit that came with the request is
\* queued at its priority (no state changes when none came).
RequestDenied(c, i, p) ==
  /\ Quiet
  /\ status[c] = "open"
  /\ Live(i)
  /\ locks[i].user # UserOf[c]
  /\ nextEdit < MaxEdits
  /\ nextEdit' = nextEdit + 1
  /\ editQueues' = [editQueues EXCEPT ![i] =
        Enqueue(@, NewEdit(UserOf[c], p))]
  /\ UNCHANGED <<locks, userLocks, sockets, redis, pipe, task, chunk, handed,
                 dropped, failures, lapsed>>

\* handleLockReleased of the owner; any other release request is refused
\* without a change of state.
LockReleased(c, i) ==
  /\ Quiet
  /\ status[c] = "open"
  /\ Locked(i)
  /\ locks[i].user = UserOf[c]
  /\ CanStart
  /\ \E s \in FreeSlots : BeginRelease(s, i, "release", UserOf[c], {})
  /\ UNCHANGED <<sockets, redis, chunk, edits, failures, lapsed>>

\* The timer of onModuleInit: cleanupExpiredLocksImpl's snapshot.
CleanupTick ==
  /\ Quiet
  /\ IF ExpiredSet = {}
       THEN task' = task
       ELSE /\ CanStart
            /\ \E s \in FreeSlots :
                 task' = [task EXCEPT ![s] = Loop("cleanup", NoUser, ExpiredSet)]
  /\ UNCHANGED <<memory, sockets, redis, pipe, chunk, nextEdit, handed, dropped,
                 failures, lapsed>>

\* Time passes the expiresAt of a lock.
Expire(i) ==
  /\ Live(i)
  /\ CanStart
  /\ locks' = [locks EXCEPT ![i] = Held(@.user, TRUE)]
  /\ lapsed' = TRUE
  /\ UNCHANGED <<userLocks, sockets, redis, pipe, task, chunk, edits, failures>>

---------------------------------------------------------------------------
\* Redis answers the oldest command in flight, and its call is resumed.  More
\* answers may follow in the same chunk before any resumed call runs.

Written(s) == IF task[s].pc = "set" THEN task[s].user ELSE NoUser

\* Mutant of RedisReply: a pool of connections, so answers come in any order.
RedisReply_Pooled ==
  /\ Quiet \/ chunk
  /\ chunk' = TRUE
  /\ \E k \in DOMAIN pipe :
       /\ pipe' = RemoveAt(pipe, k)
       /\ redis' = [redis EXCEPT ![task[pipe[k]].item] = Written(pipe[k])]
       /\ task' = [task EXCEPT ![pipe[k]] = Answered(@)]
  /\ UNCHANGED <<memory, sockets, nextEdit, handed, dropped, failures, lapsed>>

RedisReply ==
  /\ Quiet \/ chunk
  /\ pipe # <<>>
  /\ chunk' = TRUE
  /\ pipe' = Tail(pipe)
  /\ redis' = [redis EXCEPT ![task[Head(pipe)].item] = Written(Head(pipe))]
  /\ task' = [task EXCEPT ![Head(pipe)] = Answered(@)]
  /\ UNCHANGED <<memory, sockets, nextEdit, handed, dropped, failures, lapsed>>

\* The command is answered with an error.  The caller logs it, or tells its
\* client, and gives up: what it had already done in memory stays done.
RedisError ==
  /\ Quiet \/ chunk
  /\ pipe # <<>>
  /\ failures < MaxFailures
  /\ failures' = failures + 1
  /\ task[Head(pipe)].kind # "background"
  /\ pipe' = Tail(pipe)
  /\ task' = [task EXCEPT ![Head(pipe)] = NoTask]
  /\ UNCHANGED <<memory, sockets, redis, chunk, nextEdit, handed, dropped, lapsed>>

\* Nobody handles the promise of a background release: its rejection ends the
\* process.  The restarted one has lost its memory and its sockets; any of
\* the commands already sent may still be executed.
RedisErrorEndsProcess ==
  /\ Quiet \/ chunk
  /\ pipe # <<>>
  /\ failures < MaxFailures
  /\ failures' = failures + 1
  /\ task[Head(pipe)].kind = "background"
  /\ redis' \in {r \in [Items -> Users \cup {NoUser}] : \A i \in Items :
        \/ r[i] = redis[i]
        \/ \E k \in DOMAIN pipe : task[pipe[k]].item = i /\ r[i] = Written(pipe[k])}
  /\ locks' = [i \in Items |-> NoLock]
  /\ userLocks' = [u \in Users |-> {}]
  /\ editQueues' = [i \in Items |-> <<>>]
  /\ dropped' = dropped \cup UNION {Ids(editQueues[i]) : i \in Items}
  /\ status' = [c \in Clients |-> IF status[c] = "open" THEN "closed" ELSE status[c]]
  /\ registered' = {}
  /\ room' = {}
  /\ pipe' = <<>>
  /\ task' = [s \in Slots |-> NoTask]
  /\ chunk' = FALSE
  /\ UNCHANGED <<nextEdit, handed, lapsed>>

---------------------------------------------------------------------------
\* Resumed calls.  Each of these runs one continuation to its next await.

\* Mutants of processQueuedEditsImpl: it does not look at the lock; it takes
\* the lock just released for one still held; it forgets to delete the queue
\* it copied.
Withheld_Never(i)  == FALSE
Withheld_Always(i) == TRUE
Taken_Kept(i)      == editQueues

\* processQueuedEditsImpl: a live lock withholds the queue; an expired one is
\* found, and released in the background, only if there are edits to take.
FindsExpired(i) == locks[i].expired /\ editQueues[i] # <<>>
Withheld(i)     == Locked(i)
Taken(i)        == [editQueues EXCEPT ![i] = <<>>]

\* releaseLockImpl after DEL: processQueuedEditsImpl, whose result is thrown
\* away.  The queue is emptied unless the item is locked again by now.
ProcessDiscarding(s) ==
  LET i == task[s].item IN
  /\ task[s].pc = "deleted"
  /\ task' = [task EXCEPT ![s] = At(@, "released")]
  /\ IF Withheld(i)
       THEN UNCHANGED <<editQueues, dropped>>
       ELSE /\ editQueues' = Taken(i)
            /\ dropped' = dropped \cup Ids(editQueues[i])
  /\ ~FindsExpired(i)
  /\ chunk' = FALSE
  /\ UNCHANGED <<locks, userLocks, sockets, redis, pipe, nextEdit, handed, failures, lapsed>>

\* The same when the item is locked again and that lock has expired: isLocked
\* starts to release it in the background and answers "not locked".
ProcessDiscardingExpired(s) ==
  LET i == task[s].item IN
  /\ task[s].pc = "deleted"
  /\ FindsExpired(i)
  /\ editQueues' = Taken(i)
  /\ dropped' = dropped \cup Ids(editQueues[i])
  /\ \E b \in FreeSlots \ {s} :
       /\ locks' = [locks EXCEPT ![i] = NoLock]
       /\ userLocks' = Unindexed(i)
       /\ task' = [[task EXCEPT ![s] = At(@, "released")]
                    EXCEPT ![b] = CallAt("del", "background", i, NoUser, {})]
       /\ pipe' = Append(pipe, b)
  /\ chunk' = FALSE
  /\ UNCHANGED <<sockets, redis, nextEdit, handed, failures, lapsed>>

\* acquireLockImpl after the release of the expired lock: the lock is taken
\* without another look at the item.
TakeOver(s) ==
  /\ task[s].pc = "released"
  /\ task[s].kind = "acquire"
  /\ BeginGrant(s, task[s].item, task[s].user)
  /\ chunk' = FALSE
  /\ UNCHANGED <<sockets, redis, edits, failures, lapsed>>

\* acquireLockImpl after SET: LOCK_ACQUIRED goes out, the call is over.
FinishGrant(s) ==
  /\ task[s].pc = "stored"
  /\ task' = [task EXCEPT ![s] = NoTask]
  /\ chunk' = FALSE
  /\ UNCHANGED <<memory, sockets, redis, pipe, nextEdit, handed, dropped, failures, lapsed>>

\* Mutants of Releasable: the loops pass no user, or always compare one.
Releasable_AnyOwner(s, i)   == Locked(i)
Releasable_SameOwner(s, i)  == Locked(i) /\ locks[i].user = task[s].user

\* The loops of releaseAllUserLocksImpl and cleanupExpiredLocksImpl: release
\* the next item of the snapshot, or pass over one that is no longer locked
\* or, for releaseAll only, locked by somebody else.
Releasable(s, i) ==
  /\ Locked(i)
  /\ task[s].kind = "releaseAll" => locks[i].user = task[s].user

\* Mutant of ReleaseNext: an item leaves the snapshot only once it is found
\* unlocked.
ReleaseNext_UntilFree(s) ==
  /\ task[s].pc = "released"
  /\ task[s].kind \in {"releaseAll", "cleanup"}
  /\ \E i \in task[s].rest : Releasable(s, i) /\ BeginRelease(s, i, task[s].kind, task[s].user, task[s].rest)
  /\ chunk' = FALSE
  /\ UNCHANGED <<sockets, redis, edits, failures, lapsed>>

ReleaseNext(s) ==
  /\ task[s].pc = "released"
  /\ task[s].kind \in {"releaseAll", "cleanup"}
  /\ \E i \in task[s].rest :
       /\ Releasable(s, i)
       /\ BeginRelease(s, i, task[s].kind, task[s].user, task[s].rest \ {i})
  /\ chunk' = FALSE
  /\ UNCHANGED <<sockets, redis, edits, failures, lapsed>>

PassOverNext(s) ==
  /\ task[s].pc = "released"
  /\ task[s].kind \in {"releaseAll", "cleanup"}
  /\ \E i \in task[s].rest :
       /\ ~Releasable(s, i)
       /\ task' = [task EXCEPT ![s] = Without(@, i)]
  /\ chunk' = FALSE
  /\ UNCHANGED <<memory, sockets, redis, pipe, nextEdit, handed, dropped, failures, lapsed>>

\* A loop that is through, or a background release nobody waits for.
FinishRelease(s) ==
  /\ task[s].pc = "released"
  /\ task[s].kind \in {"releaseAll", "cleanup", "background"}
  /\ task[s].rest = {}
  /\ task' = [task EXCEPT ![s] = NoTask]
  /\ chunk' = FALSE
  /\ UNCHANGED <<memory, sockets, redis, pipe, nextEdit, handed, dropped, failures, lapsed>>

\* handleLockReleased after releaseLock: LOCK_RELEASED goes to the room if
\* there is one, and the queue is processed a second time; now its edits are
\* handed to the connections of their authors.
Reachable(u) == \E c \in registered : UserOf[c] = u
HandOver(i) ==
  LET reached == {k \in DOMAIN editQueues[i] : Reachable(editQueues[i][k].author)}
      sent    == {editQueues[i][k].id : k \in reached}
  IN /\ editQueues' = Taken(i)
     /\ handed' = handed \cup sent
     /\ dropped' = dropped \cup (Ids(editQueues[i]) \ sent)

AnnounceRelease(s) ==
  LET i == task[s].item IN
  /\ task[s].pc = "released"
  /\ task[s].kind = "release"
  /\ task' = [task EXCEPT ![s] = NoTask]
  /\ IF room # {} /\ ~Withheld(i)
       THEN HandOver(i)
       ELSE UNCHANGED <<editQueues, handed, dropped>>
  /\ room # {} => ~FindsExpired(i)
  /\ chunk' = FALSE
  /\ UNCHANGED <<locks, userLocks, sockets, redis, pipe, nextEdit, failures, lapsed>>

AnnounceReleaseExpired(s) ==
  LET i == task[s].item IN
  /\ task[s].pc = "released"
  /\ task[s].kind = "release"
  /\ room # {}
  /\ FindsExpired(i)
  /\ HandOver(i)
  /\ BeginRelease(s, i, "background", NoUser, {})
  /\ chunk' = FALSE
  /\ UNCHANGED <<sockets, redis, nextEdit, failures, lapsed>>

---------------------------------------------------------------------------
\* The clients' and the clock's steps, Redis's, and the program's own.

ClientStep ==
  \E c \in Clients :
    \/ Connect(c) \/ RegisterUser(c) \/ JoinProject(c) \/ LeaveProject(c)
    \/ Disconnect(c)
    \/ \E i \in Items :
         \/ RequestFree(c, i) \/ RequestExpired(c, i) \/ RequestRenewed(c, i)
         \/ LockReleased(c, i)
         \/ \E p \in Priorities : RequestDenied(c, i, p)

Resume(s) ==
  \/ ProcessDiscarding(s) \/ ProcessDiscardingExpired(s)
  \/ TakeOver(s) \/ FinishGrant(s)
  \/ ReleaseNext(s) \/ PassOverNext(s) \/ FinishRelease(s)
  \/ AnnounceRelease(s) \/ AnnounceReleaseExpired(s)

Next ==
  \/ ClientStep
  \/ \E i \in Items : Expire(i)
  \/ CleanupTick
  \/ RedisReply \/ RedisError \/ RedisErrorEndsProcess
  \/ \E s \in Slots : Resume(s)

Spec == Init /\ [][Next]_vars

\* Resumed calls run and Redis answers.  The cleanup timer fires again and
\* again, and its callback is run however busy the event loop is.
Fairness ==
  /\ WF_vars(RedisReply)
  /\ \A s \in Slots : WF_vars(Resume(s))
  /\ SF_vars(CleanupTick)

FairSpec == Spec /\ Fairness

---------------------------------------------------------------------------
\* Properties

\* What a call knows: whoever acquires or releases has an item and a user.
CallShape(t) ==
  /\ t.pc = "idle" <=> t.kind = "none"
  /\ t.pc \in {"set", "stored"} => t.kind = "acquire"
  /\ t.pc \in {"del", "deleted"} \/ t.kind \in {"acquire", "release"} => t.item \in Items
  /\ t.kind \in {"acquire", "release", "releaseAll"} => t.user \in Users

\* Types of the state.
TypeOK ==
  /\ locks \in [Items -> Lock]
  /\ \A i \in Items : locks[i].user = NoUser => locks[i] = NoLock
  /\ userLocks \in [Users -> SUBSET Items]
  /\ editQueues \in [Items -> Seq(Edit)]
  /\ status \in [Clients -> {"new", "open", "closed"}]
  /\ registered \subseteq Clients
  /\ room \subseteq Clients
  /\ redis \in [Items -> Users \cup {NoUser}]
  /\ pipe \in Seq(Slots)
  /\ task \in [Slots -> Task]
  /\ \A s \in Slots : CallShape(task[s])
  /\ chunk \in BOOLEAN
  /\ nextEdit \in 0..MaxEdits
  /\ handed \subseteq 1..MaxEdits
  /\ dropped \subseteq 1..MaxEdits
  /\ failures \in 0..MaxFailures
  /\ lapsed \in BOOLEAN

\* A slot is in the pipe, once, exactly while its call waits for Redis, and
\* it then knows its item and, to record a lock, its user.
PipeMatchesCalls ==
  /\ \A s \in Slots : task[s].pc \in {"del", "set"} <=> \E k \in DOMAIN pipe : pipe[k] = s
  /\ \A j, k \in DOMAIN pipe : pipe[j] = pipe[k] => j = k

\* The lock of a user is always found under that user in userLocks, so the
\* release at disconnect misses none, although a takeover overwrites a lock
\* without looking at its owner's entry.
OwnerIndexed ==
  \A i \in Items : Locked(i) => i \in userLocks[locks[i].user]

\* As long as Redis answers, edits never wait for an item nobody will
\* release: the item is locked (an expired lock is released by the timer), or
\* a release is on its way to processing the queue.
QueueHasDrainer ==
  failures = 0 =>
    \A i \in Items : editQueues[i] # <<>> =>
      \/ Locked(i)
      \/ \E s \in Slots : task[s].item = i /\ task[s].pc \in {"del", "deleted"}

\* The lock:* key of an item, once the commands in flight are executed, names
\* the holder in memory: no interleaving of takeovers, releases and cleanup
\* leaves Redis with a lock that is gone or without one that is held.
MirrorAgrees ==
  failures = 0 =>
    \A i \in Items :
      LET sent == {k \in DOMAIN pipe : task[pipe[k]].item = i}
      IN locks[i].user = IF sent = {} THEN redis[i]
                         ELSE Written(pipe[CHOOSE k \in sent : \A j \in sent : j <= k])

\* A queue is in order of priority, and in order of arrival within one.
QueueOrdered ==
  \A i \in Items : \A j, k \in DOMAIN editQueues[i] :
    j < k => LET a == editQueues[i][j]
                 b == editQueues[i][k]
             IN \/ a.priority > b.priority
                \/ a.priority = b.priority /\ a.id < b.id

\* Every edit that was queued is in one place: waiting once in one queue, or
\* handed to its author, or dropped.  The two passes over the queue that one
\* release makes never process an edit twice.
EditsAccountedFor ==
  /\ handed \cap dropped = {}
  /\ \A i \in Items :
       /\ Ids(editQueues[i]) \cap (handed \cup dropped) = {}
       /\ Cardinality(Ids(editQueues[i])) = Len(editQueues[i])
  /\ 1..nextEdit = handed \cup dropped \cup UNION {Ids(editQueues[i]) : i \in Items}

\* Queued edits are taken only while no live lock is on the item, however the
\* item changed hands while the release that takes them waited for Redis.
QueueTakenWhenFree ==
  [][\A i \in Items : editQueues[i] # <<>> /\ editQueues'[i] = <<>> /\ failures' = failures
       => ~Live(i)]_vars

\* The service as a table of locks: who holds an item, and on whose behalf
\* it is being given back (by LOCK_RELEASED or by the loop of a disconnect).
Holder  == [i \in Items |-> locks[i].user]
GivingBack(t) == t.pc = "del" /\ t.kind \in {"release", "releaseAll"}
Leaving == {<<task[s].user, task[s].item>> : s \in {x \in Slots : GivingBack(task[x])}}
Table == INSTANCE LockTable WITH holder <- Holder, leaving <- Leaving

\* Until a lock expires for the first time the service implements the table
\* of locks: an item goes to one user at a time, and only its holder gives it
\* back, also when a disconnect works through a snapshot of the user's items
\* while others acquire and release them between its awaits.
TableSpec == Table!Spec

\* An expired lock does not stay: it is released, or replaced by a live one.
ExpiredLockGoes ==
  \A i \in Items : locks[i].expired ~> ~locks[i].expired

\* A call that clients wait for, or that the timer started, comes to an end.
CallsFinish ==
  \A s \in Slots : task[s].kind \in {"acquire", "release", "releaseAll", "cleanup"}
                    ~> task[s].kind \in {"none", "background"}

\* Comments at lock-queue.service.ts:58, acquireLock returns "true if lock
\* acquired, false if already locked", and 343, "Clean up expired locks" - so
\* a live lock is neither replaced by another user's nor removed by the timer.
LiveLockKept ==
  [][\A i \in Items : Live(i) =>
       /\ locks'[i].user \in {locks[i].user, NoUser}
       /\ \A s \in Slots :
            task[s].kind = "cleanup" /\ task[s].pc # "del" /\ task'[s].pc = "del" => task'[s].item # i]_vars

\* Comment at sync.gateway.ts:1274: on a release "Process queued edits and
\* notify users" - so with everyone connected and in the room no edit is taken
\* from a queue without being sent to its author.
NoEditDropped ==
  [][room = Clients /\ registered = Clients /\ failures = 0 => dropped' = dropped]_vars

=============================================================================
