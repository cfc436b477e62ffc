# Starsync backend: verification project

TLA+ models of the Starsync backend (a NestJS server for collaborative music
editing), model-checked with TLC and, in part, proved with TLAPS. Paths are those
of the repository; line numbers refer to the commit the models were written for.

## 1. Inventory

The program is one Node.js process: one thread, callbacks run to their next
`await` without interruption. State is in the memory of that process, in Redis
(one FIFO connection) and in MySQL (a pool of connections, no explicit
transactions). "Hard" below means: hard to reach with a unit test.

| Component | State | Operations | Hard behaviour |
|---|---|---|---|
| `SyncGateway` (`src/socket/sync.gateway.ts`, raw websockets on port 4000) | `rooms`, `userConnections`, `clientToUserId`, `pendingMessages` | connect/close, `registerUser`, `joinProject`/`leaveProject`, `shareProject`(`Update`), eleven relayed editor events, `processMessage`, lock requests and releases | several tabs of one user, sockets that are closing, queue for absent recipients, read-modify-write of Redis across awaits |
| `LockQueueService` (`src/socket/lock-queue.service.ts`) | `locks`, `userLocks`, `editQueues`, the `lock:*` keys in Redis | `acquireLock`, `releaseLock`, `releaseAllUserLocks`, `isLocked`, `queueEdit`, `processQueuedEdits`, `cleanupExpiredLocks` | expiry, takeover of expired locks, snapshots worked off across awaits, a release nobody awaits |
| `RedisService` (`src/libs/redis/redis.service.ts`) | the Redis connection | `setItem`, `addItem` (get then set), `getItem`, `deleteItem` | pipelining, failed commands, lost updates |
| `ProjectService` (`src/project/project.service.ts`) | MySQL `project`, `collaborator`, `project_snapshot`, `project_activity`; content in Redis | create, delete, collaborators, snapshots and restore, activity | check-then-act across awaits, restore against running edits |
| `ProjectInvitationService` (`src/project/project-invitation.service.ts`) | MySQL `project_invitation`, `collaborator` | send, accept, reject, cancel | races between two answers, two saves without a transaction |
| `PermissionService` (`src/libs/services/permission.service.ts`) | reads `project`, `collaborator` | role of a user, `canView`, `canEdit`, ... | the answer is stale when it is used |
| `VersionTrackerService` (`src/project/version-tracker.service.ts`) | version lists in memory and Redis | `trackChange`, `createSnapshotVersion`, load, restore | only `restoreToVersion` and the readers are called from the program |
| `PatternCommentService` (`src/project/pattern-comment.service.ts`) | MySQL `pattern_comment` | create, list, move, delete; events to all subscribers | a copy saved after a deletion, events out of order |
| `FriendService` (`src/friend/friend.service.ts`) | MySQL `friend`, `friend_request` | requests, accept, reject, cancel, add, remove | duplicate and crossing requests |
| `ChatGateway`, `ChatService`, `ChatController` (`src/socket/chat.*.ts`) | socket rooms, `chat_message`, `chat_read_receipt` | register, join, send, mark as read, pages of the history | receipts inserted twice, pages that shift, messages announced between two pages |
| `NotificationGateway` (`src/socket/notification.gateway.ts`) | `userId` to sockets | subscribe, disconnect, `send*` | re-subscription |
| `AuthService`, `AuthMiddleware`, `JwtService`, phpass | MySQL `user` | register, login | sequential; hashing is a library matter |
| `UserService`, `TranscriptionService`, `LatencyLogger`, `Telemetry`, controllers, entities, migrations, HTML test pages | - | reads, forwarding, measuring, schema | little or no state of their own |

What makes the main parts correct:

* locks: one holder per item, the per-user index finds every lock, Redis mirrors
  memory, expired locks go, queued edits are taken in order, once, and only when
  nobody holds the item, and are not forgotten;
* sessions: rooms and the registry hold the sockets that are there, a share is
  delivered once and in order, or waits, and never waits for somebody who is
  connected;
* content: what the room is told was stored, a restore keeps a backup;
* membership: one row per member, an invitation is answered once, comments go with
  their project, and what users are told is what the tables say;
* chat: a message reaches everybody in its room and its recipient, a page that reads
  the history misses nothing but what it discards itself, receipts are unique and
  counted right.

## 2. Modules

### LockQueue

One project's locks. Each asynchronous call occupies a *slot*; `task[s].pc` says
at which `await` it is:

```
del  --RedisReply-->  deleted  --ProcessDiscarding-->  released  --> next step of the caller
set  --RedisReply-->  stored   --FinishGrant-->  idle
```

`task[s].kind` is the caller: a lock request (`acquire`), `handleLockReleased`
(`release`), `releaseAllUserLocks`, the timer (`cleanup`), or `isLocked`'s
un-awaited release (`background`). The code between two awaits is one action:
`BeginRelease` is `releaseLockImpl` up to its `DEL`, `BeginGrant` is the second
half of `acquireLockImpl` up to its `SET`. `pipe` is the FIFO connection.
A handler or timer starts only when no resumed call waits (`Quiet`: microtasks
run before the next event). Replies of one network chunk resume several calls
at once, which then interleave in any order (`chunk`); this allows every order of the
microtask queue and a few more.

Time is a flag per lock: `Expire` may fire at any moment for a live lock. A
failed Redis command leaves memory as it is and ends the call (`RedisError`);
in a background release it ends the process (`RedisErrorEndsProcess`), because
its promise has no handler and Node ends on unhandled rejections.

`handed` and `dropped` are bookkeeping of the model: ids of edits sent to their
author, or taken from a queue without being sent.

`LockTable` is the promise of the service until a lock expires: an item that is free is
given to one user at a time, and it comes back on behalf of that user only, by a release
or a disconnect, whatever the calls have in hand. `TableSpec` says that `LockQueue` implements
it with `holder <- Holder` and `leaving <- Leaving` (for whom an item is being given back, while
the command waits for Redis). `lapsed` is bookkeeping: TRUE for good once some
lock has expired; what the table does after that is not said, because by then the
promise does not hold (section 5).

### SyncSession and Mailbox

`SyncSession` has the sockets, rooms, the registry, sharing and the relayed
events. All its handlers are free of awaits, so each is one action. A socket is
`new`, `open`, `closing` (gone, close event not yet handled; its buffered
messages are still handled, sends to it vanish) or `closed`. The eleven relayed
events have the same effect and differ in payload only, which is abstracted:
each is an operator of its own that stands for its handler. Shares are numbered
(`shares`); `received`, `heard`, `taken` and `lost` are bookkeeping.

`Mailbox` is the promise of sharing: a message for a user waits or is taken at
once, and messages are taken once, in the order they were posted.
`MailboxSpec` says that `SyncSession` implements it with `posted <- shares`,
`waiting <- pendingMessages`.

The release of locks at a close is in `LockQueue` (`Disconnect`), where a client
speaks for one user; re-registration under another id is in `SyncSession`.

### ProjectContent

The stored notes of one project: `processMessage`, `createSnapshot`,
`restoreSnapshot`, and the two Redis keys they read and rewrite. `pipe` holds
the commands Redis has not executed, `replies` the calls whose command is
executed and that have not gone on; a call's `pc` is the command or the save it
waits for. `Execute` lets Redis perform the head of `pipe`; `Turn` keeps calls at
one await in the order of their replies. A note is its uuid and the number of the
message whose values it has. `stored` and `ideal` are bookkeeping: the messages in
the order of their `SET`, and what the content would be if each write had seen the
one before it. `overlapped` becomes TRUE, for good, when a call starts while
another runs: overlapping calls lose updates by design of the code
(`sync.gateway.ts:760-792`), so the properties named `Alone...` speak of calls that
follow each other, and the others of what no overlap may do.
Clients are assumed to give a new note a fresh uuid: no other message adds it (a guard
of the start of a message), and no message adds it twice (`NewNotes`).

### Membership

Projects, collaborators, invitations and roles. A request occupies a slot; its
`pc` is the query it performs next. There are no transactions, so requests
interleave between any two queries. Foreign keys are part of the queries (the
migrations): a collaborator keeps its project from being deleted, invitations
are deleted with it, and no row is inserted for a project that is gone. `save()`
of an invitation that was deleted meanwhile inserts it again (`Mark`). The
requests start at the services: some controllers pass their whole parameter
object on (`project.controller.ts:52,59,72`), which is left out.

Two rows of an invitation's life are told to sockets: `tell` is the await after
which inviter and invitee are notified (`told` records it); a cancellation is told in
the step that deletes the row.

### NotificationGateway and Friends

`NotificationGateway` has the sockets of the `/ws` namespace and the two maps of
subscriptions; it has no `Next` of its own to run but is extended by `Friends` and
`Membership`, which send their notifications to `Listeners`. `Friends` has the friend
service; its calls are split at their queries as in `Membership`. `told` records
every notification, `befriended` the requests through which a friend row was inserted.

### PatternComments

Extends `Membership` by the table of comments: `CommentsNext` is a step of
`Membership`, with the cascade of a deleted project, or a step of a comment request,
which shares the slots with all others. Permission is `UserRoles` of `Membership`, so
a comment may be inserted for a member who was removed meanwhile. The place of a
comment (track and bar) is the number of the request that set it. `heard` is what a
listener last heard of each comment; the code repeats an event once per member of the
project, which makes no difference to it and is left out. Events go to every socket
with the channel `projectInvitations`, whatever its project (`Audience`).

### Chat

The `/chat` namespace, the two tables, the HTTP requests that mark messages as read,
and a `reader`: the page `chat-user1.html` that loads the history page by page while
`hasMore` says so. Handlers of connections have no await and are one action each.
`emitted` is what the last step gave out - the announcement of a message with its
hearers, or an answer - and `Nothing` otherwise. A request of the page for a part of the
history is three steps: the two queries of the server (`FetchRows`, `FetchCount`) and the
arrival of the response (`ReceivePage`). `reader.shown` is `allMessages`. As on the page,
loading and joining the room are independent: the socket joins when it has connected
(`ReaderWith`), before, while or after page 1 is asked for, and again after a reconnect; what
it hears is shown at once (`HandleNewMessage`); and the response of page 1 replaces all that
is shown, also what was heard in the meantime (`chat-user1.html:428`), while a later page is
added. A request that fails leaves the page where it was, and of a failed page 1 nothing is
kept and page 2 is asked for next (`LoadFailed`). `reader.upto` and `reader.told` are
bookkeeping: how many messages there were at the first query, and which had been announced
when the page last joined or was answered page 1. An announcement reaches a page in the
step that sends it. The unique key on message and user is part of the inserts (`Collides`): a collision ends the
call with an error, and takes the whole batch of `markRoomAsRead` with it.
`Restart` loses calls and connections and keeps the tables.

## 3. Runs

| Run | Instance | Shows |
|---|---|---|
| `locks` | 2 users, 3 clients (two tabs of one user), 2 items, 3 slots, no edits, no failures | index, mirror, refinement of `LockTable` until a lock expires |
| `queue` | 2 users, 2 clients, 1 item, 2 slots, 3 edits of priorities 0 and 1, 1 failed command | order, single processing and drainage of the queue, typing through a restart |
| `lock_live` | 1 item, 1 edit, 1 failed command, `FairSpec` | expired locks go, calls end |
| `sessions` | 2 users, 3 clients, 2 projects, 2 messages (shares and relayed events together) | registry, rooms, sharing, refinement of `Mailbox` |
| `edits` | 1 client, 2 uuids, 4 kinds of messages, 2 slots, 2 messages, 1 failure | content, history, broadcasts, undoable restores |
| `membership` | `PatternComments`: 2 users, 1 socket, 2 projects of one name, 2 roles, 2 slots, 4 requests, 1 failure | rows, invitations, comments, and what is told of them |
| `friends` | 2 users, 2 sockets, 2 slots, 3 calls, 1 failed write | friendships, answers and who hears of them |
| `chat` | 2 users and their room, 2 sockets, pages of 1 message, 2 old messages, 2 slots, 2 calls, 1 failure (a write, a request or the process) | delivery, receipts, what a page shows of the history |
| `takeover`, `dropped`, `backup`, `accept` | smaller | disagreements of comments and code (section 5) |

What the properties say (each is stated in full where it is defined):

* `locks`: `OwnerIndexed` (a lock is always found under its user, so that a
  disconnect misses none), `MirrorAgrees` (once the commands in flight are
  executed, Redis names the holder that memory has), `TableSpec` (the refinement: until
  a lock expires, no call in flight, however it waits, gives an item to a second user, or
  gives it back for anybody but its holder).
* `queue`: `TypeOK`, `EditsAccountedFor` (an edit waits once, or was handed to its
  author, or dropped, never twice), `QueueOrdered` (priority, then arrival),
  `QueueHasDrainer` (edits wait only for an item that somebody will release),
  `QueueTakenWhenFree` (edits are taken only while no live lock is on the item).
* `lock_live`: `ExpiredLockGoes` and `CallsFinish`, under `FairSpec`.
* `sessions`: `TypeOK`, `RegistryAgrees` (both halves of the registry agree on who
  is behind an open client), `NoShareStranded` (no share waits for a user who is
  connected), `ShareAccountedFor` (shares are queued, received or lost in a flush), `RoomsAlive` (a room has a
  member that is not gone), `DeliveredInOrder` (shares and relayed events arrive in order),
  `MailboxSpec` (the refinement).
* `edits`: `TypeOK`, `AloneIsExact` (the content is what the messages make of
  it one after the other), `HistoryLeads` (the history is never behind the content),
  `NotesUnique`, `SeenAsStored` (broadcasts come in the order of the writes, and
  never before them), `RestoreUndoable` (what a restore overwrites is in a snapshot).
* `membership`: `CommentsTypeOK`,
  `AcceptedHasJoined` (the collaborator comes before the answer, and before anybody is
  told), `JoinedIsAnswered` (a collaborator's invitation stays pending only while it is
  being accepted, or after a failed write), `AloneFinal` (an answer
  is not changed afterwards), `AloneOneStory` (inviter and invitee are told one answer,
  the one in the table), `CommentsRefer` (rows of every table go with their
  project, also those that are saved from a copy), `AloneHeardLatest` (a listener's last event
  about a comment is what the table says).
* `friends`: `TypeOK`, `SubscriptionsAgree` (the two maps of subscriptions agree),
  `AcceptedBefriended` (the friend row comes before the answer),
  `AloneOneAnswer` (both users are told one answer, the one in the table),
  `AloneOnePerPair` (one pending request for a pair; and one friend row, unless a friend
  was added past a pending request or a write failed).
* `chat`: `TypeOK`, `RecipientNotified` (whatever connections registered, registered
  again and went, those whose last registration is the recipient's are notified),
  `MarkedOnce` (one receipt per message and user, and each answer counts the receipts of
  its call), `AllRead` (a room marked without an error has nothing unread of what was
  there when the call came in), `NothingMissed` (a page that stops when `hasMore` is
  false shows all that was there at its first query, though the pages shift and
  requests fail; of what came later it misses, while its socket is in the room, only what
  was announced before it had joined or been answered page 1, or is about to be announced).

The properties named `Alone...` speak of calls that follow each other: they show that
failures, restarts and any order of legal calls leave things right, and nothing of
overlapping calls, which the code does not keep apart. What no overlap may break is the
subject of the others (`AcceptedHasJoined`, `JoinedIsAnswered`, `CommentsRefer`,
`AcceptedBefriended`, `NotesUnique`, `SeenAsStored`); `HistoryLeads` and
`RestoreUndoable` too are about calls that follow each other. What was told is kept as a set:
that a user is told one answer is checked, that he is told it a single time is not.

Bounds. Two users and two clients are enough for every conflict over an item,
which is always between a holder and another; a third slot lets a third call
(timer or background release) run between two others, and a second item is
what the loops over snapshots need. Three edits of two priorities give an edit
that arrives before, among and after others of its own, of lower and of higher
priority. Three clients of two users give one user two tabs, one of them
closing; the properties of messages are about pairs, so two messages, each a
share or a relayed event, are enough. `CanStart` bounds the calls in flight: a call
starts only while a slot remains for every lock that has expired, so that
`isLocked` is never blocked by the bound. In the modules of calls two slots give
every overlap of two calls; four requests are, for example, the creation of a
project, an invitation, and two answers to it that overlap, or the creation of a
project and of a comment, a move and a deletion; three calls the same for friends.
Two calls are enough in `chat`, where every property relates a call to one other, or to
a page; pages of one message make every message a new page. The two constraints of
`MCChat` keep apart what does not touch: marking messages reads and writes nothing of
connections and readers (`Apart`), and a reader looks at one connection at a time, leaving
and joining again with another included, and messages of all senders are alike to it
(`OneReads`).
Rooms that are not of two users are left out of the instance. In `locks`, where
there are no edits, the room matters to nobody, so `OneInRoom` lets one client enter it only.

Fairness (`lock_live`): weak fairness of `RedisReply` (the connection answers)
and of each slot's continuation (the event loop runs microtasks to the end);
strong fairness of `CleanupTick`: `setInterval` fires again and again and its
callback is run although other events keep the loop busy. Nothing is assumed
of clients or of expiry.

Deadlock is checked for `LockQueue`. It is not elsewhere: there the sockets of an
instance, its messages and its requests are used up, and then nothing is left to
do.

## 4. Proofs

Each theorem holds for every value of the constants, from the named assumption of its
component's module alone (`LockConstants`, `SessionConstants`, `FriendsConstants`,
`ChatConstants`, ...; for the content also `NewNotes`).

| Module | Theorem | Of |
|---|---|---|
| `LockQueue_proofs` | `TypeCorrect` | `[]TypeOK` |
| | `LocksIndexed` | `[]OwnerIndexed` |
| | `QueuesDrained` | `[]QueueHasDrainer` |
| | `QueueTakenSafely` | `QueueTakenWhenFree`, a property of steps |
| | `EditsKept` | `[]EditsAccountedFor` |
| | `QueuesInOrder` | `[]QueueOrdered` |
| | `MirrorFollows` | `[]MirrorAgrees` |
| | `LiveLockTakers` | who takes a live lock from its holder |
| | `TableUntilLapse` | `TableSpec`, the refinement |
| | `LiveLockKeptUntilLapse` | `LiveLockKept` in each step before a lock has expired |
| `SyncSession_proofs` | `RegistryConsistent` | `[]RegistryAgrees` |
| | `NoDeadRoom` | `[]RoomsAlive` |
| | `SharesReachTheConnected` | `[]NoShareStranded` |
| | `SharingImplementsMailbox` | `MailboxSpec`, the refinement |
| | `SharesKept` | `[]ShareAccountedFor` |
| | `ArrivesInOrder` | `[]DeliveredInOrder` |
| | `Types` | `[]TypeOK` |
| `Friends_proofs` | `TypeCorrect` | `[]TypeOK` |
| | `BefriendedFirst` | `[]AcceptedBefriended` |
| | `SubscriptionsConsistent` | `[]SubscriptionsAgree` |
| | `OneStory` | `[]AloneOneAnswer` |
| | `OnePerPair` | `[]AloneOnePerPair` |
| `PatternComments_proofs` | `RowsBelong` | `[]CommentsRefer` |
| | `JoinedFirst` | `[]AcceptedHasJoined` |
| | `Types` | `[]CommentsTypeOK` |
| | `JoinedAnswered` | `[]JoinedIsAnswered` |
| | `OneAnswerTold` | `[]AloneOneStory` |
| | `AnswersFinal` | `AloneFinal`, a property of steps |
| | `HeardLatest` | `[]AloneHeardLatest` |
| `ProjectContent_proofs` | `Exact` | `[]AloneIsExact` |
| | `HistoryFirst` | `[]HistoryLeads` |
| | `Undoable` | `RestoreUndoable`, a property of steps |
| `ProjectNotes_proofs` | `Types` | `[]TypeOK` |
| | `SeenInOrder` | `[]SeenAsStored` |
| | `NoNoteTwice` | `[]NotesUnique` |
| `Chat_proofs` | `RecipientHears` | `[]RecipientNotified` |
| | `ReceiptsCounted` | `[]MarkedOnce` |
| | `RoomRead` | `[]AllRead` |
| | `HistoryComplete` | `[]NothingMissed` |
| | `Types` | `[]TypeOK` |

With these every invariant and every property of steps that a passing run checks is a
theorem; only the two liveness properties of `lock_live` are model-checked alone. Two
theorems, `LiveLockTakers` and `LiveLockKeptUntilLapse`, state what no passing run checks: they
complete the disagreement `takeover` (section 5).

`NotificationGateway_proofs` holds the lemmas about the subscriptions that the modules
composed with it cite. Each proof has a lemma or a step per action.

* `LockQueue`: `TypeOK` is not inductive: `RedisReply` resumes the call at the head of
  `pipe` whatever its state, so the proof needs `PipeMatchesCalls` (a slot is in the pipe
  once, exactly while its call waits for Redis); `Typing` is their conjunction. The
  other theorems follow by induction, or from one step, relative to `Typing`. For the
  edits, `StepOnEdits` says what any step does to them: nothing, `Queues`, `Takes` or
  `LosesAll`. `EditsAccountedFor` is inductive with `QueuesApart` (no two queues share an
  edit), and it is what makes the id of a new edit the largest, which the order of the
  queues needs; `PositionSplits` shows that the insertion index of `queueEdit` separates
  the priorities. For the mirror, `Mirror` says that the last command in flight for an item
  writes its holder, with the existence of a last one part of the invariant. `HoldersStep`
  is what any step does to the holders. In any behaviour a live lock leaves its holder by
  his own release or disconnect (`GivesBack`), or by a call that acts on what it saw expired
  before an await (`TakesOver`, `CleansUp`), or with the process. Until a lock expires
  no such call is in flight (`Calm`, an invariant as long as `lapsed` is FALSE), and each step
  is one of `LockTable` or changes neither `Holder` nor `Leaving`; the step in which a
  lock expires is `Lapse`, and what follows it is a step of the table in any case.
* `SyncSession`: the registry is inductive with the fact that the current client of a
  user is open; on top of it stand the rooms and the queues of shares. The refinement
  needs that invariant in one place: a share goes into a queue only when the recipient has
  no open client, so a delivery never overtakes what still waits. `StepOnShares` sums up
  what a step does to the shares: nothing, `Queues`, `PassesThrough` or `Flushes`. Where a
  share is (`Placed`, inductive with the fact that queues have no share in common) bounds
  the numbers on their way, so the next one is the largest; the order of delivery
  (`InOrder`) then needs that what a client received for a user came before all of that
  user's queue (`BeforeQueue`). The types follow from `Placed` and from `Counted`, which
  bounds the messages of both kinds together and says that only given numbers are taken.
* `Friends`: which kinds of calls can be at which query (`CallTyped`) is what makes an
  accepting call recognizable at `mark` and `tell`: it has passed `insertFriend`
  (`AcceptingBefriended`), the only way to these queries for its kind. Rows and
  notifications then carry it on. `Alone` is the invariant of the properties of calls that
  follow each other: one call is busy, and what it has found in the tables is still there
  (`Knows`: `FoundFriends`, `FoundRequests`, and a request it is about to insert is not in
  the table, `Unused`). That stays true only because nobody else runs, and is needed because a
  call acts on what it found several queries ago. `OnePerPair` also needs that between
  friends no request is pending but the one that is being marked (`AllApart`), which crossing
  and failed calls break; the invariant says so only while there were none.
* `PatternComments` (with the requests of `Membership`): as in `Friends` a request's kind
  fits its query (`TaskOK`), so one that accepts and is at `mark` or `tell` has inserted
  the collaborator (`AcceptingJoined`). That an id names one row although rows are saved
  from copies needs `NamesInv`: a number is carried by a row, or by a copy that a
  request holds (`Holds`), only once the request of that number has inserted its row, so
  an insertion meets neither its own row nor a copy of it. Four invariants stand on it.
  `Answering`: all copies of an invitation are about one project (`CopiesAgree`) and
  collaborators come from invitations that were inserted (`Given`), so the one row that
  is marked is the one that was joined through. `Alone`, as for friends: one busy request,
  which holds the invitation as the table has it (`Knows`). `Hearing`: every listener has
  heard the truth of each comment (`HeardRight`) but of the one a request is about to
  announce; a deleted project takes its comments along without an event, so what was
  heard of it is right as it stands (`OldProject`), and the id of a new project was never
  heard of (`NewProject`). `Typed`: the types of the tables and of what each request holds at its
  query (`Handy`).
* `ProjectContent`: while calls did not overlap there is at most one, so the invariant
  (`IInv`) says where it can be (`Waits`, `Answered`, `Saves`) and what it knows there: what
  it has read is still stored, a message that is in the history and not yet in the
  content is the last of the history (`Ahead`), and what a restore is about to
  overwrite is in a snapshot. A failed command ends the call or the process with one
  call in the pipe, so nothing behind it is executed. What the entries of a message do to
  notes (`Edited`) is never looked into: the theorems of `ProjectContent_proofs` hold for
  any edit.
* `ProjectNotes`: these theorems hold whatever calls overlap. `Edited`, `Without` and
  `KeysAfter` are recursive functions on an interval; the prover cannot instantiate an
  induction theorem with a predicate, so induction is by membership of a set (`Least`,
  from the well-foundedness of `<` on the naturals, then `UpTo` and `Iteration`). `EditedKeeps` is
  what it gives: an edit keeps notes well formed and unique, and adds only what its message
  adds. `Typed` has the values, the keys, the calls and the commands in flight (a slot waits
  for Redis once, in `pipe` or in `replies`), and `ExecutesAfter` says what a restart of the
  server leaves Redis to execute. `DueInOrder` is the invariant of the broadcasts: what the
  room has seen, followed by the messages whose replies wait, is in the order of the
  writes. `Clean` is that of the notes: no copy of them, in Redis, in a snapshot or in the
  hands of a call, has a note that a message not yet written adds. Uniqueness of the notes
  alone is not inductive, since a call adds to a copy that may be stale.
* `Chat`: the invariant has one part per call in flight (`CallInv`): where it has stored
  its message (`Stored`), that what it found unread still covers what was there when it
  came in (`Covered`: every such message is in its list or has a receipt by now), and how many
  receipts in the table are its own (`Counted`). `CallKept` shows that no other call
  can disturb it, because tables only grow and a call's number is its own. The
  unique key of the receipts (`Collides`) is used in one lemma, `ReceiptsAdded`. `Reads` is
  the invariant of the reader: every message of its first query that it does not show has at
  least as many newer ones as the pages it has loaded hold, and the same of what it will show
  once the response is in (`Ahead`, of `Beyond` and `Loaded`). New messages only add to
  that: messages move away from the reader, never past it. If the count leaves no more
  to ask for, then nothing is missing, because messages of a page are told apart by
  how many are newer, so that it holds `Limit` at most (`PageBound`). While its socket is in the room,
  each message is shown, or was told, or is about to be announced (`Followed`): joining and the
  response of page 1 make that true anew, every other step keeps it. For `Types`, each
  call that is about to store a message counts as one (`Inserting`), which bounds the
  messages by the old ones and the calls.

Left to TLC: `ExpiredLockGoes` and `CallsFinish`, because liveness under fairness and
`ENABLED` are out of the prover's reach; and the properties of section 5, which do not hold.

## 5. Where code and comments disagree

* `takeover`: of two requests for an expired lock, the one that had to wait for
  its release overwrites the live lock the other got meanwhile; both are told
  they have it (`lock-queue.service.ts:58` against lines 86-111). The same
  property, `LiveLockKept`, is broken by the timer, which releases live locks that
  were renewed or taken while it was awaiting Redis (line 343 against 362-364). These two
  and the end of the process are the only ways (`LiveLockTakers`), and without an expired lock
  neither happens (`LiveLockKeptUntilLapse`).
* `dropped`: the release empties the queue itself and throws the edits away;
  the notification of the authors finds nothing (`sync.gateway.ts:1274` against
  `lock-queue.service.ts:173`).
* `backup`: a message stored between the backup of a restore and its `SET` is in
  no snapshot (`project.service.ts:317` against lines 315-326).
* `accept`: two overlapping accepts of one invitation make two collaborators
  (`project-invitation.service.ts:391` against lines 394-424).

Not counted as disagreements, because nothing in the repository claims
otherwise, but worth knowing: overlapping messages overwrite each other
(`sync.gateway.ts:760-792`); `removeCollaborator` removes a user from every
project (`project.service.ts:168`); a request cancelled while it is answered
comes back answered; a friend added past a pending request is a friend twice
after it is accepted (`friend.service.ts:248`); a socket that subscribes for a
second user is acknowledged but hears of the first only
(`notification.gateway.ts:118-143`); a connection registered under two ids stays in the
connections of the first for good, on the raw socket (`sync.gateway.ts:269`) and in the
chat (`chat.gateway.ts:76`), where it also goes on hearing of the first user's messages
while it is open; a comment that is moved while it is deleted comes back
(`pattern-comment.service.ts:205`); closing one connection releases all locks of its user, also those taken through another one
that is open (`sync.gateway.ts:124`).

The chat page (`chat-user1.html`) can lose a message until it is opened again, in three ways,
which is why `NothingMissed` says what it says. The response of page 1 replaces what the page
has heard (line 428): a message stored after the rows were read, and announced before the
response is in, is on neither side. The page asks for page 1 at once and joins the room
when its socket has connected (lines 317-319, 355-358), so a message announced between the two,
or while the connection is lost, is not heard. And after a failed page 1 the next request
is for page 2 (lines 401, 443). When pages shift, a message can also be shown twice
(line 436), which the model, where `shown` is a set, does not tell.

## 6. Not modelled

* `VersionTrackerService`: the only writer the program reaches is `trackChange`, from
  `restoreToVersion`, which needs a version with a full state, and nothing
  creates one; so no reachable call changes its state.
* `AuthService`, `JwtService`, phpass: sequential, around library functions.
* `UserService`, the lists of every service, controllers, telemetry,
  transcription, test pages: no state that other parts depend on.
* Payloads, validation texts, logging, and permissions of the raw websocket
  messages (there are none in the code).
* Several server processes: the code keeps locks and rooms in one process.

## 7. Plan

What is left of the model: the activity log of `ProjectService`; a restart of the process in
`LockQueue` that no failed command causes.

Next theorems: an abstract specification of the answers to requests that `Friends` and
the invitations of `Membership` implement between requests, and of the history that the
reader of `Chat` sees.
