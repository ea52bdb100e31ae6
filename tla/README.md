# ruslock: specifications, model checking and proofs

`ruslock` is a client library for the slock lock server, with a blocking and a
tokio (aio) implementation. This directory holds TLA+ models of its concurrent
core, TLC configurations that check them on small instances, and theorems that
TLAPS proves for every instance. Paths below are relative to the repository.

## 1. The system

| part | source | state | operations | talks to |
|---|---|---|---|---|
| blocking connection | `src/blocking/connection.rs`, `client.rs` | `closed` (atomic), `writer`, `pending`, `init_type`, `client_id` (mutexes); one mpsc channel per call; a reader thread per successful `open` | `open`, `close`, `send_command`, reader loop, `wake_all` | user threads share one `Connection`; the reader wakes calls through their channels; TCP to a server |
| aio connection | `src/aio/connection.rs`, `client.rs` | the same over tokio mutexes and oneshot channels; `PendingCleanup` guards | the same as futures, which may be dropped at any await | as above; split read and write halves |
| replica set | `src/blocking/replset.rs`, `src/aio/replset.rs` | `active_index`, `pending_commands`, one client per node | `open`, `close`, `ping`, `send_command` with its retry loop | calls `open`, `close`, `send_command`, `init_type` of the node clients |
| primitives | `src/*/primitives.rs` | handles: `read_locks`, `version_id`, `current_data`, lock ids | `Lock`, `Event`, `Semaphore`, `ReadWriteLock`, flows, `GroupEvent`, `TreeLock` | one or more lock commands per operation, through `Database` |
| protocol | `src/protocol/*` | none | encode commands, decode responses, ids | used by the connection |
| data | `src/data/*` | none | encode lock data, parse result data | used by commands and results |
| keys, times, options, errors | `src/key.rs`, `time.rs`, `options.rs`, `error.rs` | none | conversions | everywhere |
| facade | `handle.rs`, `database.rs`, `api.rs` | none of its own | factories, delegation | clients and primitives |

What is hard here, and what makes each part correct:

- **Connection.** Calls, opens, closes and one reader per connection race for
  `writer`, `pending` and `closed`. Two mutexes are taken in both orders. A
  timeout, an answer, a failing reader and `close()` all compete for one pending
  entry. Correct means: a waiting call is owed exactly one message; a request
  goes out at most once; an outcome never claims what the client cannot know;
  the loss of a connection wakes its calls and makes room for the next `open()`;
  nobody waits for a mutex for ever.
- **aio connection.** In addition every await is a point where the caller may
  drop the future: frames half written, guards that clean up if they can,
  closes half done.
- **Replica set.** A pass over the nodes runs while other calls, `open()`,
  `close()` and elections move `active_index` and the clients under it. Correct
  means: what is reported is what was executed (as long as answers are not
  lost), a stable leader is found, no call gives up before every node has failed
  it, a call returns unless it sits in a wait that has no timeout, and the queue
  of pending commands is exact.
  In the aio mirror each of these futures may be dropped at any await, also
  inside the `open()` and `close()` of a node's client.
- **Primitives.** Several commands per operation, undone by hand; handles that
  remember what the server may have forgotten; versions of a group event that
  members learn from answers. Correct means: what a caller relies on is backed
  at the server, nothing is left there that nobody can release, and no wakeup is
  missed or taken twice.
- **Protocol and data.** A header, a flag in it that announces data, lengths
  nested in the data, units of time in flag bits, default flags that clones of a
  database share. Correct means: both ends agree where a frame ends and what it
  says; the client waits as long as the server does; answers, also spoilt ones,
  reach the call they are for; data is read for what was written.

## 2. Modules

| module | what it is |
|---|---|
| `RequestReply` | abstract: what a connection promises the callers of `send_command` |
| `BlockingConnection` | `blocking::Connection` with its user threads and readers; implements `RequestReply` |
| `BlockingConnection_proofs` | inductive invariant, type correctness, wake-up and wire invariants, refinement, outcomes that stay true; what a client with one opener and no closer keeps |
| `AioConnection` | `aio::Connection`; extends `BlockingConnection`, implements `RequestReply` |
| `AioConnection_proofs` | all of that with dropped futures, half-closed sockets and torn frames |
| `Retain` | what `VecDeque::retain` leaves of a queue |
| `Retain_proofs` | it leaves the kept entries, each once and in their order |
| `Replset` | `ReplsetClient` over clients abstracted to the level of `RequestReply`, whose waits take time |
| `AioReplset` | `aio::ReplsetClient`; extends `Replset` with futures dropped at any await |
| `Replset_proofs` | of both: types; every node is tried before a call gives up, and no call runs on for long; what is reported is what was executed; a lone call closes no live client; the queue of pending commands is exact |
| `LockServer` | external: what the slock server does with a lock command |
| `Primitives` | the synchronisation primitives over `LockServer` |
| `Primitives_proofs` | types; what callers rely on is backed and not oversold; failed leaves undo their links; `is_set` tells the truth; nothing is left behind |
| `GroupEvent` | `GroupEvent`: members, their versions, and the event's lock at the server |
| `AioPrimitives` | the aio primitives: `Primitives` beside `GroupEvent`, with dropped futures |
| `AioPrimitives_proofs` | the theorems of `Primitives_proofs` with dropped futures; of group events, that no wakeup is missed and none is taken twice |
| `Bytes` | numbers, flags, packed times, ids and keys as bytes |
| `LockData`, `LockResultData` | `src/data/`: encoding of lock data, reading of result data |
| `Codec` | commands and their frames, decoding of answers; the server's reading and writing of the same frames (external) |
| `Commands` | the command each operation of each primitive sends; `Database` |
| `Wire` | one connection byte by byte: callers, stream, server, reader thread |
| `Recursion` | that functions defined by recursion over the numbers are what their definitions say |
| `Wire_proofs` | what is encoded is read back, at any depth of nesting; the streams are whole frames; commands, answers, waits and units agree at both ends |
| `MCBlockingConnection`, `MCAioConnection`, `MCReplset`, `MCPrimitives`, `MCWire` | small instances for TLC: symmetry, mixes of primitives, operations and data |

### BlockingConnection

One step is what a thread does between two points where another can interfere:
an atomic access, a socket operation, or a critical section. The two mutexes
have no variables. A guard that is released within its step needs none, and
each of the two is held across a step boundary in one place only: `writer`
during the write and while a call without a connection takes its entry back
(`call[r]` is `write` or `unpend`; the guard of `writer` lives until the
`return` of line 123), `pending` while a failing reader waits for `writer`
(`reader[c] = "takeWriter"`, lines 166-172). `WriterFree` and `PendingFree` read
that off the program counters.

| code | actions |
|---|---|
| `send_command` 105-153 | `CallStart`, `CallClosed`, `CallNotEncodable`, `CallEncode`, `CallInsert`, `CallLockWriter`, `CallNotConnected`, `CallWrite`, `CallWriteError`, `CallWriteFailed`, `CallReceive`, `CallTimeout`, `CallTimedOut` |
| `open` 45-87 | `OpenCheck`, `OpenReset`, `OpenFail`, `OpenConnect`, `OpenCloneFail`, `OpenInstall`, `OpenSpawn` |
| `close` 89-95 | `CloseStart`, `CloseTakeWriter`, `CloseWakeAll` |
| reader thread 155-213 | `ReaderDeliver`, `ReaderFail`, `ReaderDrain`, `ReaderTakeWriter`, `ReaderExtraFail` |
| server, network | `Serve`, `ConnectionLost` (external) |

Abstractions, and why they lose nothing the properties see:

- A request is its id; a frame is written in one step or not at all. The socket
  of a lost connection may still accept bytes (`CallWrite` on a socket that is
  down), which is how TCP behaves.
- The reader's `read_exact` and the delivery under the pending lock are one
  step. In between only the reader holds the response; a timeout, drain or
  close in that gap has the same effect as one before the read.
- The answers still on the way when a connection goes down may be read or lost:
  `ReaderDeliver` and `ReaderFail` are both possible.
- `open()` connects and exchanges INIT in one step: nobody else sees the stream
  before it is stored.
- Dropping the old stream when a second `open()` overwrites `writer` does not
  close the connection, because its reader holds a clone of it.

### AioConnection

Reuses the steps of `BlockingConnection` whose code is the same up to `.await`,
and adds: `CallCancel`, `OpenCancel`, `CloseCancel` (a future dropped at an
await), `PendingCleanup` with its `try_lock` that may find the mutex taken,
sockets that are only half-closed when a writer is shut down or dropped
(`HalfClose`; the reader reads on), `open()` without an await between the store
of the writer and the spawn of the reader, and frames torn by cancellation
(`torn`, `garbled`). That the server makes none of the requests of the model out
of a torn frame and the bytes behind it is an assumption (`AioServe`): the bytes
of the next frame complete the torn header, and what they then say is not
followed.

### Replset

The client of a node is a connection flag, a closed flag and the leader flag of
its last INIT. What happens inside an open, a close or a wait is left to
`BlockingConnection`, but everything in it that can take time takes time here:

| in the code | place of the call | ends by |
|---|---|---|
| `to_socket_addrs` (connection.rs:50), `lookup_host` in the aio client | `resolve` | the resolver; no timeout |
| `connect_timeout` (53) | `connect` | a node that accepts, or `ConnectTimeout` |
| INIT and its answer (63-80) | `init` | the node; no timeout |
| `write_all` of the command (125) | `write` | a node that reads, or the loss of the connection; no timeout |
| the writer's mutex (46, 84, 91, 117) | `open`, `init`, `lock`, `close` | the end of another call's write; no timeout |
| `recv_timeout` (141) | `wait` | an answer, or the command's `Budget` |
| `thread::sleep` (replset.rs:345) | `sleep` | the interval, or the deadline if that is sooner |

One tick of the clock is `REPLSET_RETRY_INTERVAL`; computation takes no time.
Each command has a budget of its own (`encoded.timeout` and the grace, 45). An
`open()` ends in whatever error the code gives: `Io`, `CommandTimeout` (the aio
client's connect timeout, `ConnectError`), `Server` (INIT refused) or `Protocol`
(undecodable, or no address). An answer that does not decode is `Protocol` and
ends the call at once, like its timeout (334). When two threads open one client
the second connection replaces the first, which lives on as an `orphan`. The pass
over the nodes, the order of its checks, the queue and its retry types, the
deadline and the sleep are those of `send_pending_command` (303-355). `ping()`
changes state only by its fallback to `open()`. The servers answer a lock
command with success at the leader and `STATE_ERROR` elsewhere. `Environments` are
the sets of faults of a run; a behaviour has one of them (`faults`), settled when
it begins. `tried`, `held`, `begun`
and `ticket` are history, not fields of the code.

Not here: the failure within lock data (connection.rs:180), after which a client
stays broken. The user's own `open()` may take any time in its node's client
(`opening`), but its clock is not looked at.

### AioReplset

The steps of `Replset` are those of `src/aio/replset.rs` up to `.await`. Added is
what a dropped future leaves behind: `CallDroppedInOpen`, `CallDroppedInSend`,
`CallTorn`, `CallDroppedInClose`, `CallDroppedAsleep`, `OpenDropped`,
`CloseDropped`. Within `client.open()` and `client.close()` that is a client
whose flags were changed and whose writer was not, or not yet (`OpenHalfWay`,
`CloseHalfWay`). A call dropped inside `write_all` (`CallTorn`) leaves a part of
a frame in the stream of a writer that stays installed (`torn`); what is sent
behind it on that connection is not understood (`garbled`) and ends in its
timeout. The entry in `pending_commands` stays, because only lines 298 and
376-382 remove it. A connection whose writer is gone is only half-closed: the
node may still answer on it (`ServeHalfClosed`) or hang up (`HangUp`); when it
hangs up on an orphan, the orphan's reader fails the calls of the connection that
replaced it and takes its writer (`OrphanHangUp`).

### LockServer and Primitives

A handle is an object of one of the primitive types; its methods take
`&mut self`, so one caller uses it at a time, and what interleaves are the
commands of different handles at the server. An operation sends a command
(`Acquire`, `Release`, `SemaphoreAcquire`, ..., `IsSet`), the server executes it
(`Execute`) and the operation takes the answer (`AcquireReturn`, ...).
`TreeLeafLock.acquire` is up to five commands: `LeafAcquire`,
`LeafChildChecked`, `LeafParentChecked`, `LeafAcquired` or `LeafFailed`,
`LeafUndoParent`, `LeafUndone`. A client may give a command up (`GiveUp`: its
timeout, a lost connection); the server executes it later (`ExecuteLate`) or
never. A lock may expire at any moment (`Expire`).

| code | in the model |
|---|---|
| `Lock`, `PriorityLock`, `ReentrantLock`, `MaxConcurrentFlow`, `TokenBucketFlow`, the write lock of `ReadWriteLock` | one id kept by the handle (`OwnId`), `CountOf`, `RCountOf`, `Acquire`, `Release` |
| `Semaphore` | a fresh id per acquire, release of the first holder |
| `ReadWriteLock` readers | `read_locks`, a fresh id per acquire; the latest is popped before its release is sent |
| `Event`, both polarities | the lock whose id is the key; `EventChange` for `set` and `clear`, `IsSet` for `is_set` and `wait` |
| `TreeLeafLock` of a root or a child | `ChildLink`, `ParentLink` and the own lock |

Of the server the model takes what the client's code and tests show: a lock
command is granted when there are no more holders than its count and theirs
allow; an id that is there already may enter again as often as its `r_count`
says, otherwise it is `LOCKED`; an unlock with `UNLOCK_FIRST` and an unknown id
takes the first holder; a tree unlock that leaves only the link on the child
takes both links away (the end of `test_tree_lock` in
`tests/java_parity_flow_tree.rs`). A lock of expiry 0 is granted and not kept.
`held` counts a caller's successful acquires less its successful releases; it is
the caller's knowledge, not a field of the code.

### GroupEvent and AioPrimitives

A member's operation (`GroupBegin`) sends a command whose lock id carries a
version: its own for `wait` and `clear`, zero for `set` and `wakeup`, a fresh id
for `is_set`. `GroupReturn` takes the version of the answer's lock id as the code
does (659-665, 687-693). What the server does with
`TIMEOUT_FLAG_LESS_LOCK_VERSION_IS_LOCK_SUCCED` is external, from
`test_group_event` of `tests/java_parity_blocking.rs` and
`docs/Architecture.md`, 9.5: a command with a version below that of the event's
lock succeeds and names that lock; a wakeup raises the version by one. `wakes`,
`epoch` and `mark` record which wakeups were executed and which a member has
seen; the code has no such fields.

`AioPrimitives` puts `Primitives` and `GroupEvent` side by side with the one
thing the aio file adds: `FutureDropped` and `GroupFutureDropped`. The command of
the await may be executed later or never, and the rest of the operation is not
done: a leaf dropped between its links does not undo them.

### Bytes, LockData, LockResultData, Codec, Commands, Wire

A frame is a sequence of bytes. `Commands` says, for each operation of each
primitive, the record that becomes its command (type, flags, ids, times with
their flags, counts); `Codec` turns it into 64 bytes and, with data, the encoded
`LockData`, also of nested pipelines. In `Wire` a caller makes its primitive
(`Create`), perhaps before the user changes the default flags of the database
(`SetDefaults`), calls (`Call`) and writes in two steps (`WriteHeader`,
`WriteExtra`) under the writer's guard. The server (external) reads a frame when
all of it is there, by its own reading of the header and the length, and answers
in any order, with any of the codes and contents of the run, or with a spoilt
magic or type. The reader thread takes header, length and payload off the
stream (`ReadHeader`, `ReadLength`, `DeliverPayload`, `DeliverHeader`) and
delivers the decoded answer by request id. Timeouts, losses and `close()` are
those of `BlockingConnection` and left out here. Numbers stay below 2^31
(the checker's integers have 32 bits); the MD5 digest of a long key is 16 bytes
that no short key has; an id's random part is fixed, as only its being fresh
matters.

## 3. Runs

All runs switch deadlock checking off: calls and connections are bounded, so the
system stops when they are used up.

| run | bounds | checks |
|---|---|---|
| `conn_any` | 2 calls, 2 connections, 1 opener, 1 closer, lock data | `TypeOK`, `WakeToken`, `WireInv`, refinement of `RequestReply` (`RRSpec`) |
| `conn_steady` | 2 calls, 2 connections, 1 opener | `NoLockCycle`, `SoleReader`, `WaiterWatched`, `InitTypeOfWriter`, `HealthyWriterKept`, and without any timer `NobodyStuck`, `LossWakesWaiters`, `LostConnectionDropped` |
| `aio_any` | 2 calls, 1 connection, 1 opener, 1 closer, lock data, cancellation | `AioTypeOK`, `AioWakeToken`, refinement of `RequestReply` (`AioRRSpec`) |
| `aio_steady` | 2 calls, 2 connections, 1 opener, cancellation; a peer that need not read, an INIT that need not be answered | `NoLockCycle`, `AioCallReturns`, `LostConnectionDropped` |
| `replset_calls` | aio; 2 nodes, 1 call, clock to 6; dropped futures, and one of: losses, silence at connect, INIT, write or answer, refused INITs and undecodable answers; losses and `close()`; `open()` with silence, with refused INITs and undecodable answers, or with elections | `TypeOK`, `OverrunBounded`, `EveryNodeTried`, `LiveClientKept`, `CallsReturn` |
| `replset_leader` | aio; 2 nodes, 2 calls with budgets 1 and 2, clock to 8; dropped futures, and elections or `open()`; no orphans | `AioExecutedAsReported`, `QueueAccounted`, `AioLeaderAccepts` |
| `prim_any` | 2 handles of each mix of roles on the same keys, or 2 members of a group event made with versions 0 or 1; up to 3 operations each and 5 together, counts 0 and 2, 1 command given up or future dropped, 1 expiry | `PrimTypeOK`, `PlacesBounded`, `PlacesBacked`, `NothingLeaks`, `FailedLeafUnlinks`, `IsSetTruthful`, `NoWakeupMissed`, `OneWaitPerWakeup` |
| `wire` | each operation of each primitive alone, each kind of lock data, one pair of calls sharing the stream; the default flags of both times changed to milliseconds, 2 result codes, 9 contents of answers, 2 ways to spoil one | `ServerInStep`, `AnswersReadBack`, `DataReadBack`, `WaitsLongEnough`, `UnitsKept`, `AnsweredCallsReturn` |
| `conn_deadlock` | 1 call, 1 connection, 1 opener, 1 closer | **violated:** `CloseReturns` |
| `conn_close_race` | 1 call, 1 connection, 1 opener, 1 closer | **violated:** `ClosedMeansNoSocket` |
| `aio_torn_frame` | 1 call, 1 connection, 1 opener | **violated:** `FramesWhole` |
| `tree_unlinked` | 1 leaf of a child, 2 operations, no faults | **violated:** `LeafLocksRoot` |

Why the bounds are enough. A race in the connection involves one call or two
(the other holding a mutex), the reader of the old connection, the opener of the
next one and a closer: two calls and two connections have them all at once, and
one closer and one opener may run any number of times. What the bounds leave
out of `conn_any` (more openers and closers at once, more connections) is
covered by proof. In `Replset`, two nodes make a pass that continues, wraps
around and ends; a budget and a connect timeout of one tick each separate
"before", "at" and "after" the deadline and make a silent node cost two ticks;
calls start early enough (`StartBy`) for the clock to see their last pass end. A
call sits in untimed waits for up to `MaxHeld` ticks of a pass, where nodes are
silent. Two budgets make a later call due earlier (`MixedBudget`). The user calls the
replica set's `open()` and `close()` at most once each (bounds in `OpenStart`,
`CloseStart`), at any moment. The faults of an environment are few so that its
states are: what losses do beside `open()`, elections beside `open()` for two
calls, two calls at a silent node, and all other faults together, `"overlap"` of
open and close included, is left to the theorems of section 5, which have every
safety property of `Replset` and `AioReplset`. `CallsReturn` is checked for one call:
nobody else's write holds a writer there. In `replset_leader` the CONSTRAINT
`NoOrphans` cuts off what two opens that meet lead to: `AioExecutedAsReported` and
`AioLeaderAccepts` speak only of behaviours without an orphan, and an orphan is never
forgotten; for `QueueAccounted` a client's connection makes no difference.
In `Primitives`, three operations let a handle acquire, lose the answer to a
release and repeat it while another acquires in between, and one remains for
either (`MaxTogether`); a count of 0 is the edge
of `saturating_sub`, a count of 2 makes a handle share; `MaxCount` (9) stands for
`u16::MAX`, more than there can be holders, and `MaxRCount` (1) for `0xff`. One
command given up and one expiry may fall on any command and any lock. Three
handles with two operations each were also searched for 10 million states
without a violation, not to the end. In the group event, two members, three
operations each and a dropped or given up command let one clear, one wake and
one wait twice around a lost answer; the theorems cover the rest. In `wire` what
can go wrong in one frame shows in one call, and what can go wrong between two
in a pair; the data of a frame before it is in the stream of the pair. The
periods of the token bucket are 0, half a millisecond, 2.9999 s, 3 s, 3.0001 s
and 70000 s, on both sides of each branch and cut (a period is a number of tenths of
a millisecond; negative and non-finite ones are left out). The grace is 5 s (the
default is 120 s, `options.rs:18`; a small one is the stricter case of
`WaitsLongEnough`).

Each property of a passing run has a seeded fault (the definitions commented
"Seeded fault") under which TLC finds it violated; the pairs are in
`PROJECT.json`.

### What the violations show

- `conn_deadlock`. `send_command` without a writer locks `pending` under
  `writer`; a failing reader locks `writer` under `pending`. `close()` makes them
  meet: it takes the writer after the reader has seen `closed` unset. Call,
  reader and `close()` wait for each other for ever. `NoLockCycle` shows that it
  takes a `close()` (or a second opener).
- `conn_close_race`. `close()` during `open()` leaves a closed client with a live
  writer. `open()` then says Ok and `send_command` says `ClientClosed`, until
  `close()` is called again.
- `aio_torn_frame`. Cancelling a call within `write_all` leaves a part of a frame
  on a connection that stays in use.
- `tree_unlinked`. A leaf that fails to acquire releases the links on its child
  and parent also when it found them there. A held leaf that is acquired again
  (it fails with `LockLocked`) loses its links, and the root, which
  `tests/java_parity_flow_tree.rs` expects to be locked, is free. A sibling whose
  acquire fails does the same to it. With two leaves there is also a race: one is
  released, and takes the links away, while the other is between its checks and
  its own lock.

### What the properties leave out

Other disagreements of the code with its documents, for which no run stands:

- A connection that breaks within the lock data of an answer
  (blocking/connection.rs:180-186) ends the reader without taking the writer,
  unlike one that breaks within a header (172), where `design.md:614-616` has a
  failed read close the writer. `open()` is content with the dead writer, and calls
  run into their timeouts until a write fails or somebody calls `close()`. With
  `ExtraData` TRUE in `conn_steady.cfg` TLC refutes `WaiterWatched` and
  `LostConnectionDropped`.
- Two threads that open one client at the same time both find no writer (46) and
  both connect, where `design.md:1010` has a single reader. The reader of the
  connection that is replaced stays on the same `pending`, and when it ends drains
  the calls of the other and takes its writer. With
  `Openers = {o1, o2}` in `conn_steady.cfg` TLC refutes `InitTypeOfWriter` and
  `SoleReader`; with a closer it refutes `SoleReader` too.
- A call of the replica set that is running when `close()` returns opens the
  clients again, one node after the other (blocking/replset.rs:315 clears the closed
  flag by blocking/connection.rs:49), where `design.md:1038` has `close()` stop
  reconnecting.
- `docs/Architecture.md:686` and `design.md:987` have a token bucket with a period
  of three seconds or more ask first for the rest of the current period (until its
  next boundary), with a timeout of zero, and only when that times out for a full
  period with the caller's timeout. The code (blocking/primitives.rs:539-553, and the
  same in aio) sends the second at once. `UnitsKept` is about that one command.

Properties that fail outside their conditions, as TLC shows when the constants
are widened: `HealthyWriterKept` and `InitTypeOfWriter` with a closer or a second
opener. `ExecutedAsReported` fails with losses (a retry executes again), and when
an orphan's reader fails a call that was executed. `LiveClientKept` fails with a
second call, which may have connected the client again. These cases are not caught
by a passing run: the code has them. `OverrunBounded` is what the code keeps of a
deadline: it is looked at between passes only, and each node of a pass may cost
a connect timeout and a budget, and beyond that whatever its INIT, the resolver and
the write take (`design.md:1029` has a retry keep the original deadline).
`AioLeaderAccepts` names the one way in which a call fails under a leader that
stays: a timeout behind a part of a frame that another call left.
`NoWakeupMissed` fails for a member that lags behind a clear: a `clear` names the
version of the member that calls it, and may set the event back to a version
below what others have seen. The properties of `Wire` name what the code does not
do: a timeout in minutes (`TIMEOUT_FLAG_MINUTE_TIME`) outlasts the client's own
wait, which counts it in seconds (`WaitsLongEnough` leaves minutes out); the probes
of an event that starts unset replace the default flags of the database (262,
311); and of a token bucket (`TokenStays`) a period above 65535 s is cut to that,
and the seconds of a period of three or more are counted in the unit of the
database's default expired flags: with MILLISECOND a token of 3 s stays 3 ms, with
MINUTE 3 minutes. Below three seconds the command says MILLISECOND whatever the
defaults; that a server which finds both unit flags goes by that one is assumed. And `as_map` passes over an empty key but not over
the value behind it, so that the rest of such a map is read shifted by one:
`ContentsAssumption` leaves empty keys out.

What the properties of `Primitives` allow for: a permit that expires, or whose
release was given up and executed after all, perhaps next to its repetition,
costs one place (`shed`), because `Semaphore.release` takes the first holder
whoever that is. `release_read` forgets its lock before the release is sent, so
a release that is given up leaves a reader at the server that nobody can
release. `TokenBucketFlow` keeps one lock id, so a second `acquire` of a handle
before the first token expires is `LOCKED`.

## 4. Fairness

- `BlockingConnection`: weak fairness of each thread's steps once it is inside an
  operation: the operating system runs threads that can run. Nobody is obliged to
  start a call, and the server and network are obliged to nothing. Weak fairness
  is enough for the mutexes: a guard is held for finitely many steps, and each
  call takes each mutex finitely often.
  - `open()` reads the INIT answer without a read timeout (73), so the step that
    connects has no fairness (`OpenOwnStep` leaves it out). `FairSpec`, used by
    `conn_deadlock`, has that and the timers of `CallTimeout`; its counterexample
    waits for neither connect nor peer.
  - `UntimedSpec`, used by `conn_steady`, has in addition no timers, and a write
    (125) need not end while its socket is up (`CallOwnStep`). `NobodyStuck` and
    `LossWakesWaiters` therefore do not lean on `recv_timeout`, and say that a
    call that does not come back is in a write or behind one.
- `AioConnection`: the same for tasks; the runtime polls what is ready,
  and timers fire. The write of a command has no timeout and comes before the timer
  of the call is set (153-170), so `AioCallOwnStep` leaves it out while the socket
  is up: the peer need not read. `AioCallReturns` names a write that never ends as
  the one thing that keeps calls. Of `open()`, its reset and its store of the
  writer are fair, the connect with the INIT exchange between them is not: nobody
  need answer it.
- `AioReplset`: calls are polled (`CallOwnStep`) and time passes. What a call waits
  for others in (`PeerStep`: resolve, connect, INIT, the write, the answer) has
  fairness only where `silence` is not among the faults; `CallsReturn` names the
  untimed waits (`Held`) as what may keep a call. In `replset_leader` nodes are not
  silent: there a leader that stays accepts, reads and answers.
  Nothing is asked of the user's `open()` and `close()`.
- `Wire`: the reader thread runs. `Primitives`: none; its properties are
  invariants.

## 5. Proofs

All constants are arbitrary: any numbers of calls, connections, nodes, handles,
members, and any bounds. What is assumed of them is named in the modules that
declare them, and TLC evaluates it on every run:

- `ConstantsOK`: `NoConn` is not a connection, `ExtraData` is Boolean.
- `NAssumption`, `TimeAssumption`: there is a node at least; budgets (one per
  command), the connect timeout and the bounds are numbers. `ConnectErrorAssumption`,
  `EnvironmentsAssumption`: what a connect that times out is reported as, and which
  faults there are.
- `PrimitivesAssumption`: besides the types of the bounds, that handles of a
  semaphore share their key with handles of that semaphore only, and those of an
  event with those of an event made the same way. A semaphore releases whoever
  is first at its key (`UNLOCK_FIRST`, 185-200), and the lock of an event is its
  state: with others on the key neither means anything.
- `HandlesAssumption`: handles are finitely many, and the ids they make up are
  not the ids made of a key.
- `GroupAssumption`: the versions and bounds of group events are numbers.
- `NestingAssumption`: pipelines nest to some depth, whichever.
- `WireAssumption`, `ContentsAssumption`: callers have request ids of their own
  (fewer than 2^31, where the counter of `Id16::new` starts over); each calls an
  operation there is, with arguments of its types (`Operation`); defaults are
  flags, codes are bytes, the grace is a number. Of what the server puts into
  an answer: each length fits into its four bytes, a number has no more than
  eight bytes, a map has no empty key (section 3); it may be cut anywhere, have a
  property of any length before it, values that are empty, keys twice, and keys
  that are not UTF-8.

Each inductive invariant below was first given to TLC as an invariant of the run
that checks its properties, or of a smaller instance of it.

- `BlockingConnection_proofs`
  - `Invariant`: `Spec => []IInv`, with `IInv == TypeOK /\ WakeToken /\ WireInv`.
    None of the three is inductive alone. That an answer reaches a call only if
    it was served needs `WakeToken` (a call that is not registered has an empty
    channel) and `replies[c] \subseteq served`; that `WakeToken` survives a
    delivery needs the types; that a request is written once needs to know that
    the call is past the write just when it is on the wire. There is one lemma
    per conjunct (`TypeNext`, `WakeNext`, `WireNext`), each split by action.
  - `TypeCorrect`, `WakeTokenHolds`, `WireInvHolds`: its conjuncts.
  - `Refinement`: `Spec => RRSpec`. The mapping: a call is `active` from its first
    step to its return, its result is `outcome`, a request is sent when it is in
    flight on some connection or served. `StepRefines` maps each step to a step of
    `RequestReply` or a stutter.
  - `OutcomeStableHolds`: `Spec => []RR!OutcomeStable`. `RequestReply` itself keeps
    `StableInv` (`StableOutcomes`); the connection has it from `Refinement`.
  - The steady life of a client: `Steady` says that nobody closes and that there
    is one opener. Section 3 says what fails without it; every `ensure_open` of a
    program that opens its client once and never closes it is such a client, and
    connections may be lost and opened again any number of times.
    `NoLockCycleHolds`, `SoleReaderHolds`, `InitTypeOfWriterHolds` and
    `HealthyWriterKeptHolds` follow from `SteadyInv`: while `open()` is under way
    nothing is in `writer` but what it installed (`OpenInv`), a reader lives only
    for the connection in `writer` and is in its error path only once that is down
    (`ReaderInv`), and who takes its entry back found no writer (`UnpendInv`).
    `WaiterWatchedHolds` needs, in addition, that answers carry no lock data (a
    connection that breaks within it leaves the reader dead and the writer in its
    place, section 3) and `WatchInv`: a reader that drained the calls left none,
    and a dead one is not the writer's.
- `AioConnection_proofs`: the same for tasks that may be dropped at every await.
  - `AioInvariant`, `AioTypeCorrect`, `AioWakeTokenHolds`. `TokenInv` weakens the
    wake-up token to what `PendingCleanup` leaves: an entry whose call is gone is
    one that its guard could not remove, because `try_lock` found `pending` taken.
  - `AioRefinement`: `AioSpec => AioRRSpec`; a dropped call ends, and nothing of it
    goes out afterwards. A torn frame is not a sent request.
    `AioOutcomeStableHolds` follows as above.
  - `AioNoLockCycleHolds`, `AioSoleReaderHolds`, `AioWaiterWatchedHolds`,
    `AioHealthyWriterKeptHolds`: `SteadyInv` and `WatchInv` are kept by every
    cancellation and half-closed socket.
- `Retain_proofs` (`Nth`, `Kept`, `Without`): what `retain` leaves of a queue is
  its kept entries, all of them, each once and in their order. `Without` is
  defined without recursion, by the positions that stay, so that this can be
  proved; the queue of the replica set and the holders of a lock use it.
- `Replset_proofs`
  - `TypeCorrect`: `Spec => []TypeOK`, the queue and its retry types included.
  - `OverrunBoundedHolds`: `Spec => []OverrunBounded`, with all faults. The bound
    is not inductive: the invariant says for each place of a call by when it is
    there, a pass having begun before the deadline (`PassSleeps`, `Begin`), each
    node behind it having cost a connect timeout and a budget at most, and what
    was spent in untimed waits being in `held`. Nothing in it takes an open or a
    write for instantaneous.
  - `EveryNodeTriedHolds`: `Spec => []EveryNodeTried`, with all faults. The
    invariant is that `tried` holds the first `offset` nodes from `start` on,
    modulo `N`; when `offset` is `N`, these are all nodes, whatever `start` is.
  - `ExecutedAsReportedHolds`: `Spec => []ExecutedAsReported`, a property of
    behaviours with neither `loss` nor `close` (`Calm`). The invariant adds to the types that a connection,
    once there, stays, so that no call ever has a transport error to retry after,
    and what a call knows of its execution at each place. In the aio client
    (`AioExecutedAsReportedHolds`) that is so until an `open()` replaces a
    connection.
  - `LiveClientKeptHolds`: `Spec => LiveClientKept`, with all faults. The invariant
    says what the close in the retry relies on: a call that no other has joined
    got its transport error from a client that has since no connection, or is
    closed. Whoever joins may open it again under the call's feet.
  - `AioReplsetTypeCorrect`, `AioOverrunBoundedHolds`, `AioEveryNodeTriedHolds`,
    `AioExecutedAsReportedHolds`, `AioLiveClientKeptHolds`: the invariants are kept
    by every dropped future of `AioReplset`, whose call is done and without an
    outcome, by answers from half-closed connections and by orphans.
  - `QueueAccountedHolds`: the invariant adds to the types what makes the queue
    exact under `retain` and `push_back`: no ticket is above the number of calls
    begun, so that a call that begins is behind all others. Deadlines are in no
    order, as each command brings its own budget.
- `Primitives_proofs`. `Base` types both sides: a handle waits for the command of
  its place in its operation (`ClientInv`), and the server keeps each id once at
  a key, never entered deeper than its `r_count` and never beside one that its
  count or theirs forbids (`ServerInv`). On top of it:
  - `PlacesBackedHolds`, `PlacesBoundedHolds`. A caller relies on a place between
    two commands; `Backing` and `Readers` say what it has as soon as its answer is
    there, and with these `OwnBacked` and `ReadBacked` are inductive. Read locks
    are fresh and each in `read_locks` once (`ReadIdsOf`), not in it while they
    are acquired or released. A semaphore has no ids of its own, so nothing ties
    a permit to its holder: `PermitInv` counts. The permits callers rely on are
    tokens (`Tokens`), each taken or given back by one answer, and there are never
    more of them than holders and shed ids together (`PermitCount`); what makes
    that inductive is that the id of a permit is sent once and that a late lock is
    neither at the server nor shed yet (`PermitLate`). `PlacesBounded` is then an
    injection: of the places relied on at a key into the holders there and the
    shed ids.
  - `FailedLeafUnlinksHolds`. `LinkInv`: as long as no leaf has succeeded and no
    link was given up, each link has a leaf that is yet to undo it (`UndoesChild`,
    `UndoesParent`), whichever of the leaves put it there.
  - `IsSetTruthfulHolds`. `EventInv`: the event's key has one holder at most, with
    the key's id; what is known of the event (`truth`, `asked`, what the caller
    who has been alone has seen) agrees with whether it is held, for both
    polarities, and late commands are of the kind that ends such knowledge.
  - `NothingLeaksHolds`. The property counts entries when no call is under way; an
    invariant has to count holds while they are. An orphan (`Orphans`) is a hold
    of an entry that neither the count of its handle (`Backing`) nor a read lock
    it keeps or is releasing (`ReadBy`) stands for; a late lock command
    (`LateLocks`) is counted as the orphan it may make. Orphans and late locks
    together are never more than the commands given up (`PlainLeak`): a step
    adds one of them at most, and only for one more loss. A semaphore
    makes its permits under ids of their own, which no handle stands for; there
    `PermitSlack` counts the permits at the server against the tokens.
  - `PrimTypeCorrect`.
- `AioPrimitives_proofs`
  - `AioPrimTypeCorrect`, `AioPlacesBackedHolds`, `AioPlacesBoundedHolds`,
    `AioFailedLeafUnlinksHolds`, `AioIsSetTruthfulHolds`, `AioNothingLeaksHolds`: each
    part of the invariant is kept by `FutureDropped`. The dropped command may be late, and a caller who
    drops a release does not rely on the lock any more.
  - `NoWakeupMissedHolds`, `OneWaitPerWakeupHolds` (of `GroupSpec`),
    `AioNoWakeupMissedHolds`, `AioOneWaitPerWakeupHolds`. The invariant
    (`GroupInv`) counts: while the event is unset, its lock is ahead of the
    version of a member that is current by exactly the wakeups executed since the
    one that member saw last (`VersionInv`). `AskInv` carries that to commands on
    their way, whose version may be older than their member's only for calls that
    were given up; `ToldInv` to answers on their way.

- `Recursion`: lemmas for `Wire_proofs`, of no code (`RecursionTheorem`,
  `ForwardTheorem`, `Induction`). A recursive function is, in
  TLA+, whatever function satisfies its equation, if there is one; that there is
  one has to be proved before anything can be said of it. The theorems of the
  library for this, and for induction, have an operator as a parameter, which the
  provers here cannot choose. `Recursion` has the step as its constant `Body`, and
  states induction of sets of numbers; `Wire_proofs` instantiates it once for each
  function (`ForDatas`, `ForEncode`, `ForRead`, `ForCut`, `ForFlatten`). The value
  of these at a number depends on that at the number before; the walks of
  `as_list` and `as_map` go forward by lengths that stand in the bytes, and end at
  the end of the bytes: `ForwardTheorem` is for them (`ForList`, `ForMap`).
- `Wire_proofs`, from the bytes up:
  - Numbers, flags, times, ids and keys come back from their bytes; then headers,
    and with them each kind of request and answer.
  - `DataReturnsTo`: lock data is read from its bytes as it was, for data nested to
    any depth, by induction over the depth. For a pipeline the reader cuts the
    items at their lengths (`CutsOfPieces`: by induction over the items, the k-th
    cut is where the k-th item ended), so each is told from what follows (`Tells`).
  - `WireInvHolds`: `Spec => []WireInv`. What goes to the server is the frames that
    were sent and not heard, one behind the other (`Joined`), of the last perhaps
    the header alone (`InPart`, only while its caller has the writer); what comes
    from it is the frames said and not yet read, the reader being at the header,
    the length or the payload of the next one (`ReaderInv`). That the server reads
    the frame that was sent is `RequestRead`, that the reader passes on what was
    said is in the lemmas of its steps; both rest on the frame at the head of the
    stream having its length in it. The ids of requests tell the calls apart
    (`CallInv`, `SentInv`).
  - `ServerInStepHolds`, `AnswersReadBackHolds`, `WaitsLongEnoughHolds`,
    `UnitsKeptHolds` follow from it, the last two from what each operation of each
    primitive makes of its times and of the flags of its database, case by case;
    `TokenKept` is the token bucket, for every period and all default flags.
  - `DataReadBackHolds`. `OnceInv` adds to `WireInv` that a request is answered
    once, and that data comes only with answers that decode; so the data that a
    call has is what the server attached to the one answer there is (`ContentRead`).
    That it is read for what it was is `StringRead`, `NumberRead`, `ListRead` and
    `MapRead`: the value starts behind the property, whatever that is
    (`RawRead`), the entries that were not cut lie one behind the other from
    there (`WholeFit`), and the walk stops at the end or in an entry that was cut
    (`ListEnd`, `MapEnd`). Lists and maps then go downward from the last whole
    entry (`Downward`): from the k-th entry on the walk finds what the entries
    from k on stand for, an entry being inserted before the later ones, which win
    where the key is the same (`MapMore`).

Only model-checked: liveness (`NobodyStuck`, `LossWakesWaiters`,
`LostConnectionDropped`, `AioCallReturns`, `CallsReturn`, `AioLeaderAccepts`,
`AnsweredCallsReturn`), which is out of the prover's reach.

## 6. Not modelled, and why

- What the server does with `show`, `update` and the tree flag of
  `TreeLock.acquire`: it is not in the repository, so these are commands in
  `Commands` and `Wire` and have no effect in `Primitives`. Lock data is encoded
  and read back, but no lock at the server has a value.
- `ClientHandle` and the traits of `api.rs`: delegation without state.
  `as_string_list` and `as_string_map` map lists and maps through UTF-8.
- The MD5 digest and the clock and random part of ids: only that different
  inputs give different ids and keys.
- `client_id`, addresses, socket options, `Debug`: no state that the properties
  speak about.
- A server that answers a request twice or answers one it never got: the server
  is assumed to be a lock server. A response that does not decode is modelled.
- Poisoned mutexes: nothing panics while a guard is held.

Divergences from `design.md` read off the code and not given a run: `close()`
does not wait for the reader (18.5, 18.6), a failed write does not close the
socket (9.3), `release_read` releases the latest read lock, not the earliest
(15.4), `STATE_ERROR` from all nodes is reported at once and not retried (13.3), and
there is no actor that removes the entry of a dropped aio future (10.3).

## 7. Plan

Done: the connection, its abstract contract and its proofs; the aio mirror and
the same proofs with dropped futures; the steady life of both; the replica set
with dropped futures, its queue and its theorems; the primitives, group events
and their theorems; frames, commands and data byte by byte. Every safety
property of a run is a theorem.

Left:

1. `Wire` with losses: where the reader is when a connection breaks within data.
2. The steady life with a second opener, as far as it holds: which of the
   properties of `conn_steady` survive it.
