# A verification project for the IoTDB client for Node.js

TLA+ modules of the client: the parts whose behaviour depends on the order in which
callbacks, timers and callers run, and the formats in which its bytes and structs
cross the wire; TLC runs on small instances, and TLAPS proofs for every size.
Paths in this text are relative to `src/` of the repository unless they name a
module.

## 1. Inventory

The client is single-threaded JavaScript. Nothing interleaves inside a
synchronous stretch of code; everything interleaves at an `await` on the network
or a timer. The interesting bugs are therefore state that is read before an
`await` and used after it, and timers that race answers.

| Component | State | Operations | Interacts with |
|---|---|---|---|
| Session pool (`client/BaseSessionPool.ts`, `SessionPool.ts`) | `pool`, `idleSessions` (deque), `activeSessions`, `inUse` flags, `waitQueue`, cleanup interval | `init`, `getSession`, `releaseSession`, `cleanupIdleSessions`, `close`, counters | creates sessions, called by every request, closed by process cleanup |
| Redirect routing (`BaseSessionPool.ts`, `RedirectCache.ts`) | `endPointToSession`, round-robin index, cache of device to endpoint with a time to live | `getNextEndPoint`, `getSessionForEndpoint`, `insertTablet`; cache `get`, `set`, `remove`, `clear` | adds sessions to the same pool, outside the size check |
| Parallel operations (`BaseSessionPool.ts`) | the sessions a call has acquired, a shared index, errors | `insertTabletsParallel`, `executeParallel` | hold several sessions of the pool at once |
| Table session pool (`TableSessionPool.ts`, `TableSession.ts`) | `currentDatabase` of the pool and of each session | `createPoolSession`, `executeNonQueryStatement`, `syncDatabaseContextToPool` | runs `USE` on the sessions the pool thinks are idle |
| Connection (`connection/Connection.ts`) | `connection`, `client`, `isConnected`, `sessionId`, `statementId` | `open`, `close`, `isOpen`, socket events | one per session; thrift underneath |
| Session (`client/Session.ts`) | its connection, `lastRedirectEndpoint` | open, close, query, non-query, tablet inserts, encoding and decoding | one request, one answer |
| Result sets (`client/SessionDataSet.ts`) | rows of the batch, index, `hasMoreData`, `isClosed`, cleanup callback | `hasNext`, `next`, `fetchNextBatch`, `toColumnar`, `toArray`, `close` | holds its session until closed, then releases it |
| Concurrent executor (`utils/ConcurrentExecutor.ts`) | item index, errors, stop flag; a counting semaphore | `executeConcurrent`, `executeBatched`, `createSemaphore` | callers' operations |
| Codec (`Session.ts`, `utils/FastSerializer.ts`, `client/ColumnDecoder.ts`) | none | columns, null bitmaps, blocks | buffers only |
| Buffer pool (`utils/BufferPool.ts`) | free buffers by size class | `acquire`, `release`, `clear` | the fast serializers acquire; nothing in the program releases |
| Process cleanup (`utils/ProcessCleanup.ts`) | registered closables, the cleanup in progress | register, unregister, exit handlers | closes pools and sessions |
| Configuration, records, types, errors, logging | none worth modelling | | |
| Thrift client (`thrift/generated`) | sequence number and callback table per connection | one method per call of the service; constructor, `write()`, `read()` per struct | below connections, sessions and result sets |

What makes each correct, and what is hard about it:

* **Session pool.** A session has one user; open connections are never
  forgotten; a caller waits only if nothing is free; waiters are served in order
  and no caller hangs; the pool stays within its size. Hard: creation takes an
  `await` between the size check and the push; a wait timeout races a hand-over;
  cleanup closes a session before it removes it; connections die at any time.
* **Connection.** `isOpen()` must imply a live socket. Hard: `isConnected` is
  written by `open`, by `close` and by events of any socket the object ever had;
  a callback whose timer has fired still runs.
* **Executor.** Each item once, batches in order, a stop that stops, a report
  that adds up.
* **Redirect routing.** A write goes to the endpoint last recommended for its
  device, on a session that is open and not shared. Hard: the cached session is
  shared by design of the code and released into the idle queue.
* **Parallel operations.** No two calls wait for each other for ever; each item
  once; all sessions come back.
* **Table session pool.** Every idle session is in the pool's database. Hard:
  two concurrent `USE`, sessions created meanwhile, `inUse` that is not set on
  reuse.
* **Result sets.** Every row once, in order; the session comes back exactly once.
* **Codec.** Decoding inverts encoding, including null bitmaps whose length is no
  multiple of eight.
* **Buffer pool, process cleanup.** A buffer is longer than asked for, or dirty, and
  nothing of that is sent; one cleanup closes what is registered before the process ends.
* **Thrift client.** An answer reaches the callback of its call; a field arrives under
  its own name, also from a peer of another version.

`PROJECT.json` lists the hazards line by line, with the properties that cover
them or the module that is to.

## 2. Modules

| Module | What it is |
|---|---|
| `SessionAllocator` | abstract: permits and a first-come first-served queue |
| `SessionPool` | `init`, `getSession`, `releaseSession`, cleanup, `close` of `BaseSessionPool.ts`; implements `SessionAllocator` |
| `SessionPoolProofs`, `AllocatorProofs` | nine theorems about it; that it implements `SessionAllocator` |
| `RedirectCache` | `RedirectCache.ts` |
| `RedirectPool` | `insertTablet` with redirection, on top of `SessionPool` and `RedirectCache` |
| `RedirectProofs` | six theorems about these two |
| `TablePool` | `TableSessionPool.ts`: the database context, on top of `SessionPool` |
| `TableProofs` | four theorems about it, among them that it is a `SessionPool` |
| `ParallelPool` | `insertTabletsParallel` and `executeParallel` |
| `Connection` | one `Connection` object over several `open()` calls |
| `ConnectionProofs` | four theorems about it, and one about `ProcessCleanup` |
| `RpcClient` | the callback table of the generated client |
| `DataSet` | one query and its `SessionDataSet`, on top of `RpcClient` |
| `DataSetProofs` | three theorems about these two |
| `ConcurrentExecutor`, `Semaphore` | `executeConcurrent`, `executeBatched`; `createSemaphore` |
| `ExecutorProofs` | eight theorems about these two and `ParallelPool` |
| `ProcessCleanup` | `ProcessCleanup.ts` |
| `ThriftTypes`, `ThriftService`, `Wire` | the tables of the structs and of the methods, and how a struct crosses the wire |
| `Bytes`, `TabletCodec`, `ResultCodec`, `Codec` | buffers; tablets into bytes; bytes into rows; one message on its way |
| `WireProofs` | two theorems, about `Wire` and about `Codec` |
| `MCCodec` | samples of tablets and results for TLC |
| `MCSessionPool`, `MCRedirectPool`, `MCTablePool` | instances for TLC |
| `MCConcurrentExecutor` | sum of `ConcurrentExecutor`, `ParallelPool`, `Semaphore`, an elastic `SessionPool` and `RedirectCache` |
| `MCConnection` | sum of `Connection`, `DataSet`, `ProcessCleanup`, `Wire` and `Codec` |

A sum is one run for several independent systems: a behaviour is a behaviour of the
part that `Init` chooses, and the variables of the others do not change.

An operator marked `mutant` stands directly before the definition it would
replace. It is a plausible wrong version of that code and is used nowhere: every
property is known to fail when one of its mutants is put in place.

### SessionPool

One action is one turn of the event loop: the synchronous code from a call, a
timer or an I/O callback up to the next `await` on the network, together with the
microtasks it resolves.

| State | Code |
|---|---|
| `pool`, `active`, `waitQueue` | the fields of that name (`activeSessions`) |
| `idle` | `idleSessions`, a deque: taken from the front, pushed at the back |
| `inUse` | the `PooledSession.inUse` flags |
| `conn[s]` | the connection of session object `s`: not created, open, closed |
| `phase`, `initPending` | progress of `init()` and `close()`, the `createSession` calls of `init()` in flight |
| `cleaning`, `closing` | `close()` calls of the cleanup, and of `pool.close()`, in flight |
| `pc`, `holds` | each caller: outside, creating, waiting, using; and the session it got |
| `leaked` | history only: sessions handed to a caller that had timed out |

`getSession` is `Reuse` (an open session at the front of `idle`), `CreateNew` then
`CreateDone` or `CreateFails` (there is room; the `await` is between them), or
`Enqueue`. A closed session at the front is dropped in the same turn
(`StaleHead`). `CreateDone` contains the push of `createSession` and the shift of
`getSession`, which may take a different session (`AfterCreate`). `Timeout` is the
wait timer; it leaves the queue entry, marked `Expired`, because `indexOf(resolve)`
looks for a function that was never queued. `releaseSession` is `ReleaseForeign`
(not in the pool any more), `ReleaseToIdle` or `ReleaseToWaiter`. The
environment is `Lose` (a socket event), the interval is `CleanupTick` with one
`Cleaned` per session when its `close()` has returned, and `close()` is
`CloseStart` with one `CloseSession` per session, the last of which clears
everything.

Assumed of callers: they await `init()` before they use the pool, release a
session once, and call `close()` once, after `init()` has settled; they may call
`getSession` during and after `close()`. A session is released because each
method of the pool does so in a `finally` block, or in the callback of a data set
that its user closes.

Bounds: `Clients` and `Sessions` (session objects ever created) are finite;
`MaxQueue` stops new calls when the queue is that long, so that `Expired` entries
stay few. `Faults` selects the faults of a run.

Abstracted here: which endpoint a session connects to and the sessions of redirection
(both in `RedirectPool`), `lastUsed` (any idle session may be old enough for the
cleanup), the counters and logs.

`SessionAllocator` is what a caller may rely on until the first lost connection,
cleanup or close: a counting semaphore whose permits may grow, with one queue, and with
the one weakness that a permit handed to a caller that gave up is lost. Its queue is a set
of waiting callers and the relation "has waited longer". The mapping: idle entries are
the free permits, the callers in `waitQueue` wait in the order of their entries, and the
`Expired` entries are counted as dead. After a disturbance the abstract state is empty
and `up` is false.

### RedirectPool and RedirectCache

A client inserts a tablet of some device with `insertTablet` of the pool:
`InsertAnywhere` is `getSession` (the cache has nothing for the device), `InsertThere`
takes the session kept for the endpoint as it is, whoever has it and wherever it stands
in `idle`; `InsertOpens` and `InsertOpened` are the two turns of opening one. `Reply` is
the callback of the insert, which may set the session's `lastRedirectEndpoint` and never
clears it; `Continue` is the rest of `insertTablet`: read and clear it, fill the cache,
release. Or a client takes a session (`TakeSession`) and inserts with it itself
(`DirectInsert`), any number of times, as `insertTabletsParallel`, `executeParallel` and
the users of `getSession` do (`direct`): `Reply` is the same, but `DirectContinue` and
`DirectRelease` do not look at the recommendation, and it stays on a session that goes
back to idle. The next `insertTablet` of the pool that gets this session and is answered
without a recommendation of its own files it under its own device. `unread` are the
sessions in that state.

Replies of one connection that arrive together run their callbacks before any
continuation, so `turn` holds the continuations of the current turn and no other action
happens until it is empty. A map of JavaScript keeps the order of insertion: the cache is
a sequence, and an entry's age is a flag that time sets in that order (`Age`, which
`EntryAges` takes into `RedirectPool`). `CacheSpec` is the cache alone, under any calls;
`RedirectPool` makes those of `insertTablet`. The class calls itself LRU
(`client/RedirectCache.ts:30`), but `get` does not move an entry: the order is that of the
writes, and that is what `CacheSound` states. The eviction tests `if (firstKey)` (`:76`), so
an empty device id at the front is never evicted and the cache outgrows its size:
`CacheSound` bounds the size for caches in which no id is empty (`EmptyDevice`), the
rest of it holds with one.

A shared session may be pushed to `idle` again at every release, so `MaxIdle` bounds new
inserts on shared sessions. `MaxDetours` bounds how many faults happen and sessions are
taken by `TakeSession`, together.

### TablePool

Each connection has its own `database` at the server, and `sent[s]` holds the `USE`
statements on their way over the connection of `s`, executed in order. The creation of
a session applies the database of the pool or of the configuration; `ApplyContext`,
`CreatedIn` and `CreatedBare` are its turns, an error of the `USE` is swallowed.
`Begin` takes a session for a `USE` (or for anything else), `Answered` is the answer to
the next statement of a connection: the pool's `currentDatabase` follows a successful
`USE`, and a `USE` goes to each session not marked `inUse` (`SyncTargets`). Only
sessions that were handed over or are being created are marked; one reused from `idle`
is not, and its database changes under its user. `missed` notes the sessions the
last change did not reach (marked in use, being created, or a `USE` that failed): these
stay in the old database when they come back, and nothing repairs that until the next
`USE`. There is one more way, and it concerns sessions that were reached: the `USE` of the
*configured* database for a new session is sent while the pool has no database yet, and
if it is answered after a caller's `USE` has succeeded, `createPoolSession` sets
`currentDatabase` back to the configured one and tells no session (`SetBack`, `leftIn`):
all sessions, idle ones included, stay in the database the pool had followed its caller to.
`ContextFollows` says that there are no others: a session that is not in `missed` is in the
pool's database or, after a set-back, in the one that was left. The session that carried the change
is reached (`Reached`) unless statements of another caller wait behind it on the same
connection, which takes two callers on one session: they then move it elsewhere.

### ParallelPool

Several calls of each kind on a pool whose sessions are counted, as in
`SessionAllocator`. `Obtain` is one `await this.getSession()`, the call holding what it
has; `AcquisitionFails` is the wait timer; `StartWorking`, `Settle` and `FinishCall`
are the workers and the `finally` block. The queue is concrete, because the entry of
a call that gave up stays and costs a session: that is why `SessionsBack` allows one
session less for each such call.

### RpcClient and DataSet

`RpcClient` is the table of callbacks of a connection by sequence number, and the
requests on the wire. `DataSet` is one query through it: `Ask`, `Answer`, the readers'
`hasNext()` (`Look`, `Finished`, `FetchNextBatch`, `Fetched`, `FetchFails`) and
`next()` (`Take`), the loop of `toColumnar()` in the same actions, and `close()` by anybody
at any time, which calls `closeOperation` or, without a connection, runs its
`finally` block at once. Two readers may overlap; what `RowsInOrder` promises them then
is less. When the link is lost no callback runs any more: a caller in a call hangs,
and the session stays with it.

### ProcessCleanup

Sessions and pools register in their constructors, those of a pool like all others
(`NewSession`, whose `owner` is the pool), and are removed when their `close()` ends.
`close()` of a pool calls `close()` of the sessions it has (`CallsOf`) and ends when
these have. Any of the events starts the one cleanup or joins it. It calls `close()` of
everything registered, so a pooled session is closed twice by one cleanup, once itself and
once through its pool: `closeCalls` counts, and `CleanupOnce` says that it is never more,
and no more than once for a pool and a session of the user. That the second close of a
session is harmless is the matter of `Connection`, where any number of closers overlap.
The cleanup ends when all calls have settled or time is up; then the handlers go on in the
order they came, and all but that of `beforeExit` end the process. Bounds: an object is
closed by its user again only when his first call has ended, and each event is waited for
once at a time. A session that is opened again after its `close()` is not registered again
(only constructors register), so no cleanup closes it: there is no `open()` after a close
here.

### Wire, ThriftTypes, ThriftService

`ThriftTypes` is a table of all structs of `client_types.js` (and of `TEndPoint` and
`TSStatus` of `common_types.js`): fields in the order `write()` sends them, id, type,
required or not. `ThriftService` has the methods the program calls, with the
structs around argument and result. `Wire` sends one struct, or makes one call with the
arguments that the program gives (`ProgramCalls`), to a side that is of the same version,
has a field more, or has another type for a field, and gets a reply. The server is taken to
read and write as the generated code does.

### Bytes, TabletCodec, ResultCodec, Codec

Byte `k` of a number `v` of `w` bytes, the most significant one first, is the cell
`<<v, k, w>>`: reading at a wrong place, in a wrong width or in the wrong byte order gives
`Garbage`. Bitmaps have the bits as they are. What is
kept: widths, lengths, order of columns and bitmaps, bit order, nulls that take space or do
not, the byte order of numbers, the cutting of pooled buffers (of columns and of times),
rounding of dates and times, ranges of INT32, and the mapping of column names to columns
of a block. What is abstracted: the bits of floats, UTF-8 (a text is its length). The
server's side is written from what the code reads, with one exception. `parseDataSet`
reads the times of a `TSQueryDataSet` as little-endian (`client/Session.ts:1202`) and all
its values as big-endian, with the comment "TSQueryDataSet uses BIG ENDIAN" (`:1239` and
after): one structure, two orders, and no test or document that decides. So
`ServerSends` tries both orders for the times (`options.littleTimes`), and `CodecSound`
claims of the times of a data set only that they arrive if the server writes them
little-endian; from a server that writes them as the comments say, they come out wrong.
`Day` and `MaxInt32` are scaled down, `PoolFrom` and
`SizeClasses` stand for the 1024 bytes from which the serializers use the pool and for
its size classes, so that columns of nine rows reach them.

What is sent is a constant: `TabletRequests`, `BlockResults`, `DataSets` and `Mappings` are
sets of samples, of which `SampleAssumption` asks only that they are tablets and tables
(as many values in a column as there are rows, each of the column's type or null, one value
in a run). `MCCodec` gives TLC the finite ones of section 3. `Null`, `Undefined` and
`Infinite` are constants that are not integers, which TLC takes as model values.

### Connection

Attempt `k` is the `k`-th call of `open()`; it creates socket `k`, and the ids the
server returns over it are written `k`. `OpenStart`, `SessionReply`,
`StatementReply` are the three turns of a successful `open()`; `CallFails` is an
error or a bad status, `CallTimer` a 30 s timer. A call that timed out stays
in `late[k]`, and `LateReply` runs the rest of its callback. `SocketCloses` is the
`error` or `close` event of any socket that still has its listeners.
`CloseStart` sends `closeSession`, or tears down at once when there is no session
id; `CloseFinish` is its answer, its error or the 5 s timer, and the teardown of
whatever the object holds by then. Several closers are the user, the idle
cleanup and the exit hook. `open()` is called one at a time, on a session that is
not open. `MaxOpens` bounds the calls.

### ConcurrentExecutor

`working[w]` is the item worker `w` awaits. The workers start one after the other
up to their first `await`, so the initial state already has their items; an action
is the settling of one operation with everything its worker does until the next
`await` (`Loop`). `NextBatch` and `Return` are the continuation of
`executeBatched` when all workers have ended. `executeConcurrent` is the case of
one batch. `stopOnError` is chosen by the caller. Results are abstracted to the
sets `done` and `failed`.

## 3. Runs

| Run | Instance | States | Shows |
|---|---|---|---|
| `pool_safe` | 3 callers, 4 sessions, sizes 1 to 2, all faults, symmetric | 1.6 million | seven safety properties, and that the pool implements `SessionAllocator` |
| `pool_fixed` | 3 callers, 3 sessions, size 2, timeouts and `close()`, fair | 40 000 | exclusive use, exact counters, every call settles |
| `redirect` | 2 writers, 2 devices, 2 endpoints, 3 sessions, size 1, a cache of 1, one fault of any kind or one direct user of a session, symmetric | 5.2 million | no foreign recommendation unless a session was shared or a direct user left his unread, no open connection forgotten, sharing is confined |
| `table` | 3 callers, 3 sessions, 2 databases, sizes 1 to 2, failing `USE` and creations, symmetric | 550 000 | the context follows, or has been set back |
| `connection` | sum: 3 opens, 2 closers; 3 rows in batches of 2, 2 readers; a pool, 2 sessions, 3 events; every struct and call; columns of 1, 2 and 9 rows of all types | 1.3 million | eleven properties |
| `executor` | sum: 7 items, 3 workers, batches of 5; 3 calls for 2 sessions; 4 tasks for 2 slots; 3 callers of a pool of 1 to 2 sessions without faults; a cache of 3 for 4 devices; fair | 34 000 | thirteen properties |
| `doc_exclusive`, `doc_max_size`, `doc_active`, `doc_success_count`, `doc_endpoint`, `doc_nulls` | 1 to 3 callers; 4 items; columns | | what the documentation says and the code does not do |

Why these bounds. Three callers are the least that let one create, one release
and one wait at the same time, or two overshoot a pool of two; two sessions let a
shift take the wrong one; four session names allow the two of the pool, one too
many and one replacement. Three opens and two closers let a stale socket, a
late answer and a slow closer meet a reopened connection. A pool, two sessions and three
events let a session of a pool and one of the user, a pool that is closed by its user and
by the cleanup, and one that grows after the cleanup began, meet in one cleanup. Seven items in batches of
five with three workers give a full batch in which every worker goes round again,
and a short one with fewer items than workers. Two writers and two endpoints let one
session be shared and the recommendation of one insert meet the continuation of
another; one detour lets a writer insert with a session itself and leave his
recommendation to the other, or one fault happen; a cache of one entry and, alone, of three for four devices reaches
eviction, replacement and expiry. Three callers of a pool that grows to two let a
`USE` meet a second one, a creation and a queued caller; it takes a fourth to put a
statement behind the one that carries the change, which is too much for a run with
failing statements and left to the proof of `ContextFollows`. Three rows in batches of two
give a full batch, a short one and, since the server may say "more" with no rows, an
empty one. Three calls that want three, two and one sessions of two can each hold
a part while they wait. Nine rows are one byte of a bitmap and one bit. The safety
properties that are proved hold for every size.

Deadlock is not checked: every system here may stop (all callers outside with
nothing to do, a pool whose `init()` failed, a returned call, a message that was read).

The properties of the pool come in three groups. `CapacityBound`, `WaitersWait`
and `OpenIsPooled` hold under all faults. `NoLostWakeup`, `PermitsConserved` and
`NoBarging` hold until the first lost connection, cleanup or close (`Undisturbed`,
which is never true again once false): afterwards the release of a session the
pool has dropped wakes nobody, and a permit goes with it. `Exclusive` and
`ActiveExact` hold moreover only if `getSession` never creates, that is with
`minPoolSize = maxPoolSize`; `doc_exclusive` shows why.

`Exclusive` of a pool with redirection is not to be had at all: `SharingConfined` says
what remains, that in a pool which does not grow by itself only sessions opened for
an endpoint are ever in two hands or idle twice. `OwnAdvice` has the matching premise:
recommendations end at the right device as long as no two writers ever had one session,
and a session was not released by a direct user with his recommendation on it.
`ContextFollows` is about a pool at rest; while statements are on their way nothing
can be said of where a session is.

### What the runs found

* **A session with two users** (`doc_exclusive`). A caller starts a creation; a
  session is released to idle meanwhile; the creation pushes its session behind
  it and shifts off the *front* one. The new session is in use and idle at once.
* **`maxPoolSize` is exceeded** (`doc_max_size`) by callers that passed the check
  while others were connecting. `CapacityBound` is the limit that does hold:
  `maxPoolSize - 1` plus the number of concurrent callers.
* **A session is lost to a dead waiter** (`doc_active`): a timed-out caller stays
  in the queue and is served later.
* **`successCount` counts items that never ran** (`doc_success_count`).
* **A redirected session is not at the endpoint it was opened for** (`doc_endpoint`):
  `createPoolSession()` takes the next node of the round robin.
* **Null booleans arrive as false or true** (`doc_nulls`): the decoder of BOOLEAN columns of
  a TsBlock returns the null indicators beside the values, and nobody reads them.

Modelled and visible in the state graph, but without a run of its own: the
cleanup can go below `minPoolSize`; a hand-over may serve a closed session;
`close()` leaves open what was being created; a session marked in use, being created or
failing during a `USE` stays in another database; a caller that gave up in a parallel
call costs the pool a session; an empty batch with `moreData` ends the iteration and
leaves the data set open; two overlapping `hasNext()` skip rows; one cleanup of the process
closes a pooled session twice; a late `USE` of the configured database sets the pool's
database back and leaves all its sessions in another; a recommendation that a direct user of
a session did not read is filed under the device of the next insert, although
`client/Session.ts:241` says "Returns null if no redirect was recommended in the last
operation"; an empty device id is never evicted from the cache; the times of a data set in
the byte order of its values are misread.

Read in the code while modelling, and outside what the models say: `toColumnar()` and
`getValueByIndex()` take columns by position and ignore the mapping of names to columns of a
block; DATE and TIMESTAMP values of blocks stay numbers while those of the older format
become `Date` objects; the struct `TEndPoint` has no internal address, so
redirection always uses `ip`; `redirectCacheTTL: 0` means five minutes, not no expiration
(`BaseSessionPool.ts:106`).

### Fairness

* `pool_fixed`, and the elastic pool of `executor`: connection attempts end
  (both calls inside have a 30 s timer), holders release, wait timers fire. No caller
  has to call and no fault has to happen. That holders release rests on the server
  answering: the requests themselves have no client-side timer.
* `connection`: only the timers. No call has to be answered.
  The other parts of this run have safety properties only.
* `executor`: operations settle, a resolved `Promise.all` goes on, calls that can obtain a
  session do, the wait timer fires, tasks inside the semaphore release.

## 4. Proofs

Eight modules hold the proofs. They rest on the named assumptions on the constants only,
each in the module that declares the constant and each evaluated by TLC in a passing run:

| Module | Assumptions |
|---|---|
| `SessionPool` | at least one client, finitely many clients and session names; `1 <= minPoolSize <= maxPoolSize`; faults are fault kinds; markers are not clients or sessions |
| `RedirectPool` | node URLs are a nonempty sequence of endpoints; markers are not endpoints or devices; bounds are numbers |
| `RedirectCache` | room for one entry |
| `TablePool` | the marker is not a database; the `minPoolSize` creations of `init()` are not clients |
| `ParallelPool` | finitely many calls; at least one item and one worker for each; a number of sessions |
| `DataSet` | the caller of `close()` is not a reader; a number of rows, at least one per fetch |
| `ProcessCleanup` | `beforeExit` is one of the events; pools are not sessions, and "not through a pool" is no pool |
| `Connection` | at least one `open()` |
| `Bytes` | a day of at least one millisecond, a largest INT32; null, undefined and non-finite are not integers |
| `TabletCodec` | the buffer pool has a size class |
| `Codec` | the samples are tablets and tables, mappings are sequences of numbers |
| `ConcurrentExecutor`, `Semaphore` | at least one item, a concurrency and a batch size of one or more; finitely many tasks, a number of slots |

So clients, sessions, rows, items, events and attempts to open are of any number, the
faults are any, and so are the tablets and results, their types, lengths and values.

### Sessions: `SessionPoolProofs`, `AllocatorProofs`

| Theorem | Statement | Argument |
|---|---|---|
| `TypeCorrect` | `[]TypeOK` | inductive as it stands; `Tail` and `RemoveAt` of a deque stay in its type |
| `Capacity` | `[]CapacityBound` | not inductive: a step of `init()` could push beyond it while callers create. Strengthened with `InitPhase`: no caller creates before `init()` has settled. Then a creation starts with fewer than `maxPoolSize` sessions and at most one per caller is in flight |
| `Waiters` | `[]WaitersWait` | inductive with the types: an entry is unique because a caller enqueues only from outside |
| `Pooled` | `[]OpenIsPooled` | with "`close()` calls in flight only while closing" |
| `Wakeup`, `Permits`, `Barging` | `NoLostWakeup`, `PermitsConserved`, `NoBarging` | `QuietInv`: until disturbed, all of `UpInv` holds, where `SessionsUp` says that what is idle or held is in the pool and open. A disturbance is never undone (`StaysUndisturbed`), so a step into an undisturbed state is one of `init`, `getSession` and `releaseSession` (`QuietActions`). The three are needed together: the count of permits needs that releases find their session |
| `FixedPool`, `FixedCount` | `[](Exclusive /\ ActiveExact)` and `[]ActiveExact` if `MinPoolSize = MaxPoolSize` | `FixedInv`: a ready pool is full, so nothing is created (`FullPool`), and idle entries, holders and `active` are apart (`Apart`) |
| `PoolIsAllocator` | `ImplementsAllocator` | step simulation from `QuietInv`. The mapping turns `waitQueue` into a set, a relation and a count, and the lemmas `JoinQueue`, `LeaveQueue` and `ServeQueue` say what pushing, giving up and shifting do to these three. Serving is the hard one: dead entries in front of the first live one stay dead and are not counted again. A disturbance is `Disrupt`, and every later step stutters |

`FixedPool` and `FixedCount` have a hypothesis because the code has the defect that
`doc_exclusive` and `doc_active` show: in a pool that grows, a created session is
released once too often. It is the common configuration that escapes.

### Routing: `RedirectProofs`

| Theorem | Statement | Argument |
|---|---|---|
| `CacheCorrect`, `RoutedCache` | `[]CacheSound` of `CacheSpec` and of `RedirectSpec` | `CacheInv`: at most `CacheSize` entries if no device id is empty (`Fits`), and `Orderly`, that is one per device and no entry older than one before it. `RemoveAtOrderly`, `TailOrderly`, `AppendOrderly` make every operation keep it, eviction included, because `set` removes a device's entry before it appends |
| `RedirectKeepsPooled` | `[]RedirectPooled` | the pool's invariant with one more state for a caller, `opening` (`PoolInv`); a session for an endpoint joins the pool in the step that opens it, whatever the pool's size |
| `AdviceIsOwn` | `[]OwnAdvice` | `Advice`: as long as no session was shared, no two callers hold the same one (`OwnSession`), hence a recommendation a session keeps is for an insert whose continuation has yet to read it, unless a direct user has the session or left it so (`PendingAdvice`, `Overlooked`). `DirectKeeps` is the step of a direct user; `Inserting` and `InTurn` connect the states of a call with the microtasks of other calls that may run in between |
| `RedirectTypes` | `[]RedirectTypeOK` | with `Dialing` (who is connecting to which node) and `Created`: no step but an opening touches a session that is yet to be created, so a session has a peer exactly when it has been opened |
| `SharingStaysConfined` | `[]SharingConfined` if `MinPoolSize = MaxPoolSize` | `ConfinedInv`: `FullPool`, and a session that no endpoint owns is idle once or in one hand (`Alone`). Without the hypothesis the doubled sessions of a growing pool are not confined |

### Table model: `TableProofs`

| Theorem | Statement | Argument |
|---|---|---|
| `TableTypesCorrect` | `[]TableTypeOK` | with `TableInv` |
| `ContextIsFollowed` | `[]ContextFollows` | `TableInv`: the pool's `QuietInv`, `SentInv`, `Followed` and `LeftBehind`. `SentInv` says who waits for which statement: one on its way belongs to a client that is still busy (`Owned`, `Busy`), a fresh session has none (`Silent`), and a connection carries at most one statement of each client's own (`Single`). `Followed` is the property away from rest: a session that the last change reached either has a `USE` for the pool's database as the last one of any change on its way, or has none of a change on its way and is in that database; after a set-back the same of `leftIn`. `LeftBehind`: a creation that may set back wants the configured database, so while `leftIn` is set the pool is in that one |
| `TablePoolIsPool` | `TableSpec => Spec` of `SessionPool` | `TableStep`: a step about a `USE` leaves the pool's variables alone or ends a creation or a release, all others contain one of the pool's actions. The answer to a caller's statement is the release of its session, so `TableInv` has to say whose statements are on their way |
| `TablePoolServes` | `CapacityBound`, `NoLostWakeup`, `PermitsConserved`, `ImplementsAllocator` | by that, the theorems of `SessionPoolProofs` and `AllocatorProofs` are theorems about the table pool |

An invariant without "unless statements of another caller wait behind it" in `Reached` is
false: with four callers, two of which share the session that carries the change. TLC
found that behaviour when the invariant was tried before the proof.

### Connection and process: `ConnectionProofs`

| Theorem | Statement | Argument |
|---|---|---|
| `ConnectionTypes`, `OpenConnectionIsUp`, `LatestSocketOwned` | `[]TypeOK`, `[]OpenMeansUp`, `[]SocketOwned` | `ConnInv`. `OpenMeansUp` is not inductive because a statement id sets the flag whatever the current socket is; `OneOpening` (only the latest `open()` is in progress) and `SocketOwned` make it the right one |
| `LostStaysLost` | `LostIsLost` | an action property. `IdInv`: a connection that is open, or whose statement id is asked for, has a session id (`FlagHasId`, `IdWaits`), for an id is cleared only with its socket. So only an answer to the latest `open()` sets the flag (`OnlyOpenOpens`) |
| `CleanedUpOnce` | `[]CleanupOnce` of `CleanupSpec` | `CleanupInv`: the cleanup closes nothing before the first event (`NothingBefore`), everything in the snapshot is being closed or is (`SnapshotClosing`), and "settled" means no such close in flight or time over (`SettledWell`). A pool holds only sessions of its own (`PoolsOwn`), so a session is closed through one pool at most |

### Result sets: `DataSetProofs`

| Theorem | Statement | Argument |
|---|---|---|
| `CallbacksExact` | `[]RpcExact` | `Wired`, about the variables of `RpcClient`: sequence numbers on the wire grow up to the last one drawn, and callbacks are registered for exactly the requests there. `Sending` and `Answering` are the two operations any caller of the service makes |
| `SessionGivenBack` | `[]SessionBackOnce` | `BackInv`: requests in flight and callers that wait for them are the same (`InFlight`); before the query is answered nobody reads or closes (`Before`); the one who set `isClosed` is the only one to await the close and to release (`OneCloser`) |
| `RowsReadInOrder` | `[]RowsInOrder` | `RowsInv`: the current batch is the last rows sent (`Batch`); as long as no two fetches overlapped, the rows delivered are `1..Read`, and whoever fetches has read the batch to its end (`NoneMissed`); a reader is told "complete" only behind the last row (`Told`) |

### Executors: `ExecutorProofs`

| Theorem | Statement | Argument |
|---|---|---|
| `ExecutorTypes`, `ItemsHandedOnce`, `BatchesInOrder`, `ReportsAll` | `[]TypeOK`, `[]EachItemOnce`, `[]BatchOrder`, `[]FullReport` | `ExecInv`: what was handed out is what workers hold and what has settled, and ends at `itemIndex` (`HandedOut`); all before the current batch has settled (`EarlierSettled`); a batch ends with its items taken or stopped (`AllTaken`); the counters count (`Counted`). `LoopOnce` is the turn of one worker, which may take several steps of a loop |
| `NothingAfterFailure` | `StopsStarting` | an action property: a failure sets `shouldStop` with it (`StopFlag`) |
| `SlotsExact` | `[]SemaphoreExact` | `SemInv`: the queue holds tasks that are outside, once each (`QueueWell`); `release` hands its slot on instead of giving it back |
| `ItemsDoneOnce` | `[]ItemsOnce` | `ParallelInv`: each item that a call's workers took is in flight or has settled, and no more are in flight than it holds sessions (`WorkOf`) |
| `SessionsGivenBack` | `[]SessionsBack` | `SessionCount`: free sessions, those held and those lost add up to `Permits`, and a session is lost only to a dead entry, of which each call that gave up left one. Held sessions are counted as pairs of a call and a slot (`Slots`), so that a sum needs no recursion |

### Wire and codec: `WireProofs`

| Theorem | Statement | Argument |
|---|---|---|
| `RoundTrips` | `[]RoundTrip` of `WireSpec` | `WireInv`: the program passes names the struct has and all it needs, and the ids of a struct are different (`Addressed`, from the tables); until it is read the message is what `write()` put there, and each field of it that the reader knows is one of the struct's (`UnderWay`) |
| `CodecIsSound` | `[]CodecSound` of `CodecSpec` | `CodecInv`: what is on the wire is what the sender makes of the sample (`OnItsWay`), what was read is what the reader makes of that (`IsRead`). The rest is about operators, below |

The writers lay pieces one behind the other (`FlattenSeq`), the readers are recursive
functions that move a position. `PartsPlaced` says at which place each piece is found, from
the lengths of those before it; `SameSteps`, that two recursive functions that agree on their
first value and on each step are the same, so that the reader's position is that place.
From these follow `ItemsRead` (values of any width, nulls that take space or do not),
`FlaggedRead` (the bitmaps of a tablet), `ArrayRead` and `ColumnRead` (the columns of a
block, in each encoding), `BlockRead`, `TextsRead` and `FixedRead` (the columns of a data
set), and from them `TabletGetsThrough`, `BlocksArrive` and `DataSetArrives`. A bitmap is
the sum of eight weights (`EightBits`); `BitsRead` gets the rows back from either bit order.
`FastSame` says that both serializers write the same bytes, whichever buffer of the pool
they cut theirs from.

Induction over data is by `NatInd`: a *set* that contains 0 and with every number the next one
contains them all. It is proved from `WFMin`, the minimum of a well-founded relation, which
takes a set and not an operator as its parameter; the induction theorems of the library do
take an operator, which the installed provers cannot instantiate.

### Only model-checked

* Everything under fairness: `EveryCallSettles`, `WaiterServed`, `Settles`,
  `ExecutorReturns`, `ParallelCallsEnd`, `Admitted`. Liveness under `WF_` needs `ENABLED`,
  which this prover does not reason about.
* The violations: each is a behaviour, and TLC shows it.

`TableTypeOK` is the other way round: it is proved, and no run of its own repeats it.

## 5. Not modelled

* The client's thrift transport (framing, buffering): a library. Methods of the
  generated service that the program never calls, its server side, and the structs of
  `common_types.js` that only they use.
* `Session.insertTabletsParallel`: the worker loop of `ParallelPool` on one
  connection, without acquisition.
* `BufferPool.release` and `clear`: nothing in the program calls them; `acquire` may hit
  anyway.
* `getDataTypeCode`, `getRowCountFromBuffer`: no caller.
* Configuration builders and parsing, the accessors of `RowRecord`, error classes,
  logging: no state.
* Number formats (the bits of floats, UTF-8).
* `open()` of a session after its `close()` in `ProcessCleanup` (in `Connection` it is).
* A time limit of 0 in the process cleanup (`Unlimited`) is a constant of the module and is
  not run: without a limit the cleanup waits for ever for a close that does not end.

## 6. Plan

The model is complete as far as the code has state worth checking, and every invariant and
action property of the runs is proved. What could follow:

1. A limit for a pool with redirection: `CapacityBound` is not one, for sessions for
   endpoints are opened outside the size check. The number of endpoints bounds them only
   together with the faults.
2. `ParallelPool` as a client of `SessionAllocator`, in place of its own count of sessions.
