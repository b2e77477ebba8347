# TLA+ models of the reactor shortest-path server

TLA+ modules, TLC configurations and TLAPS proofs for the server in `src/`: an
epoll server in the main/sub-reactor style that takes queries over HTTP and over
a line protocol, runs them on a thread pool against MySQL and Redis pools, and
is updated by an offline builder through Redis.

Contents: [the system](#the-system) · [modules](#modules) ·
[runs](#what-the-runs-check) · [bounds](#bounds) · [fairness](#fairness) ·
[proofs](#proofs) · [disagreements](#where-code-and-documentation-disagree) ·
[not modelled](#not-modelled) · [what is left](#what-is-left)

## The system

| Part | State | Operations | Talks to |
| --- | --- | --- | --- |
| `EventLoop` (one main, four sub-reactors) | epoll set, `fd_to_handler` (`mtx_`), `msg_q_` (`q_mtx_`), self-pipe, `stop_` | `loop`, `updateHandler`, `removeHandler`, `sendToReactor`, `handlePipeNotify`, `stop` | handlers by callback on its thread; workers through `sendToReactor` |
| `Acceptor` | listening socket | `handleRead` accepts until EAGAIN and makes a `ConnectionHandler` | the sub-reactor `connfd % 4`, whose table it fills from its own thread |
| `ConnectionHandler`, `Handler` | descriptor, `events_`, `in_buffer_`, `out_buffer_`, `is_http_`, `http_parsed_` | `handleRead`, `handleWrite`, `handleClose` | thread pool (`submit`), its loop |
| `ThreadPool` (four workers) | `tasks`, `stop` (`mtx`, `cv`) | `submit`, worker loop, destructor | tasks call the query service and `sendToReactor` |
| MySQL `ConnectionPool` | `_connectionQue`, `_connectionCnt` (`_queueMutex`, `cv_in`, `cv_out`) | `getConnection`, its deleter, `produceConnection` | MySQL |
| `RedisPool` | `pool_` (`mtx_`, `cv_`) | constructor, `getConnection`, its deleter | Redis |
| Query service and place cache (also class `ConnectionPool`) | `_cache[2]`, `_currentVersion`, `_redis_current_version`, `_cacheLoaded` (`_updateMutex`) | `handleClientRequest`, `loadPlaceCache`, `updateCache` | both pools |
| `CacheUpdateListener` | a subscription | waits for `cache_update`, calls `updateCache` | Redis, place cache |
| `offline_build` | MySQL tables, Redis `current_version` and `v0:*`/`v1:*` keys | all-pairs `dijkstra`, batch writes, switch, delete, publish | MySQL, Redis |
| start and exit (`server.cpp`, `Reactors`) | threads | construction, static and automatic destruction | everything |

A query goes `Acceptor` → sub-reactor → `handleRead` → `ThreadPool::submit` →
worker → `handleClientRequest` → `sendToReactor(fd, answer)` →
`handlePipeNotify` → `out_buffer_` → `handleWrite`. Threads: the main reactor,
four sub-reactors, four workers, the MySQL producer and the listener.

What is hard about it, and what makes each part correct:

* **Wake-up.** The pipe is edge-triggered and its writes may fail. Correct: no
  message is lost, repeated, reordered, or left while the thread sleeps.
* **Thread pool.** Notifications come after the unlock; destruction drains.
  Correct: each task runs once, in order; no sleeper beside a waiting task; the
  destructor returns.
* **Connections.** Two threads fill and read one table; reads and writes are
  partial; descriptors are reused; handlers delete themselves. Correct: each
  client gets its own answers, whole and in order; nothing deleted is used;
  nothing leaks.
* **Pools.** Connections return from deleters on any thread, growth is on
  demand, waits time out. Correct: no sharing, no loss, no lost wake-up, bounded
  growth.
* **Cache and hot update.** Double buffer without a reader's lock, locks taken in two
  orders, a notification that can be lost, a builder that can die and that looks at no
  error reply. Correct: a query sees one consistent version, and the servers converge
  on the last one built.
* **The offline computation.** A priority queue that keeps entries whose labels
  have improved since, sums in 32-bit `int` beside an infinity of 99999999.
  Correct: shortest distances, predecessors that lead back to the start.

`PROJECT.json` lists each hazard at its line with the properties that cover it.

## Modules

| Module | What it is | Source |
| --- | --- | --- |
| `Mailbox` | abstract: a FIFO whose messages are handled once, in order, eventually | the promise of `sendToReactor` |
| `EventLoop` | the self-pipe protocol; implements `Mailbox` | `net/EventLoop.cpp` |
| `Executor` | abstract: a FIFO of tasks, at most `Width` running, gone only when drained | the promise of `ThreadPool` |
| `ThreadPool` | mutex, condition variable, destructor; implements `Executor` | `thread/ThreadPool.{h,cpp}` |
| `Reactor` | a sub-reactor with its connections, using the two promises above | `net/Acceptor.cpp`, `net/ConnectionHandler.cpp`, `net/Handler.cpp`, `net/EventLoop.cpp` |
| `MySqlPool` | queue, clients, producer | `db/ConnectionPool.cpp` |
| `RedisPool` | queue and clients | `cache/RedisPool.cpp` |
| `QueryService` | queries, updates, the place cache and what they lock | `db/ConnectionPool.cpp`, `cache/CacheUpdateListener.cpp` |
| `HotUpdate` | the builder's steps, Redis' version and keys, a server's listener and a query that walks over them; deaths and lost messages | `offline_build.cpp`, `cache/CacheUpdateListener.cpp`, `db/ConnectionPool.cpp` |
| `Dijkstra` | `watch::dijkstra` step by step | `offline_build.cpp` |
| `MC*` | instances for TLC | |
| `EventLoopProofs`, `ThreadPoolProofs`, `ReactorProofs`, `MySqlPoolProofs`, `RedisPoolProofs`, `QueryServiceProofs`, `HotUpdateProofs`, `DijkstraProofs` | theorems | |

How the state corresponds:

* **`EventLoop`.** A message is the ticket of its push. `PushMsg` is the critical
  section of `sendToReactor`, `WriteByte` the write after it, with both kernel
  outcomes for a pipe that is not empty and the ignored EAGAIN of a full one.
  `ready` is the pipe's place on epoll's ready list. `EpollWait` takes it off the
  list (edge-triggered); `ReadPipe`, `SwapQueue` and `Dispatch` are the three parts
  of `handlePipeNotify`. `LoopPush`/`LoopWrite` are the loop sending to itself
  when `handleRead` serves the page. Handlers of connections appear only as what
  makes `epoll_wait` return.
* **`ThreadPool`.** A worker at `lock` is about to take `mtx` and evaluate the
  predicate; `Pop`, `Exit` and `Sleep` are the outcomes. `Submit` and `NotifyOne`
  are the two halves of `submit`. `SetStop`, `NotifyAll` and `Join` are the
  destructor, which starts when the last `shared_ptr` owner is gone (`Release`).
* **`Reactor`.** Requests and answers travel in two pieces each. The content of a
  query is its identity `<<client, number>>`, so that an answer to somebody else, a
  lost answer or a garbled line is visible. `hnd` holds the handler's fields,
  `mask` the epoll interest, `events` the batch `epoll_wait` returned.
  `Accept`/`EpollAdd` are the two steps by which the acceptor's thread registers a
  connection. `HttpRequest`, `HttpWait`, `HttpBusy` and `Lines` are the branches of
  `handleRead`. `Deliver` is one message of `handlePipeNotify`. `up` turns false
  where the code calls a deleted object; from there behaviour is undefined and
  nothing more is modelled. The pool is a FIFO whose first `Width` unfinished tasks
  run (`Executor`), the mailbox a FIFO (`Mailbox`): what the two modules above
  show of the code.
* **`MySqlPool`, `RedisPool`.** Connections are numbered. A client at `lock` is in
  `getConnection` with its predicate to be evaluated. `Take` is also enabled for a
  waiting client, because `wait_for` evaluates the predicate when it times out;
  `Timeout` is the timeout with nothing to take. `Release` is the deleter.
  `Produce` and `ProduceFails` are a round of the producer that ends in
  `cv_out.notify_all`. The Redis pool starts with any number of contexts up to
  `init_size`, because its constructor goes on without those it cannot connect,
  and never has more.
* **`QueryService`.** `pc` follows `handleClientRequest` and `loadPlaceCache` on each
  worker, `listenerPc` follows `updateCache`. `updateMutex` is the thread inside
  `_updateMutex`; `holders` are the threads with a MySQL connection, of which MySQL
  grants `capacity`. Place rows and Redis keys are named by the build they belong
  to, so that a buffer with rows of two builds, an emptied buffer or a version
  that is behind is visible. `LoadCacheData` and `ReadRedisVersion` may fail, as
  in the code without telling the caller. `overtaken` counts the switches since a
  query read `_currentVersion`; `handled`, `applied` and `failed` record what
  became of the updates. `EditPlaces`, `SetVersion` and `Publish` are the outside.
* **`HotUpdate`.** The same update from the other side. A key holds the number of
  the build that wrote it and `tree[build]` is what that build has computed, so
  that a prefix with keys of two builds is visible. `from` is the version the
  builder read at its start; `WriteKey` is one SET under `1 - from`, distances
  before predecessors; `RenameTables`, `SetVersion`, `DeleteOld` and `Publish` are
  the rest of `main`, in its order. `BuilderDies` may come between any two. Each
  command may also be answered with an error, which the builder does not notice
  (`execSQL` only prints it, replies of Redis are freed unread): a refused GET at the
  start makes `from` 0, a refused SET leaves the key out, a refused switch leaves
  `current`, after which `DeleteOld` deletes the live prefix, a refused EVAL leaves the
  old keys, a refused statement leaves the tables as they are. `refused` records which
  run was refused something by which database (`Spoils`); once it has been, that run may
  be refused more at no further cost (`Refuses`), as a Redis that is out of memory would.
  `LoadVersion`, `ReadVersion` and `StoreVersion` are what `loadPlaceCache` and
  `updateCache` do to `_redis_current_version`, read and store apart; `Subscribe`
  is the listener's start, on a thread of its own. `QueryBegin`, `ReadDist`,
  `ReadPrev` and `Reply` follow one query of `handleClientRequest` through its GETs,
  between which the builder may do anything. Three ghosts carry what the
  properties speak of: `missed` (the server will not be told of the last switch),
  `clean` (runs ended properly since a death or a refusal; -1 while the refused run
  still goes on) and `view` (what the query has read
  was of the published build, on an up-to-date server, with no switch or error in
  between).
* **`Dijkstra`.** `pq` is a set of `<<label, node>>`: equal entries are the same.
  `Pop` takes the least, and skips it if the node's label is lower by now; `Relax`
  looks at one of the node's edges, in any order.

## What the runs check

| Run | Shows |
| --- | --- |
| `event_loop` | `WakeInv`: every queued message has a wake-up on its way (see proofs). `MailboxFairSpec`: the loop implements the fair mailbox, also with a full pipe. |
| `thread_pool` | `SleepersInv`: no lost wake-up. `LifetimeInv`: nobody can call `submit` on a stopping pool, and it is gone only when drained. `DtorReturns`: destruction ends. `ExecutorFairSpec`: the pool implements the fair executor. |
| `reactor_orderly` | `OwnAnswersInOrder`, `ExactlyOnePlace` (a request read is in exactly one of pool, mailbox and output buffer until it is answered), `OutputArmed`, `TableInv`, `AllAnswered`. |
| `reactor_abrupt` | With pipelining, early closes and resets: `TableInv` still, and `ClosedIsReleased`. `OnlyAbruptEndsFatal`: the loop goes on to use a handler it has deleted only for a connection that was reset, or whose client left with an answer still to be sent. |
| `reactor_fd_reuse` | Violation of `AnswersGoHome` (below). |
| `reactor_lines` | Violation of `EveryLineAnswered` (below). |
| `mysql_pool` | `Conserved`, `ProducerAwake`, `GrowthInv` (the producer never spins at the limit, and the pool grows no further than one beyond its clients). |
| `redis_pool` | `Conserved`, `NoIdleBesideWaiter`. |
| `place_cache` | `ReaderUndisturbed`: a query's buffer is left alone until an update has completed since it read the index. `QuietMeansCurrent`: after the last update, the current buffer is exactly the last build. `EverythingReturns`: the opposite lock orders never block for good. `RefreshWithRoom`: one spare connection and no update is given up. |
| `refresh_lost` | Violation of `RefreshApplied` (below). |
| `hot_update` | `CurrentIsOneBuild`: the version switched to has every key of its build, wherever builders died, unless Redis refused something of that run or a later one; one run without refusals makes it whole again, and after two that end properly there is no other key. `StaleServerIsTold`, `ServerCatchesUp`: a server that is behind is about to be told, and in the end is not behind, unless it really missed the message. `AnswerIsCurrent`: an undisturbed query answers from the published build alone. `TablesNotBehind`: MySQL is switched before Redis, unless it refused a statement of the run. `QueryReturns`: the unbounded walk over the predecessors ends while keys come and go. |
| `dijkstra` | `ResultIsRight`: distances and predecessors against a reference that looks at all walks. `LoopInv`: an edge that still shortens a way has its tail in the queue; labels are backed; no sum passes the greatest `int`. `SettledStays`: stale entries never unsettle a node. |

Each module also has its type invariant checked. Each property of a passing run
has a mutant in `PROJECT.json`: a plausible bug in a modelled operation, defined
just before the operation it replaces, that makes TLC report the property.

## Bounds

* `event_loop`: three workers and the loop thread send five messages through a
  pipe of three bytes that is read two at a time. Four senders against three
  bytes make a write fail; three bytes against a buffer of two make the read loop
  iterate and end in a short read. `MaxSends` bounds the tickets.
* `thread_pool`: three workers, two callers, four tasks: more tasks than workers,
  two notifications outstanding at once, and a destructor that finds tasks
  queued, running and workers asleep. `MaxTasks` bounds the tickets.
* `reactor_orderly`: three clients on two descriptors, so that one is reused; two
  workers, so that answers overtake; a keep-alive connection that asks for a query
  and the page, a line client with two lines, a single query. `NumFds` bounds the
  descriptors; an accept waits for a free one, where the code would get the next
  number: more numbers mean less reuse.
* `reactor_abrupt`, `reactor_fd_reuse`: two clients and one descriptor, the
  harshest reuse. `reactor_lines`: two clients with two lines each.
* `mysql_pool`: four clients, two connections to begin with, limit six. The pool
  can grow to five, so both growth bounds could be exceeded by one. The real
  sizes, five client threads (four workers and the listener), 4 and 8, satisfy
  `MySqlPoolAssumption` as well, and the theorems hold for them.
* `redis_pool`: four clients, at most two contexts: two can wait while two give
  back and a newcomer overtakes.
* `place_cache`: two queries at a time, repeated for ever, and one, two or three
  connections: fewer than the queries, as many, and one to spare. Two updates
  (`MaxBuilds` is three) are what it takes to come back to the buffer a query
  reads, and to load a buffer that the first query then loads again.
  `refresh_lost`: two queries, two connections.
* `hot_update`: three runs (`MaxRuns`), one fault (`MaxFaults`: a death, a lost
  subscription, a failed read, a restart, or a run that is refused any number of
  commands by one of its databases), a start with two places and three
  trees: each place behind the other, and one of them out of reach. A run that dies or
  is refused something and two runs after it are what the second half of
  `CurrentIsOneBuild` needs, and three runs come back to the prefix of the first. Which
  trees a run may come to (`MCTrees`) is limited to what lets any two of the runs
  differ in the ways that show. The tables exist to begin with
  (`LiveTables`); when they do not, `RenameTables` does nothing and nobody notices.
  The theorems hold for any number of runs, faults, places and trees.
* `dijkstra`: every graph of four nodes with at most one edge of weight 0, 1 or 3
  between two of them, and one with parallel edges and loops, from every start;
  `INF` is 6, so that a way can be as long, and `MaxInt` 9, the least that
  `DijkstraAssumption` allows with these weights. Improving a label twice, ties,
  and entries overtaken in the queue all happen.

There is no state constraint and no symmetry reduction; every bound is a constant.

## Fairness

* `EventLoop!FairSpec`: weak fairness of the reactor thread and of a worker's
  write once it has pushed. A thread that is not blocked is scheduled; the loop
  blocks only in `epoll_wait`, which returns whenever some descriptor is ready.
  Nobody has to send.
* `ThreadPool!FairSpec`: weak fairness of each worker (tasks end: the pools' waits
  time out), of a caller inside `submit`, of the destructor's thread. No fairness
  for spurious wake-ups, for submitting or for letting go.
* `Reactor!FairSpec`: weak fairness of the acceptor, of the reactor thread and of
  the oldest task, and of orderly clients, which finish what they begin to send
  and close. `ClosedIsReleased` and `AllAnswered` need the server's fairness;
  `AllAnswered` is a statement about clients that go on.
* `QueryService!FairSpec`: weak fairness of each worker inside a query and of the
  listener. A wait for a connection ends in five seconds; `_updateMutex` is held
  for long only by the first load and by updates, of which there are finitely many.
  Nobody has to query, to edit or to publish. `Answer` is the whole of what follows the
  read of the version, the walk over the predecessors included; that the walk ends is
  taken for granted here and is `QueryReturns` in `HotUpdate`.
* `HotUpdate!FairSpec`: weak fairness of the builder's steps once a run has begun,
  of the listener with a message, and of a query once it is asked. Nobody has to
  start a run, subscribe or query, and no fault has to happen (a refused command is a
  step of the builder like the accepted one, and either will do).
* The pools are checked for safety only. Whether a given client is served is a
  matter of real time (the five-second limit), which the models do not measure.

## Proofs

All proofs are for every value of the constants that satisfies the named
assumption of the module.

* **`EventLoopProofs`** (`EventLoopAssumption`: the pipe and the read buffer have
  positive size). `TypeCorrect`; `WakeInvariant`; `NoMessageStranded`;
  `ImplementsMailbox`. `NoStrandedMessage` is not inductive: it speaks of
  `epoll_wait` only. `WakeInv` is: bytes in the pipe always have an event that will
  lead to their being read (`BytesHaveEvent`), a queued message always has a
  wake-up on its way or a swap still to come (`QueueHasWake`), and the local queue
  is empty outside the dispatch (`BatchShape`). It implies `NoStrandedMessage`. The
  refinement maps the mailbox's queue to `local \o msg_q`.
* **`ThreadPoolProofs`** (`ThreadPoolAssumption`: finitely many threads, at least one
  worker). `TypeCorrect`; `DrainedBeforeGone` (`LifetimeInv`, which is `OwnersInv /\
  DrainInv`, inductive together); `NoLostWakeup` (`SleepersInv`, by counting: each
  push adds a notifier, each notifier leaves a worker at the lock or there was no
  sleeper, each pop takes one worker and one task); `ImplementsExecutor`, where the
  bound on running tasks is the injection from tasks to workers.
* **`MySqlPoolProofs`** (`MySqlPoolAssumption`: fewer clients than `_maxSize`, a
  non-empty initial pool). `TypeCorrect`; `ConnectionsConserved`;
  `ProducerNeverSleepsOnEmpty`; and from conservation the counting lemma
  `EmptyMeansHeld` (an empty queue means at most as many connections as clients,
  by an injection from connections to holders), hence
  `GrowthIsBounded` (`GrowthInv`).
* **`RedisPoolProofs`** (`RedisPoolAssumption`: finitely many clients, any number of
  contexts). `TypeCorrect`; `ContextsConserved`; `NoLostWakeup`, by counting: each
  context given back sends a client to the lock or there was none waiting, each
  context taken takes one client away.
* **`ReactorProofs`** (`ReactorAssumption`: some descriptors and workers; any clients
  and scripts). Whatever clients do: `TableAgrees` (`TableInv`), inductive together
  with `Working` - the handler being registered is live, a live handler has a
  descriptor, and the handler the loop works on has events left, so that it is
  registered - and needing nothing of what is in the buffers; and `TypeCorrect`,
  where the work is in what the code cuts out of its buffers (`LinesStep`: between
  two line ends there is a line, and its answer has an identity); and
  `GracefulCloseIsSafe` (`OnlyAbruptEndsFatal`), from `EventsDue`: where
  EPOLLOUT is asked for or reported there is output left, and a hang-up is reported
  only of a connection that was reset.
  For orderly clients: `AnswersInOrder` (`OwnAnswersInOrder`), `InOnePlace`
  (`ExactlyOnePlace`), `OutputIsArmed`. None of these is inductive:
  each needs to know what is in every buffer on the way. `OrderlyInv` says it,
  connection by connection. Either the connection is *answering*: its current request
  is in exactly one of pool, mailbox and output buffer, nothing is unread, and the
  client has what it is owed for the requests before, and perhaps the first half of
  the answer. Or it is *reading*: what is unread (input buffer, then socket) is just
  the end of what was sent, and everything before has been answered in full. `Queues`
  says that no connection is in the pool or the mailbox twice, and that what is there
  bears the connection's present descriptor; `Loop` says which events the dispatch
  under way can still have.
  The two hypotheses are what the code relies on without saying so. `Orderly` (one
  request at a time, no close before the answers) is what the benchmark client does;
  without it TLC violates `OutputArmed`, the loop can come to use a deleted handler,
  and an answer goes to another client (`reactor_fd_reuse`) or is lost (`reactor_lines`).
  `LinesStayLines` (no GET after a line on the same connection): the code never leaves
  line mode, and would take such a GET for lines.
* **`QueryServiceProofs`** (`QueryServiceAssumption`: finitely many workers, of which
  the listener is none; nothing about how connections and queries compare).
  `TypeCorrect`, in three parts (plain types, holders, mutex). `RoomIsEnough`, from
  `HoldersInv`: the listener holds a connection only during an update, so that
  everything held leaves one over. `ReadersLeftAlone`, from `ReadersInv`: a query
  that no update has passed uses the current buffer, and updates write the other.
  `QuietIsCurrent`, from `QuietInv`, which says for each step of an update and of
  a first load what the version and the buffers already are while no further
  notification is on its way.
* **`HotUpdateProofs`** (`HotUpdateAssumption`: a build's predecessors, where they
  name a place, name one that has a predecessor). `TypeCorrect`, together with what a
  key can hold (`Sound`). The refusals are no hypothesis but part of the statements:
  what is proved says `Unspoilt(db)`, that the database in question refused nothing
  that counts from the published run on. `PublishedIsWhole`, from `OneBuild`: the keys
  a run has written so far (`Written`), those of the version switched to (`Switched`),
  and what else may be in the two prefixes, depending on `clean` (`Fresh`, `Pure`).
  `ServersAreTold`, from `Told`: a version read and not yet stored is the current one
  or is about to be overtaken by a message. `MySqlNotBehind`, from the order of tables
  and switch. `UndisturbedAnswers`, from `Undisturbed`: a query whose view is not
  stale reads the current prefix, and stands on a place to which the published build
  has a way (`Following`) whenever there is one to where it goes.
* **`DijkstraProofs`** (`DijkstraAssumption`: no negative weight and none within `INF`
  of the greatest `int`; any graph). `TypeCorrect`. From `OrderInv` (settled labels
  are not above what the queue holds) `SettledIsFinal` and `LoopInvariant`.
  `ResultIsCertified`: at the end no edge shortens a way and each
  label is exactly its predecessor's plus an edge. `ResultIsCorrect`
  (`ResultIsRight`): the labels are the reference's distances, and the way back adds
  up to them. No walk is shorter, by induction over its edges (`NoWalkIsShorter`).
  That each label is the length of a walk, and that the way back ends, is an
  induction over the predecessors, which with edges of weight 0 the labels do not
  order; `TreeInv` adds what does: there is a rank, the order in which nodes were
  settled, that falls from every settled node to its predecessor, and is below the
  number of nodes settled so far. (TLC agrees that `TreeInv` holds in every state of
  the instance `dijkstra`.)

The two results that rest on induction over data, what a client is owed for the first
`n` requests and the walks of up to `n` edges, use no induction rule, which the
provers cannot instantiate: `LeastNatural` (from the library's well-foundedness
of `<` on `Nat`) gives a least counterexample, and `UpTo` packs that up for a set
of numbers. That a recursive function exists at all is shown the same way
(`OwedEquation`, `Iterate`); this is why the models write recursion as functions.
Proving also sharpened the model in one place: `Reactor!Phase` was a `CASE` with
overlapping guards, of which TLC takes the first but TLA+ any; it is now the chain of
conditions in the body of `EventLoop::loop`.

Only model-checked: liveness, because the prover does not handle it
(`MailboxFairSpec` and `ExecutorFairSpec` beyond their safety part, `DtorReturns`,
`AllAnswered`, `ClosedIsReleased`, `EverythingReturns`, `ServerCatchesUp`,
`QueryReturns`). Every invariant and every action property of a passing run is the
subject of a theorem.

## Where code and documentation disagree

* **An answer can go to another client** (`reactor_fd_reuse`). `README.md:41` says
  that a result is written back to the client. The task captures the descriptor's
  number; if the client closes before the query ends and the kernel gives the
  number to a new connection of the same reactor, `handlePipeNotify` finds the
  new handler and sends it the answer.
* **An answered line can get no answer** (`reactor_lines`). `README.md:9` offers
  queries line by line, and `handleRead` submits every complete line. Each result
  replaces `out_buffer_`, so that of two that arrive before the first is written
  one is lost.
* **A notification can be dropped** (`refresh_lost`). `README.md:65` says that the
  listener refreshes when it is told, and the listener prints that it has. When
  MySQL grants no more connections than there are queries, the queries hold them
  all and wait for the mutex of the update, which waits for a connection, gives up
  after five seconds and is not tried again. With a spare connection it never
  happens (`RefreshWithRoom`).

More facts that the models make visible and no run is needed for:

* A query that is overtaken by an update and still runs during the next reads a
  buffer that is being cleared (`ReaderUndisturbed` is all that holds), and an update
  whose load fails makes an empty buffer current (`QuietMeansCurrent` has to except
  it).
* Between the deletion of the old keys and the refresh of a server, its queries answer
  that there is no distance, or that the path cannot be followed, although
  `offline_build.cpp:419` calls the switch atomic; that is why `AnswerIsCurrent`
  speaks of up-to-date servers only.
* A server that misses the message (not yet subscribed, or its connection lost, which
  is never renewed) keeps a version without keys until the next run: the case `missed`.
* The builder looks at no error reply. A refused switch counts as success, and the keys
  that are still current are deleted next (`offline_build.cpp:421-447`); a refused GET
  at the start counts as version 0, and if the version is 1 the run writes over the
  keys in use and deletes the other prefix; a refused SET leaves a key out. The version
  is then not whole until a run without refusals has switched, which is what
  `Unspoilt("redis")` excepts. Likewise any failure of the RENAME leaves MySQL behind
  (`offline_build.cpp:406`, `Unspoilt("mysql")`).
* The prefix a run writes is not cleared first. After a death or a refused EVAL, keys
  of the dead run answer for pairs that are out of reach, until two runs have ended
  properly; with two such runs the predecessors of two builds can form a circle that a
  query never leaves.
* Nothing in the repository creates `shortest_dist` and `shortest_prev`. Where they do
  not exist, the RENAME of `offline_build.cpp:406` fails each time, the run goes on and
  prints that MySQL is updated (`offline_build.cpp:417`), and the results
  `README.md:61` speaks of stay in the `*_new` tables. Nothing reads them:
  `ConnectionPool.cpp:327` announces a fall-back to MySQL and answers that the service
  is unavailable.

## Not modelled

* The data race of `updateHandler`'s search without `mtx_` (`EventLoop.cpp:94`): the
  model searches atomically.
* POST bodies that arrive after the header, which are then parsed as lines.
* The throw of `submit` on a stopped pool: whoever calls it shares the ownership of the
  pool, whose destructor therefore has not begun (`OwnersInv`).
* EAGAIN from the `send` of `handleWrite`, which changes nothing: it sends only when
  EPOLLOUT has been reported, and nobody else fills the socket.
* More than 1024 events in a batch, failures of `epoll_ctl`, EINTR.
* Start and exit. Start-up is sequential except that a reactor's thread indexes the
  vector which the constructor still grows (`ReactorPool.cpp:9`): undefined behaviour,
  with no promise left to check. `main_loop.loop()` returns only when `epoll_wait`
  itself fails, and nothing calls `stop()` on it, so that the process ends by a signal
  or `exit()`, and `~Reactors`, `CacheUpdateListener::stop` and the destructors of
  `main` are not reached otherwise. `PROJECT.json` lists both as hazards.
* Of the builder: two at once, and negative weights, over
  which `dijkstra` goes back and forth until the labels wrap. Of a query: one from a
  place to itself, which reads its distance key and no predecessor.
* Settings (`trim`, `loadKeyValueFile`, the `getConfig` helpers), URL decoding, the
  text of answers, the HTML page, Nginx, the benchmark's statistics: sequential
  string handling or external. Of the benchmark, its discipline of one request at
  a time is the orderly client of `Reactor`.

## What is left

1. `Reactor`: a theorem for pipelining clients. With `EarlyClose = FALSE` and no GET
   of an unknown path, `AnswersGoHome` holds in TLC, and so does that `up` stays TRUE,
   on the scripts of `MCReactor` with `Pipelining = TRUE`; with either of the two
   allowed they fail. The argument to prove is a ledger: no client is answered more
   lines than it has sent, so its connection is not closed while one of its messages
   is still in a queue.
2. `QueryService` and `HotUpdate` in one composition, the place cache against the keys:
   the version a query uses and the buffer it uses are read apart. Today each module
   shows its half.
