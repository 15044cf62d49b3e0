# Verification of the C++ TCP server

TLA+ models of the server library under `src/`, their TLC runs, and TLAPS
proofs. Every definition is translated from the code; `PROJECT.json` maps each
one to the lines it stands for.

## 1. The system

The repository is a library of server components (`src/src`, `src/include`)
with unit tests, integration tests and benchmarks. `src/src/main.cpp` returns 0;
the components are put together to a running server in
`src/tests/integration/` and in the end-to-end benchmark. The integration test
`graceful_shutdown_tests.cpp` is the composition that uses the most of the
components, shutdown included, and is the one modelled.

| component | state it keeps | operations | interacts with |
|---|---|---|---|
| `WorkerPool` | two bounded deques, each with a mutex and a condition variable; an atomic stop flag; the threads | constructor, `try_submit`, `try_pop_result`, `shutdown`, `worker_loop` | called by I/O threads; calls the dispatcher |
| `ShutdownCoordinator` | an atomic phase | `request_shutdown`, `try_advance_to_stopped_if_drained`, getters | requested by main or a signal thread, advanced by the I/O thread |
| frame codec | none | `append_encoded_frame`, `try_decode_frame` | works on the buffers of a `Connection` |
| `Connection` | socket, read buffer, write buffer, a state nobody but unit tests sets | append, consume, clear | owned by the slots of the server loop |
| non-blocking send and receive | none | `flush_write_nonblocking`, `receive_nonblocking` | kernel socket, `Connection` buffers |
| `SelectPoller` | map of handle to interest mask | `upsert`, `erase`, `wait` | called by the loop and the acceptor |
| `Acceptor`, `Listener` | the listening socket | bind, register, accept, unregister | poller, kernel backlog |
| server loop (`run_server`) | slots, "listener unregistered", the events of a batch | one turn: unregister, wait, handle events, try to advance | all of the above |
| `IdleTimeoutManager` | last activity per handle, idle time | register, unregister, touch, `poll_expired` | an event loop (no program uses it yet) |
| dispatcher (echo) | none | `dispatch` | pool or loop |
| configuration | a record of settings | defaults, file, environment, validation | none of the other parts yet: its limits are meant for pool, codec and idle manager |
| metrics, logging | an atomic flag and an atomic level, a mutex each, maps of counters and gauges; `stderr` | configure, add, set, get; log | callable from every thread |
| `Socket`, `NetworkSession` | a descriptor; nothing outside Windows | create, move, close, release, reset | everything that holds a socket |

What is hard here, and what makes each part correct:

* **WorkerPool.** Any number of threads, notifications sent outside the
  mutexes, a stop flag written without them, workers that block on a full
  result deque, four combinations of overflow policies. Correct: no task is
  lost, duplicated or left waiting while a worker sleeps; capacities hold; a
  shutdown ends and leaves nothing running.
* **ShutdownCoordinator.** Lock-free, a weak compare-and-swap that fails
  spuriously, repeated loads between which another thread moves on. Correct:
  the phase only moves forward; a request takes effect and returns; its
  assertions hold.
* **Server loop.** Partial sends and receives, batches of events that go stale
  while they are handled, handles reused by the kernel, several frames in one
  read, shutdown at any moment, a deadline. Correct: no byte lost, blocked
  replies are watched for, no received frame left unanswered, events reach
  their own connection, draining ends only when everybody accepted was
  answered, and does end, and past the deadline the I/O thread leaves the loop
  although clients stall.
* **Socket ownership.** Six system calls between an address and a registered
  connection, each of which may fail; descriptors that other code gets the
  moment they are closed; slots that move to other places. Correct: an open
  descriptor has exactly one owner, and the poller watches only the server's.
* **Configuration.** Sources that override each other, three widths of integer,
  errors that must name their line. Correct: the last source wins, the first
  error is the one reported, and what is valid can be used.
* **Metrics and logging.** Several threads, and a setting read before the mutex
  is taken. Correct: no update is lost, no two lines are mixed.
* **Frame codec.** Chunking by the network, the width of the length field, the
  limits of both sides. Correct: what is decoded is what was sent, in order.
* **IdleTimeoutManager.** Reused handles, exact boundary of the idle time.
  Correct: only idle connections are evicted, and all of them in time.

`PROJECT.json` lists the hazards at the lines where they bite, with the
properties that cover them.

## 2. Modules

| module | models | correspondence |
|---|---|---|
| `WorkerPool` | `runtime/worker_pool.{hpp,cpp}` | one action per critical section and one per notification; `worker`, `submitter`, `popper`, `stopper` are the places of the threads in `worker_loop`, `try_submit`, `try_pop_result`, `shutdown` |
| `PoolContract` | what the pool's header promises | a status per task and the order of the results not yet taken, no threads |
| `Lifecycle` | what `ShutdownCoordinator` promises | two actions on `phase` |
| `ShutdownCoordinator` | `core/lifecycle.{hpp,cpp}` | one action per atomic access, the assertions included |
| `GracefulServer` | `run_server`, its clients and main, with `SelectPoller`, `Acceptor`, `Connection`, send and receive | one action per system call; `io` is the place of the I/O thread; the phase changes by the actions of `Lifecycle` |
| `FrameStream` | `protocol/frame_{encoder,decoder}.cpp` over a stream | encoder and decoder as operators on byte sequences, sender and receiver as actions |
| `IdleTimeoutManager` | `net/idle_timeout_manager.{hpp,cpp}` | one action per operation, with a clock |
| `Sockets` | `net/socket.cpp`, and the life of every socket in `net/acceptor.cpp` and `run_server` | one action per operation of `Socket` and per system call of `bind_and_listen` and `accept_and_register`, each with its failure; `at` is the place of the server thread |
| `Config` | `config/config_loader.cpp`, `config/config_validator.cpp` | one action per line of the file, per environment key and for the validation; the parsers as operators |
| `Infra` | `infra/metrics.cpp`, `infra/logging.cpp` | one action per call up to its mutex, and one per access another thread could see half done |
| `MCWorkerPool`, `MCFrameStream`, `MCSockets`, `MCConfig`, `MCInfra` | instances for TLC | symmetry sets, payloads, files and environments, fields |
| `WorkerPoolProofs`, `ShutdownCoordinatorProofs`, `GracefulServerProofs`, `FrameStreamProofs`, `IdleTimeoutManagerProofs`, `ConfigProofs`, `SocketsProofs`, `InfraProofs` | theorems | each extends the module it is named after |

How they compose: `ShutdownCoordinator` implements `Lifecycle`, and
`GracefulServer` uses `Lifecycle` for its phase, so that what the server
relies on is what the lock-free code is shown to do. `WorkerPool` implements
`PoolContract`. `Sockets` looks at the same server loop as `GracefulServer`
from the side of its descriptors: it leaves out the bytes and lets every system
call fail.

Operators commented "Fault:" are deliberately wrong variants of the definition
below them, one plausible slip each. They are no part of any specification;
substituting one for its original makes TLC report the property it is listed
with in `PROJECT.json`, which shows that the property can fail.

### Abstractions

* **WorkerPool.** A task is its correlation id, numbered in order of
  acceptance. Payload and outcome of the dispatcher have no influence on the
  pool: an error and a caught exception become a result like any other. The two
  overflow policies are the variable `options`: any pair at first, never
  changed. A call
  that returns false changes nothing and is a stuttering step. A critical
  section is one step, with one exception: a worker that found its wait
  predicate false and is not asleep yet is a state of its own, because
  `shutdown` writes `stop_` and notifies without the mutex. Condition variables
  may wake spuriously.
* **ShutdownCoordinator.** The arguments of
  `try_advance_to_stopped_if_drained` are any. A failed weak compare-and-swap
  needs no reason. Memory is sequentially consistent: there is a single atomic,
  so its modification order is all there is.
* **GracefulServer.** Bytes are counted, not told apart (`FrameStream` tells
  them apart): a frame is `FrameLen` units, the kernel buffers `SockBuf` units
  in each direction. What the I/O thread does between two system calls touches
  only its own state and belongs to the step before. `select()` reports what is
  ready, in any order, and any selection when the array is too small: the
  iteration order of an `unordered_map`. The kernel gives a new socket the
  lowest free handle. Errors other than would-block and end of stream run into
  `assert(false)` in this caller and are left out. Assertions are enabled, as
  the test needs them to be: a thread that the deadline takes out of the loop
  before the phase is Stopped fails the assertion after it
  (`graceful_shutdown_tests.cpp:254`, `StoppedAssertFails`) and never closes its
  slots; only a stopped server reaches `Cleanup`. The clients are threads of the
  same process and go down with it, or with a client whose own assertion failed
  (`Alive`). The clients of the test wait for each reply; those in `Pipelining` send ahead, which the server's decode
  loop is written for and no test does.
* **FrameStream.** Bytes are digits below `Base` (256) and the length has
  `HeaderLen` of them (4); the code's masks, shifts and narrowing are kept, so
  a length wraps where the code's would. Powers of the base are the recursive
  function `ByteShift`, which the prover can unfold. `DecodeOversized` gives the
  connection up, as the decoder's header advises (`frame_decoder.hpp:28-34`);
  the server of the integration test asserts instead that it does not happen
  (`graceful_shutdown_tests.cpp:138`).
* **IdleTimeoutManager.** Discrete time; the caller does what the header
  asks: it closes what `poll_expired` returned before it does anything else, and
  polls at least every `PollPeriod`.
* **Sockets.** The kernel is the set of open descriptors; a new socket may get
  any free one. `close()` gives its descriptor up even when it reports an error,
  as on Linux. Other code of the process, with `Socket` variables and with bare
  descriptors, runs in between.
* **Config.** A text is a word and whether blanks surround it, because lines are
  trimmed and environment values are not. The limits of the integer types keep
  their order but are small. The properties do not use the parsers: `Meaning`
  says on its own what number a text stands for and which type of the
  configuration it must fit.
* **Infra.** One counter and one gauge: different names share only the mutex. A
  line is the pieces `log()` streams to `stderr`, a field without a key being
  skipped as it is reached; their quoting is left out, and so is the text
  inside a piece. Whether lines of two threads are mixed is covered, whether one
  message looks like two lines (a newline in it is not escaped) is not.

## 3. Runs

Passing runs:

| run | instance | shows |
|---|---|---|
| `pool` | 2 workers, 2 submitters, a popper, 2 stoppers, 5 tasks, capacities 3 and 2, all four pairs of overflow policies | types; capacities; start in order; each task answered once; nothing lost while both deques block; a result overtakes fewer tasks than there are workers; no lost wake-up of a task or of room; only a worker in the window misses a shutdown; nothing runs after shutdown; refinement of `PoolContract`: an entry is lost only as the oldest of a full lossy deque or by a stop, and results are delivered oldest first |
| `pool_live` | 2 workers, a submitter, a popper, a stopper, 3 tasks, capacities 1, all policies | unless the pool is stopped, every accepted task is answered when both deques block; `shutdown()` returns unless its notification fell into the window |
| `lifecycle` | 2 requesters, 2 advancers | a returned request has taken effect, an assertion of the advance fails only for a thread beaten by a peer, refinement of `Lifecycle`, requests return |
| `server` | a client that waits for its replies and one that sends ahead, 2 frames of 2 units each, socket buffers of 3, batches of 2 | blocked replies are watched for and idle connections are not; no unit lost or invented; no complete frame is left when the thread polls; events reach their own connection; Stopped means drained, answered and counted; draining ends if clients go on; past the deadline the thread leaves `run_server` even if they stall, by the assertion after the loop unless it had stopped |
| `frame_stream` | 4 messages of 0 to 4 bytes, a field of 2 binary digits, limits 2 and 9 on either side | messages arrive intact and in order, boundaries are kept, nothing waits for ever, the receiver's limit is exact: what fits is never refused and one byte beyond it is never accepted |
| `idle_timeout` | 2 handles, idle times 0 and 2, polls every 2 ticks, 6 ticks | nobody overstays, only the idle are evicted, the loop never gets stuck |
| `config` | files of up to 7 lines, up to 2 environment settings, numbers on both sides of every limit | each value is what its latest source means, whatever the width it is parsed with; the first error is reported, with its line; what validates is usable by the components it configures |
| `sockets` | 5 descriptors, 2 `Socket` variables, 2 addresses, every call failing at will | every open descriptor has exactly one owner, on error paths too; the server polls its own sockets only |
| `infra` | 3 threads, 2 calls each, a counter that wraps at 4 | the counter is the sum of the calls that returned; lines on `stderr` are not mixed |

Runs that show a disagreement between the code and what its comments,
documents or tests say:

| run | property | what happens |
|---|---|---|
| `pool_lost_wakeup` | `ShutdownJoins` ("Stops workers and joins threads", `worker_pool.hpp:84`) | a worker has evaluated its predicate to false, `shutdown` sets `stop_` and notifies, the worker goes to sleep and is never joined: the flag is set without the mutex |
| `lifecycle_request_assert` | `DrainingAfterRequest` (`INVARIANTS.md:7`) | the I/O thread of a drained server stops it before the requester evaluates its assertion |
| `server_backlog` | `ConnectedAreServed` (`graceful_shutdown_tests.cpp:329`) | a client is connected but still in the backlog when draining begins, and is never accepted |

The lifecycle assertion concerns Debug builds only; the phase itself stays
correct, as the run `lifecycle` and theorem `LifecycleImplemented` show. The
assertion of `try_advance_to_stopped_if_drained` at `lifecycle.cpp:46` can fail
as well, when two threads advance a drained server at once, as
`src/tests/unit/thread_safety_stress_tests.cpp:136` does: one stops the server
between the load and the assertion of the other. `AdvanceAsserts` states that
this is the only way it can fail, and theorem `SoleAdvancerAsserts` that it never
does in a server that advances from one thread, as `run_server`. The history
variable `stoppedBy` records the thread that stopped the server.

One more departure is part of the pool's contract as modelled: a worker that
has evicted the oldest result to make room may see `stop_` and return without
pushing its own (`worker_pool.cpp:130`), so a stop can cost two results. It is
the second disjunct of `PoolContract!Abandon`.

### Why the bounds are enough

* Pool: with two workers every pair of places in `worker_loop` occurs, with two
  submitters a notification can be owed twice, with two stoppers one call
  returns early. Two results and two tasks in the workers' hands leave a fifth
  task pending, so workers block, or evict, while there is more to do; three
  tasks fill the task deque. With two results the oldest is not the newest, and
  evicting the wrong one is seen. The liveness run has smaller bounds, since
  liveness needs the whole state graph, without symmetry.
* Lifecycle: two of each role; the assertion of one is raced by another of the
  same and of the other role.
* Server: socket buffers of three units hold one frame and a half, so frames
  are split and two frames arrive in one read; the echo of a client that does
  not read blocks; a second client gets the handle of the first when that one
  has closed; a batch of two is exceeded by two connections and the listener.
* Frames: with a field of two binary digits every length, the limit of the
  field, the receiver's limit and one beyond each are all sent; chunks cut headers and payloads
  everywhere.
* Idle: six ticks are an idle time, a poll period and a reuse of a handle after
  eviction.
* Sockets: a listener, two or more slots, so that one moves into the place of
  another, a socket just accepted, and descriptors left for other code.
* Config: any two lines after a base that lacks nothing, something or
  everything give repetitions, errors before and after a good value, and every
  missing key that one line can add; one environment value overrides any key,
  and a second one follows or precedes it. Message limits lie below the maximum,
  at it, above it, beyond 32 bits and beyond 64.
* Infra: with three threads one can be between its check of the setting and the
  mutex, one in the critical section, and one change the setting.

`CHECK_DEADLOCK FALSE` where the system really stops: after a shutdown, when
all bounded work is done, or when a connection was given up. `idle_timeout` and
`sockets` check deadlock.

### Fairness

* `WorkerPool!ThreadFairness`: a started call or worker is scheduled again,
  handlers return, and a thread does not starve at a mutex that others keep
  releasing. The last is strong fairness of a worker's steps: `std::mutex` does
  not promise it, operating systems provide it in practice. Nobody has to
  submit, pop or shut down, and no spurious wake-up is promised.
  `PollingFairness` (the I/O thread polls for results in every turn) is assumed
  only by `EventuallyAnswered`; a shutdown must not depend on it.
* `ShutdownCoordinator!FairSpec`: a started call goes on, and the weak
  compare-and-swap does not fail spuriously for ever (strong fairness of its
  success).
* `GracefulServer!FairSpec`: the I/O thread goes on (its waits time out), and
  nothing else. `DrainEnds` supposes `ClientFairness` besides: a connected client
  sends, reads and closes, as `client_session` does. `DeadlineEndsServer` supposes
  instead that the clock, which the thread reads again and again at the top of
  its loop, is past the deadline at some reading: strong fairness of
  `DeadlinePasses`. That it is read again and again holds because a client's
  traffic is bounded by `Frames`: one that sends without end can keep the thread
  in its read loop (`graceful_shutdown_tests.cpp:117`), and no deadline helps
  then. Connecting and the shutdown request need not happen. The
  choice among ready sockets is not assumed fair.

## 4. Proofs

TLAPS checks the following for every number of threads, clients, handles and
messages, all capacities, policies, limits and times. Every invariant that a run
checks is stated by a theorem, and so are both refinements. The proofs use the
named assumptions of the modules and nothing else:

* `PoolAssumption`: what the pool's constructor enforces; finitely many workers.
* `ServerAssumption`: finitely many clients; frames, buffers and batches are not
  empty.
* `FrameAssumption`: a base of at least two, a header of at least one byte, and
  payloads made of bytes.
* `IdleAssumption`: times are numbers and the poll period is positive.
* `ConfigAssumption` and `InputAssumption`: the limits of the types are in their
  order; files are sequences of lines, numerals stand for naturals.
* `SocketsAssumption`: the invalid handle is not a descriptor.
* `InfraAssumption`: counters have a width, levels and deltas are numbers.

In each module an inductive invariant comes first. Its preservation has one
lemma per action, and under it one step per conjunct the action can disturb;
the theorems about the run's properties follow from it.

* **`WorkerPoolProofs`.** `PoolInv` is inductive (`PoolInvariant`). From it:
  `TypeCorrect`, `CapacityRespected`, `NoTaskWakeupMissed`,
  `NoResultWakeupMissed`, `OnlyTheWindowIsMissed`, `ShutdownIsQuiet`.
  The properties are not inductive by themselves. `NoMissedTaskWakeup` needs
  that a worker in the window holds the mutex of an empty deque
  (`WindowIsClosed`), or else a submission could slip in before it sleeps.
  `NoMissedResultWakeup` needs that only the blocking policy ever waits for
  room. `ShutdownIsQuiet` needs that some call that set `stop_` is at work
  until all workers are done (`StopHasOwner`), and that a worker has a task in
  hand exactly between taking and pushing it (`HandMatchesPlace`). The policies
  are a variable that `StopIsFinal` shows constant, so each theorem covers all
  four pairs.

  `TasksStartInOrder`, `TasksAreAnsweredOnce`, `NoTaskIsLost` and
  `OvertakingIsBounded` are about ids. Only five actions move one
  (`OthersMoveNothing`). `OrderInv` states the places of ids element by element
  and adds what the properties lack: all ids in the pool were accepted (or else
  the next id might not be the largest). `AllLocated` is `NothingLost` id by id;
  that a stop is final (`StopIsFinal`) makes its premise stable.
  `ResultsWerePassed` replaces the counting of `BoundedOvertaking` by a witness:
  the worker that last pushed or took is free or has a younger task than every
  completed one.

  `ContractImplemented` is the refinement of `PoolContract`. The status of a
  task in the contract is its place in the pool (`StatusIsPlace`), which is a
  function of the id because places are disjoint (`PlacesDisjoint`, from
  `OrderInv`), and its sequence of available results is the result deque. The
  five actions that move an id are steps of the contract, one lemma each; the
  result delivered or evicted is the head of that sequence, and the task evicted
  is the oldest because the task deque is in order. Every other action is a stop or
  a stuttering step (`RestImplements`).
* **`ShutdownCoordinatorProofs`.** `AdvanceAssertsUnlessBeaten` and its case for
  one advancing thread, `SoleAdvancerAsserts`; `RequestsTakeEffect`, and the
  refinement `LifecycleImplemented`. The invariant says that an advancer past its
  load has seen Draining, which only another advancer's swap can have ended.
* **`GracefulServerProofs`.** `ServerInvariant`, and from it `ServerTypes`,
  `WritesAreWatched`, `BytesAreKept`, `FramesAreAnswered`, `EventsAreDelivered`
  and `StopsDrained`. `EventsReachTheirConnection` rests on `HandlesDiffer` and
  on `BatchIsCurrent`: the events still to be handled are of sockets that are
  still open, because a turn closes only the socket of the event in hand. That
  the kernel has a lowest free handle for the next connection is a pigeonhole
  argument (`HandleIsFree`). `NoFrameStranded` and `PendingWritesWatched` hold
  only between turns: `FramesTaken` and `WatchMatches` say which connection may
  be excepted while it is read, decoded or flushed. `StopsDrained` needs most:
  a connection leaves only when its client was answered (`LeavesAnswered`; the
  cleanup after the loop finds none, because only a stopped server gets there),
  and completions are counted per flush, not per frame. `RepliesCounted` says that
  some numbers of decoded and counted frames exist for every client that agree
  with its buffers and add up to `completions`; the sum over clients is the size
  of the set `Tally`. A client that waits for its replies is at most one frame
  ahead of them (`SendsInTurn`), so each of its frames is counted separately.
* **`FrameStreamProofs`.** `FrameInvariant`, and from it `FrameTypes`,
  `MessagesAreIntact`, `BoundariesAreKept`, `FramesDoNotWait` and
  `LimitIsKept`. The invariant says that unless the connection was given
  up, the bytes received and in flight can be cut into frames, one per message
  sent and not yet decoded (`Framed`, with `at` the places of the cuts). Sending
  adds a cut at the end, receiving moves no byte, decoding removes the first
  cut. That the decoder reads back the length the encoder wrote
  (`ReadWhatWasPushed`) is where `LengthLimit` is needed: the length must fit in
  the header. The recursive functions (`ByteShift`, the length read digit by
  digit, `Encoding`) are shown to have the values claimed by taking the smallest
  argument for which they have not; the library's induction theorems are not
  needed.
* **`IdleTimeoutManagerProofs`.** `IdleTimeIsBounded` and `ActiveIsKept`, from
  `IdleInv`: the registry is exactly the open connections that have not just
  expired, with their true last activity, and at the last poll none of them was
  idle.
* **`ConfigProofs`.** `ConfigInvariant`, and from it `SourcesInOrder`,
  `ErrorsAreFirst` and `ValidConfigsAreUsable`. `CleanSoFar` says that all the
  input before the present place was accepted, and `ErrorIsTrue` that an error
  names the line it arose at, after good lines only, or no line when the file
  could not be opened or the environment is at fault. `ParseIsMeaning` shows that
  the parsers read a number the way the properties do. What is valid is usable
  because loading has checked that each number fits its type and validation has
  checked the rest.
* **`SocketsProofs`.** `DescriptorsHaveOneOwner` and `ServerWatchesItsOwn`, from
  `SocketsInv`: an open descriptor is somewhere (`NoneLeaked`), what is somewhere
  is open (`NoneDangling`), no two places hold the same one (`NoneShared`), and
  while serving, the poller watches every slot and besides at most the listener
  (`PollerMatches`). `PlaceMatches` says which variables hold a
  descriptor at which place of the server thread, without which an error path
  could leak. Moving the last slot into the place of a removed one is the lemma
  `MovedBackSlots`.
* **`InfraProofs`.** `CountersAreExact` and `LogLinesAreIntact`, from
  `InfraInv`: a thread between its load and its store holds the mutex, so what
  it has loaded is still the counter (`LoadIsCurrent`); what stands on
  `stderr` was written by the thread that holds the mutex and has one beginning
  (`LineHasOwner`). Addition modulo the width is shown to be independent of
  where the remainders are taken (`ModuloSum`).

Only model-checked: liveness. `EventuallyAnswered`, `JoinsUnlessMissed`,
`RequestReturns`, `DrainEnds` and `DeadlineEndsServer` rest on fairness, whose meaning
is in terms of ENABLED, and both are beyond the prover.

## 5. Not modelled, and why

* The format of a log line (quoting, escaping, newlines in a message, how a level is written): output
  only. `main.cpp` and the empty translation units: nothing.
* `NetworkSession`: starts the network stack on Windows and is empty elsewhere.
* How a line is split at `=` and which ones are comments: a line of `Config` is already one of blank,
  without a key, or a key with a text.
* The echo server of the other integration test and of the benchmark: the same
  loop without a shutdown.
* `select()` errors, the error mask and the limit of `FD_SETSIZE`: the loop
  modelled asserts that they do not happen.
* How the write buffer of a client that sends and never reads grows: `Frames`
  bounds what a client sends; nothing in the code bounds it.
* Tests, benchmarks and the fuzz target, except the server and the clients of
  the integration test, which are modelled.

## 6. Plan

Built: the modules above, core first (pool, lifecycle, server loop, codec, idle
timeout), then configuration, socket ownership, metrics and logging; proved: all
their invariants and both refinements. Next:

1. Bring the safety part of the liveness arguments to the prover: for each
   property, the step invariant on which its ranking argument rests.
2. The poller with a fixed iteration order (who starves when more sockets are
   ready than the batch holds), and the error paths of send and receive as a
   caller that does not assert would handle them.
