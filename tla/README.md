# siren in TLA+

siren is a reactor-style network library in C++ (one event loop per thread,
non-blocking sockets, epoll). This directory holds TLA+ models of its core, the
TLC configurations that check them, and TLAPS proofs. Source paths below are
relative to the repository (`src/net/EventLoop.cpp` and so on). `PROJECT.json`
maps every definition to the lines it models.

To check: `tlc -config <cfg> <module>` for each run of the table below, and
`tlapm <module>Proofs.tla` for the proofs.

## Inventory

| Component | State | Operations | What makes it correct |
|---|---|---|---|
| `EventLoop` | `quit_`, `callingPendingFunctors_`, `activeChannels_`, `pendingFunctors_`, the wakeup eventfd | `loop`, `runInLoop`, `queueInLoop`, `quit`, `wakeup`, `doPendingFunctors` | functors run once, in order, on the loop's thread; no lost wakeup; `quit()` ends the loop |
| `TimerQueue`, `Timer` | `timers_`, one timerfd, expiration and interval of each timer | `runAt/After/Every`, `addTimer`, `handleRead`, `reset` (`cancel` is empty) | the timerfd is armed for the earliest timer; timers run when due, not early; none is lost or used after its deletion |
| `TcpConnection` | `state_`, `reading_`, `outputBuffer_`, `inputBuffer_`, its channel and socket | `send`, `shutdown`, `forceClose(WithDelay)`, `start/stopRead`, `connectEstablished/Destroyed`, `handleRead/Write/Close` | the byte stream keeps its order; output is written and shutdown waits for it; a connection is closed once and then destroyed |
| `Channel`, `EPollPoller` | `events_`, `index_`, `channels_`, the kernel's interest list | `enable*/disable*`, `update`, `remove`, `poll`, `handleEvent` | `index_`, `channels_` and epoll agree; no event reaches a removed channel |
| `TcpServer`, `Acceptor` | `connections_`, the listening socket, the idle descriptor | `start`, `newConnection`, `removeConnection(InLoop)`, destructor; `listen`, `handleRead` | every accepted connection is established once and removed once |
| `Connector`, `TcpClient` | `connect_`, `state_`, `retryDelayMs_`, `connection_` | `start`, `stop`, `restart`, `retry`, `handleWrite/Error`; `connect`, `disconnect`, `stop` | at most one attempt at a time; stop really stops; back-off is bounded |
| `EventLoopThread(Pool)` | `loop_`, `exiting_`, a mutex and condition; `loops_`, `next_` | `startLoop`, `threadFunc`, destructor; `getNextLoop`, `getLoopForHash` | the loop is handed over before it is used; the thread is joined |
| `Buffer` | `readerIndex_`, `writerIndex_`, the vector | `append`, `retrieve`, `prepend`, `makeSpace`, `readFd` | a queue of bytes, whatever is moved or grown |
| `BlockingQueue`, `CountDownLatch` | a deque / a count, mutex, condition | `put`, `take`, `drain`; `wait`, `countDown` | no lost notification |
| `PollPoller`, `Socket`, `SocketsOps`, `InetAddress`, `Endian`, `Logger`, `Singleton` | none of their own | system-call wrappers, formatting, stubs | not modelled |

Interaction: everything of a connection runs on its I/O loop. Other threads reach
it by queueing functors on that loop (`runInLoop`/`queueInLoop`), which is why the
queue of `EventLoop` carries the whole library. The poller calls channels back,
channels call connections back, connections call the user and, on close, the
server, which lives on another loop and queues `connectDestroyed()` back on the
I/O loop. Timers are functors called from a timerfd's channel.

The hard parts are: the interleaving of threads with the loop (the queue is
swapped while others push, wakeups are written and cleared, `state_` is tested on
one thread and written on another); the order in which events, functors and timers
of one round are served; partial writes; the minimal and truncated delays of the
timerfd; and teardown over two loops.

## Modules

| Module | Models | Role |
|---|---|---|
| `SerialExecutor` | the promise of `EventLoop` | abstract: functors are queued and run one at a time, in order, until broken by a data race |
| `EventLoop` | `EventLoop.cpp` | the loop and any number of other threads |
| `TimerQueue` | `TimerQueue.cpp`, `Timer.h/.cpp`, `EventLoop::runAt/After/Every` | the timers of one loop |
| `Channel` | `Channel.cpp`, `EPollPoller.cpp` for one channel | operators on `events_`, `index_` |
| `Poller` | `EPollPoller.cpp`, `Channel.cpp`, `EventLoop::removeChannel` | all channels of a loop, the kernel's interest list |
| `ByteQueue` | the promise of `Buffer` | abstract: queues of bytes |
| `Buffer` | `Buffer.h`, `Buffer.cpp` | several buffers, their vectors and indices |
| `Connector` | `Connector.cpp` | the connector's state, and its functions as operators |
| `TcpClient` | `TcpClient.cpp` | a client with its `Connector` on a loop, its user on the loop and on a thread |
| `Acceptor` | `Acceptor.cpp` | the listening socket, the idle descriptor, the process's descriptors |
| `EventLoopThreadPool` | `EventLoopThreadPool.cpp`, `EventLoopThread.cpp` | the pool, the threads of its loops |
| `TcpServer` | `TcpServer.cpp`, composing `Acceptor` and `EventLoopThreadPool` | a server with its connections on several loops |
| `TcpConnection` | `TcpConnection.cpp`, with the parts of `TcpServer.cpp`, `Channel` and the loop it meets | one connection, from `newConnection()` to the removal of its channel |
| `MC*` | | the modules the runs name |
| `*Proofs` | | theorems and proofs |
| `QueueLemmas` | | how often an entry is in a queue: lemmas for `TcpClientProofs` and `TcpServerProofs` |

`TcpConnection`, `TcpClient` and `TcpServer` rely on the promise of `SerialExecutor`:
they have a first-in first-out functor queue and rounds that take what is queued at
their start.
`EventLoop` is shown to keep that promise up to a data race in `queueInLoop()`.

### EventLoop

`loopPc` is where the loop thread is (`idle` outside `loop()`, then `test`, `poll`,
`handle`, `event`, `swap`, `run`, `functor`); the actions are the steps between
two accesses to shared state. User code may call `queueInLoop`, `runInLoop` and
`quit` wherever it runs (`InUserCode`). Another thread's `queueInLoop()` is three
steps: the push begins, ends (`PushBack`), and the eventfd is written
(`WakeupLoop`); its `quit()` writes `quit_` and then the eventfd.

The lock of `queueInLoop()` (`EventLoop.cpp:163`) is
`std::unique_lock<std::mutex>(mutex_);`, a declaration of an empty lock. The push
is therefore a window that other accesses to the vector may overlap; an overlap
sets `ub`, and its outcome is chosen among: appended, lost, the vector as it was
seen when the push began, the process crashes. Properties that need the lock are
stated for `~ub`; `ThreadSafeQueueing` is the same claim without the exemption.

Reads and writes of `quit_` are atomic in the model, as an aligned `bool` is on the
platforms epoll runs on. `assertInLoopThread()` only logs, and is not modelled.

### TimerQueue

Time is a clock of ticks finer than a microsecond, so that `howMuchTimeFromNow()`
really cuts a delay down and the timerfd really fires early; the system clock is
assumed not to be set. `pc` follows `handleRead()`: reported by epoll, calling the
expired timers, in a callback. `status` follows each `Timer` object, from `new`
through `adding` (handed over by another thread) and `live` to `deleted`, or
`dropped` when the `std::set` refuses it because another timer has the same
expiration (`TimerCmp` compares expirations only). Callbacks, and channels served
before the timerfd's in the same round, may add timers. `readTime`, a local of
`handleRead()`, is put back to 0 at its end so that it adds no states.

### TcpConnection

The variables of the connection and of its channel have the names of the source.
`functors` is the queue of the I/O loop, `batch` how many of them belong to the
round `doPendingFunctors()` is running, `pc` where the loop is. A call on the loop's
thread takes effect at once where the code calls `runInLoop()`. A call on another
thread is up to three steps (`CheckState`, `SetState`, `QueueCall`) because
`state_` is tested, written, and the functor queued, without a lock in between.
`LoopCalls` and `ThreadCalls` say which calls each may make, so that runs can ask
what holds under which use.

Units of output are numbered, and `accepted`, `wire` and `outputBuffer_` are
sequences of them; a write takes any prefix. Input is counted, since the code does
not look at it. The peer sends, closes or resets at any moment. `Reportable` is
what epoll may report: input, room for output (at the peer's leisure), hang-up.
Callbacks that the user may leave empty (`writeCompleteCallback_`,
`highWaterMarkCallback_`) are taken to be set.

Assertions are live in the library's build; one that fails ends the process, so it
sets `failed` and nothing follows. `failed = "serverGone"` is
`removeConnectionInLoop()` reaching a destroyed `TcpServer`.

The connection callback of a close finds the connection down: `send()`, `shutdown()` and
the forced closes do nothing there, but `startRead()` and `stopRead()` still change the
channel (`stopRead()` registers it again), and `Lowered` is what they may leave.

Simplifications: a write on a reset connection takes the `EPIPE` branch (`fault`)
although the library does not ignore `SIGPIPE`; a `TcpServer` whose loop is the I/O loop runs `removeConnectionInLoop()` at
once, which is one of the interleavings of the two-loop case; object lifetimes
(raw `this` and raw data bound by `send()` on another thread) are not modelled.

### Poller

A channel is a place in memory that is made on a descriptor, changed, removed and
destroyed, after which its place and its descriptor's number are used again; the
interest list and `activeChannels_` hold its address. What runs on the loop's thread
(callbacks between `HandleEvent` and `CallbackReturns`, and functors) may do any of
that to any channel, in any order; an order that meets an assertion of
`EventLoop::removeChannel`, `EPollPoller` or `~Channel` sets `failed` and ends the
process. `EpollCtl` fails as the kernel does, and the failure is only logged.
`epoll_wait()` reports as many events as the list has room for, in any choice, or none
(time-out, signal); the list starts with `kInitEventListSize` places and doubles when
it was full. A channel's descriptor is closed or handed on only after `remove()`, as
every class of the library does; nobody destroys a channel from its own callback (the
library queues `resetChannel` and `connectDestroyed` for that purpose).

### Buffer

The functions are operators on a record of the vector, its size and the two indices;
the actions are the calls that users make. Bytes are numbered as they are handed in,
so that a lost, repeated or overtaken one is seen. What a function asserts of its
argument guards the action; what it asserts of its own work (`makeSpace()` compacts
only when there is something to gain, `ensureWritableBytes()` has made the room) is
the property `BufferAssertionsHold`. `readFd()` is what `readv()` does with two vectors.
`retrieve(int)` is called with lengths of type `size_t`: `ToInt` is the conversion, which
wraps, so that a length beyond `IntMax` arrives negative and empties the buffer, or
arrives small and drops too little. `ByteQueue` is exact for lengths up to `IntMax` and
leaves open which prefix a longer retrieval drops. In the run `IntMax` is 1, so that such
lengths occur.

### Connector and TcpClient

`Connector` has one operator per function, with the queue or the values an earlier
part of the same call has left as parameters. `TcpClient` puts them on a loop whose
round is `poll`, `events` (the connector's channel, expired retry timers, the end of
the connection), then the functors queued by then. A call of the user is the sequence
of its accesses to shared state (`Steps`), taken one at a time, so that on the thread
it interleaves with the loop: `connect_` of the client, `connect_` of the connector,
the queued functor. `removeConnection()` is two steps, since it tests `connect_` and
then calls `restart()`, which sets the connector's again. An attempt may succeed,
fail and be retried, or fail for good (`gaveUp`, the `default` of the switch on
`errno`). The destructor looks at `connection_` and `unique()` once and then acts. The
`Connector` is held by the client, by each retry timer and by the timer of one second
that a destructor without a connection sets (`linger`); `Freed` says that none of them is
left, whenever that comes to be. `~Connector()` asserts that the channel has been reset,
and `Running` is false once that or another assertion has failed. The model reaches it
with all calls on the loop: a client destroyed after its connection is made and before
the queued `resetChannel()` has run.

Simplifications: a `stop()` does not overlap a `connect()` (the outcome of two calls
that race each other is the caller's affair); `connect()` is called again only once
`stop()` has returned or the connection has closed; a client is not called once its
destructor has begun. Timers are not timed against each other. A `stop()` on another
thread between the test of `connect_` in `startInLoop()` and the one in `retry()`, both in
one step here, counts as one that comes after it. The mutex around `connection_` makes
each access one step.

### TcpServer, Acceptor and EventLoopThreadPool

Loop 0 is the base loop, loop i the one on the stack of `threadFunc()` in thread i.
Each loop polls, handles what was reported, runs its batch of functors and tests
`quit_`. `start()` is called from a functor on the base loop or on a thread; it tests
and increments `started_`, which is not initialized and may hold anything (`-1`, `0`,
`1` in `Init`), spawns the threads one by one, each time waiting for `loop_` to be
published (`Spawn`, `Started`), and listens, at once or through a functor. The
destructor runs from a functor on the base loop: the map is gone through, then each
thread is told to quit and joined, then the acceptor goes. While it waits in `join()`
the base loop does nothing else.

Descriptors are counted against `FdLimit`: the connections', the idle one, and those
other threads open and close at any moment. `Acceptor::handleRead()` without a
descriptor left is three steps (close the idle one, accept and drop, open it again)
between which others may take the place that was freed.

A connection is followed through `new`, `up`, `closed`, `down`, `freed`, and through
the map and the functors that carry it between the loops. Data on a connection changes
nothing here, so a poll reports only connections that end. `FreeConnection` is the
moment the last reference goes: any time after `connectDestroyed()`, which covers the
batch of functors that still holds one. A loop that ends drops the functors it has:
connections held by nobody else are freed with them, and one whose channel is still
registered meets the assertion of `~Channel`.

Simplifications: the base loop is not asked to quit; the pool's loops are quit only by
the destructor; the destructor is not called while a `start()` is under way on a
thread; `accept()` fails with `EMFILE`, or because the connection is gone, or leaves
it waiting (interrupted, and the errors that `sockets::accept()` only logs); the log
line between `accept()` and the test of `errno` is taken to leave `errno` alone.

## Runs

| Run | Expect | Bounds | Shows |
|---|---|---|---|
| `loop` | pass | 2 threads, 2 functors, 1 user channel | `TypeOK`; `FifoExactlyOnce`; `NoSleepOnFunctors`, `NoSleepOnQuit` (no lost wakeup); `ImplementsSerialExecutor`; `FunctorsRun`, `QuitEndsLoop` under fairness |
| `loop_race` | violation of `ThreadSafeQueueing` | 1 thread, 2 functors | the loop thread's push overlaps one that another thread has begun, and its functor is lost |
| `timers` | pass | 2 timers, 2 ticks per microsecond, 4 per second, clock to 7 | `TypeOK`, `TimerfdArmed`, `HeldOnce`, `NeverEarly`, and `DueTimersRun` under fairness |
| `timers_ties` | violation of `NoTimerDropped` | 2 timers | a timer with the expiration of another is forgotten |
| `conn` | pass | 1 thread, 3 calls of at most 2 units, 1 message of input | `TypeOK`, `StreamInOrder`, `WritingIffBuffered`, `ShutdownDrains`, `AssertionsHold`, and `ClosedIsDestroyed`, `ShutdownCompletes` under fairness; callbacks send, shut down and force-close, the thread sends |
| `conn_any` | pass | every call from everywhere, 2 calls, the server may die | `StreamInOrder`, `WritingHasData` |
| `conn_erase_assert` | violation of `EraseAssertion` | `forceClose` on a thread | a connection is erased twice |
| `client` | pass | 1 `connect`, 4 calls; `connect`, `stop`, `enableRetry`, `~TcpClient` on the loop, `connect`, `disconnect` on a thread; delays 1, 2, 3 | `TypeOK`, `SocketsAccounted`, `StartsAlone`, `ClientNotCalledAfterDeath`, `StopIsFinal`, and `ConnectSucceeds` under fairness |
| `client_restart` | violation of `StartsAlone` | the same with 2 `connect` | `connect()` again after `stop()`, or after the connection has closed, meets the assertion of `startInLoop()` |
| `poller` | pass | 3 channels, 2 descriptors, a list that starts with 1 event | `TypeOK`, `KernelAgrees`, `NoDanglingActive`, and `ReadyIsServed` under fairness |
| `buffer` | pass | 2 buffers, 4 bytes in calls of at most 3, 1 byte of initial size and of prepend area, 2 of `extrabuf`, an `int` of -2 to 1 | `TypeOK`, `BufferAssertionsHold`, `ImplementsByteQueue` |
| `server` | pass | 0 or 2 threads, 2 connections, 3 descriptors, 1 for others, 2 calls of `start()` | `TypeOK`, `OneOwner`, `Balanced`, and `BacklogDrained`, `ClosedIsFreed`, `DestroyReturns` under fairness |

Why the bounds are enough. Two threads are what it takes for pushes to overlap each
other as well as the swap, and with two functors one can be in the round while the
other is pending; what holds of more is proved. Two timers are enough for a tie, for
an earlier timer added before a later one and for a batch of two; the clock runs long
enough for a repeating timer to be restarted and to expire again. Three calls let a
connection buffer output, send again behind it, and then shut down or force-close;
two units make a write partial; a high-water mark of two is reached and left again.
Three delays are the first, a doubled one and one cut to the maximum; four calls are
enough for a client that is connected, stopped or disconnected, told to retry and
destroyed, in any order. On two descriptors three channels include one made on the
number another has just left while both are in the same poll's report, and a list of
one event must grow for both to be seen. The buffers start smaller than one call's
bytes, so every call meets each of the cases fits, compacts and grows. Two connections
on three descriptors, one of which is idle and one of which another thread may take,
reach the limit, and two threads make `next_` wrap.

Deadlock is checked in the `loop` runs (a dead process stutters explicitly) and in
`buffer`. It is not in the others: the bounded clock stops, and a destroyed connection, or a process
ended by an assertion, really has nothing left to do.

Fairness. `EventLoop`: threads that have begun a push or a wakeup finish it,
callbacks return, and `epoll_wait()` returns when the eventfd is readable; the poll
timeout and user channels get none, so wakeups are never owed to the ten-second
timeout. `TimerQueue`: the clock runs and the loop goes on. `TcpConnection`: the
loops and the threads go on; strong fairness for room in the socket (a peer that
reads) and for the delayed close's timer, which competes with the other events of
every round. The peer owes nothing else. `TcpClient`: the loop goes on and calls come
to their end; timers expire; strong fairness for the report of the connector's channel
and for its success: a server that is asked again and again takes an attempt at last,
which is what retrying is for. `Poller`: callbacks and functors return, and
`epoll_wait()` does not time out or fail for ever while there are events; which events
it reports is left free. `TcpServer`: every thread goes on; strong fairness for the
report of the acceptor's channel (level-triggered), for an `accept()` that does not
fail for ever, and for the place of the idle descriptor, which other threads do not
take every time.

`DueTimersRun` has one escape: a timer found so late that the timerfd is set beyond
the last tick of the bounded clock. `BacklogDrained` has one: the idle descriptor lost
to another thread, after which the code has nothing to give up at the next `EMFILE`.
`DestroyReturns` has one: a `quit()` that comes before its loop has entered `loop()`,
which resets `quit_`, so that `join()` waits for ever. The models reach all three.

## What the code does otherwise than it says

The violation runs are disagreements between the code and its own comments or
assertions; `PROJECT.json` quotes the line for each under `findings`: the empty lock
of `queueInLoop()`; the set of timers keyed by expiration alone; `state_` tested and
written without a lock by `forceClose()`, after which a connection is erased twice; and
a second `connect()`, which finds `state_` of the connector where `stop()` or the first
connection left it.

The models also reach other states that the properties exempt by name or that the runs
leave out; `hazards` in `PROJECT.json` lists them. Some are against a line of the
repository too:

- `connectDestroyed()` queued by `~TcpServer` on a loop that quits before it runs: the
  assertion of `~Channel` (`Channel.cpp:28`);
- a client destroyed between the making of its connection and `resetChannel()`: the
  assertion of `~Connector` (`Connector.cpp:28`);
- `disableAll()` that registers an unwatched channel again, after which `handleClose()`
  runs twice: its assertion (`TcpConnection.cpp:198`);
- `connectDestroyed()` of a connection that is shutting down, or that its callback has
  made read again: the assertion of `Channel::remove()` (`Channel.cpp:163`);
- `stop()` on another thread than the loop's, after which `StopIsFinal` fails, although
  `Connector.h:28` says that it "can be called in any thread";
- an interval below one second cut to 0, although the doc of `runEvery()`
  (`EventLoop.cpp:209-212`) takes seconds as a `double`;
- a `start()` that finds a `started_` other than 0 and does nothing, although
  `TcpServer.h:44-47` says that it starts a server that is not listening.

Nothing is said in the repository of the others: `quit()` before `loop()`;
`removeConnectionInLoop()` on a server that is gone; the idle descriptor lost;
`~TcpClient` on another thread (`ClientNotCalledAfterDeath` then fails), or functors that
find its connector freed; a shutdown that completes before sends queued earlier;
`addTimer()` reading a timer the loop may have deleted; a retrieval of more bytes than an
`int` can count.

## Proofs

All theorems are for every value of the constants that satisfies the named
assumption of the module (`EventLoopAssumption`, `TimerQueueAssumption`,
`TcpConnectionAssumption`, `PollerAssumption`, `BufferAssumption`, `ConnectorAssumption`,
`TcpClientAssumption`, `AcceptorAssumption`, `PoolAssumption`, `TcpServerAssumption`:
bounds are numbers, the special values are distinct, `Poller`'s descriptors and the
thread numbers are finitely many, the first retry delay is positive and at most the
largest, other threads leave the process a descriptor). A theorem that needs more says
so in its `ASSUME`, and the run of the same property satisfies it.

`EventLoopProofs`
- `TypeCorrect`, from `TypeInv`: types, and a thread that pushes has a functor.
- `QueueIsFifo` (`FifoExactlyOnce`), from `FifoInv`: the round's vector is empty
  outside the round, and a push is marked as overlapped only after a race. Without
  the first the swap would overwrite functors; without the second a push could go
  wrong while `ub` is false.
- `FunctorsWakeTheLoop`, `QuitWakesTheLoop`: the wakeup invariants, from `WakeInv`,
  which follows a pending functor or quit through every place between two polls: the
  loop has yet to swap (or to test `quit_`), or a wakeup is written or coming. It needs
  `callingPendingFunctors_` to be true exactly from the swap to the end of the round.
- `RunsSerially`: `EventLoop` implements `SerialExecutor` (`broken <- ub`): each step
  maps to a step or a stutter, given `FifoInv`.

`TimerQueueProofs`
- `TypeCorrect`; the timerfd is never set to a negative time, by `Arms` on `ResetTimerfd`.
- `TimersHeldOnce` (`HeldOnce`) and `NoneEarly` (`NeverEarly`), from `HeldInv`: what
  `handleRead()` holds is due, and is held only while it serves it.
- `AlwaysArmed` (`TimerfdArmed`): covering one timer is covering every later one, and
  covering is not lost as the clock moves (`CoversLater`), so re-arming for the earliest
  alone is enough.

`TcpConnectionProofs`, for any calls from anywhere unless said otherwise
- `TypeCorrect`, with: a thread in a call has something to queue; what is in the inbox
  was sent.
- `StreamKeepsOrder` (`StreamInOrder`) and `NeverWritesNothing` (`WritingHasData`):
  together inductive (`OutInv`). A direct write happens only on an empty buffer, which
  `WritingHasData` ties to `isWriting`; a partial write splits the data (`WriteSplits`).
- `OutputIsWatched` (`WritingIffBuffered`) and `ShutdownWaits` (`ShutdownDrains`), under
  `LoopOwnsState`: no thread calls `shutdown()`, `forceClose()` or
  `forceCloseWithDelay()`. The invariant `UpInv` says that until it is closed a connection
  with output wants to write and has not shut down. The hypothesis is needed: a late
  write of `state_` by a thread revives a closed connection with output in its buffer
  (`conn_erase_assert` shows the revival).
- `NoAssertionFails` (`AssertionsHold`), under `LoopEndsIt`: callbacks send, shut down and
  force-close, threads only send, the server outlives the connection. `LifeInv` says,
  for each stage of a connection, which of `connectEstablished`, `connectDestroyed`, the
  server's functors and the forced close are still queued, and that each is queued at
  most once where a second would meet an assertion. The hypothesis is needed: a comment
  at its definition names, for each call it leaves out, the assertion that call can break.

`PollerProofs`, for any channels and descriptors and whatever callbacks do
- `TypeCorrect`, `Agreement` (`KernelAgrees`) and `NothingDangles` (`NoDanglingActive`),
  from one invariant `IInv`. It adds `Owners`: a registered channel owns its descriptor
  and no two own the same, without which an `ADD` could fail and leave the kernel with
  another channel's address; and `Phases`: channels are handled only between a poll and
  the functors, each once, without which the assertion of `removeChannel()` would not
  protect the rest of the report.

`BufferProofs`
- `TypeCorrect` and `NoAssertionFails` (`BufferAssertionsHold`), from the indices being in order
  and in the vector; `EnsureMakesRoom` shows what `ensureWritableBytes()` returns.
- `IsByteQueue`: `Buffer` implements `ByteQueue`, the queue being the bytes between the
  indices. Each function gets a lemma on its content (`EnsureContent`: growing and
  compacting keep it; `PutContent`, `ReadFdContent`: what is put in is appended, in both
  parts). It bounds neither what a buffer carries nor what it holds; the exactness of a
  retrieval ends at `IntMax`, in `ByteQueue` as in the code.

`TcpClientProofs`
- `TypeCorrect` and `SocketsAreAccounted` (`SocketsAccounted`), for any calls from
  anywhere, from `ClientInv`. It counts tokens: a `connect()` under way, a queued
  `startInLoop`, a timer set or due, an attempt and a connection are each a start that is
  owed, and there are never more of them than calls of `connect()` (`Starts <= connects`).
  `retry()` turns an attempt into a timer and a timer into an attempt, so refusals add none.
- `AttemptsNeverOverlap` (`StartsAlone`), `DeadClientIsNotCalled`
  (`ClientNotCalledAfterDeath`) and `StopHolds` (`StopIsFinal`), under `OnceAndOnLoop`: one
  `connect()`, and `stop()` and the destructor on the loop's thread. With one token the
  attempt, the timer and the connection exclude each other (`OneToken`). `LoneInv` adds
  `InTime`: the `resetChannel()` of a failed attempt runs in the same round, before a
  timer can begin the next; and `Halted`: what a `stop()` or a destructor that has cleared
  `connect_` relies on, and nothing undoes. The hypothesis is needed: with two `connect()`
  `StartsAlone` is violated (`client_restart`), and `stop()` or the destructor on another
  thread breaks the other two.

`TcpServerProofs`, for any number of threads, connections, descriptors and calls of `start()`
- `TypeCorrect` (with `Taken(Used) <= FdLimit`: descriptors are never overdrawn),
  `EveryConnectionHasOneOwner` (`OneOwner`) and `LoopsShareEvenly` (`Balanced`), from one
  invariant, `ServerInv` (`ServerInvHolds`). It speaks of how often a functor is queued, not
  of the order of the queue: `OwnerInv` gives, for each state of a connection, the number
  of its `connectEstablished` and `connectDestroyed` functors and whether the map has
  it; `QueueInv` puts functors of a connection on its own loop or the base loop only;
  `ActiveInv` says that what a poll reported is still up; `FreshInv` that ids not yet given
  are nowhere; `LoopInv`, `BaseInv` and `AcceptInv` tie the threads, the destructor and the
  acceptor together, in particular that no connection comes before all threads have
  started. A `connectDestroyed` that overtook its `connectEstablished` would meet an
  assertion, after which the process is gone, so the order of the two need not be known.
- `Balanced` needs `Spread`: the loops before `next_` have one connection more than the
  others, exactly, and all as many when `next_` is 0.

Only model-checked: liveness (`FunctorsRun`, `QuitEndsLoop`, `DueTimersRun`,
`ClosedIsDestroyed`, `ShutdownCompletes`, `ConnectSucceeds`, `ReadyIsServed`,
`BacklogDrained`, `ClosedIsFreed`, `DestroyReturns`), which is out of the prover's reach.
Every invariant, action property and refinement that a passing run checks is a theorem.

## Plan

1. The order of `connectEstablished` and `connectDestroyed` on a loop, as an invariant of
   `TcpServer`: with it the process is seen to end only where a loop quits with work left.
2. Loops of the pool that quit by themselves, if the library comes to use them so.

## Not modelled

- `BlockingQueue`, `CountDownLatch`: a mutex and a condition around a deque or a counter,
  which nothing in the library uses.
- `PollPoller`: stubs.
- `Socket`, `SocketsOps`, `InetAddress`, `Endian`: one system call or conversion each,
  without state. What the kernel does with them is in the modules that call them.
- `Logger`, `Singleton`, type aliases, the examples and the test program.
- The lifetime of a `TcpConnection` outside `TcpServer` (a raw `this` and raw data bound by
  `send()` on another thread), `SIGPIPE`, and the destructor of `TimerQueue`.
