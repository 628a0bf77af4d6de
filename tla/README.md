# A verification project for seenet

seenet is a C++17 network library for Linux in the style of muduo: one event
loop per thread on epoll, TCP servers with a pool of loops, connections with
user callbacks. These modules model what its threads, handlers and functors do
to shared state; TLC checks them on small instances and TLAPS proves what holds
of every instance. Line numbers below are of the files under `src/`.

## The system

| Component | State | Operations | Talks to |
|---|---|---|---|
| EventLoop (`eventloop.cpp`) | `m_bLooping`, `m_pendingFunctors` (mutex), `m_bCallingPendingFactors`, `m_activeChannels`, an eventfd | `loop`, `quit`, `runInLoop`, `queueInLoop`, `wakeup` | poller, channels, any thread |
| Channel, EPollPoller (`channel.*`, `poller/`) | `m_events`, `m_revents`, `m_index`; `m_channels`, the epoll instance | enable/disable, `remove`, `handleEvent`; `poll`, `updateChannel`, `removeChannel` | kernel, raw pointers to channels |
| TcpConnection | `m_state`, `m_reading`, two buffers, its socket and channel | `send`, `shutdown`, `forceClose`, `forceCloseWithDelay`, `startRead`, `stopRead`, handlers, `connectEstablished`, `connectDestroyed` | its loop, the user's callbacks, TcpServer |
| TcpServer | `m_connections`, `m_started` | `start`, `newConnection`, `removeConnection`, destructor | Acceptor, pool, connections |
| Acceptor | listening socket and its channel, reserve descriptor | `listen`, `handleRead`, destructor | TcpServer, kernel |
| EventLoopThread(Pool) | threads, `m_loops`, `m_next` | `startLoop`, `start`, `getNextLoop` | loops |
| TimerQueue, Timer | two sets of timers, a timerfd | `addTimer`, `cancelInLoop`, `handleRead` | its loop |
| Buffer | a vector and two indices | append, retrieve, `readFd`, find | TcpConnection |
| sockets, addresses | none | wrappers of system calls | kernel |

What is hard here: any thread may queue functors, quit a loop or call into a
connection; a handler, a functor and the peer may all want to close the same
connection; functors and raw channel pointers outlive the step that created
them; descriptors are reused, and may run out; the wakeup protocol has to work
without waking for every functor; the server is destroyed while connections, loops
and threads of the user are at any point of what they do. `PROJECT.json` lists each hazard at its line.

What makes each component correct:

* EventLoop: functors run once, in order, on their loop, and soon; `quit`
  stops the loop.
* Poller: its index, its map and the kernel agree; no pointer is stale.
* TcpConnection, TcpServer: each connection is opened, closed and freed once and
  in that order; the user is told; no assert fails; the map holds what lives.
* Acceptor: it closes no descriptor but its own, and never stops taking clients.
* EventLoopThread: a stopped thread ends. TimerQueue: a timer fires once, at its
  time, unless cancelled. Buffer: what is read is what was appended.

## Modules

**FunctorQueue** is the abstract specification of a loop: one FIFO queue of
functors per loop and a flag that the loop has returned.

**EventLoop** is `eventloop.cpp`. A loop names its thread. `phase[l]` says where
the thread is in `loop()` (66-88): before it (`constructed`), at the test of
`m_bLooping` (`while`), in `epoll_wait` (`poll`), calling handlers (`events`),
in the second half of `doPendingFunctors` (`functors`), or returned (`exited`).
`pending` is `m_pendingFunctors`, `batch` the local vector it was swapped into.
Actions: `QueueBeforeLoop`, `StartLoop`, `WhileTest`, `Poll`, `HandleWakeup`,
`HandleEvent`, `SwapPending`, `RunFunctor`, `EndFunctors`, `QueueInLoop`, `Quit`,
`Wakeup`. `queueInLoop` and `quit` are two steps of the caller, the push or the
store and then `wakeup()`; between them every other thread may run. A handler or
a functor is one step with any effect: the functors it queues on each loop and
the loops it tells to quit. Each functor remembers who queued it (`by`), which
`OwnHandlersServed` and `NeverSleepsOnWork` need and the code does not have.

**PollerOps** gives Channel and EPollPoller as functions of a record (the map,
the index and events of each channel, the epoll instance), so that other modules
can apply them inside a step. An assert that fails is recorded in `failed`.
**Poller** is one poller under the calls its clients make: open a channel on a
free descriptor, change its events in any order, remove it once it has none,
destroy it, dispatch. An owner destroys a channel after it has removed it, at any time,
also while the loop still has its pointer in `m_activeChannels`: the poller does not keep
that list alive. That it is alive in a server is `NoDanglingChannel` of TcpServer.

**Acceptor** adds the Acceptor to Poller as one more client of it: `Construct`,
`listen`, `Destroy` (with `DestroyChannel`, `CloseAll`), and `handleRead()` with one
step for each system call, `HandleRead`, then `Accepted` or `NotAccepted`, and when no
descriptor is left `CloseReserve`, `AcceptAgain`, `CloseClient`, `OpenReserve`. `accept(2)`
may also fail for other reasons (EAGAIN, ENFILE, ENOMEM ...), upon which the code does nothing. `at` is
the call that comes next. The descriptors belong to the process: `OtherOpen` and
`OtherClose`, of other threads, come between any two of these calls. `plain` says what
a descriptor without a channel is open on; `raced` is history: another thread opened
a descriptor while the Acceptor held none. That the Acceptor keeps to the calls that
Poller allows is a property, `KeepsToPoller`, so that what is proved of Poller holds.

**TcpConnection** gives the member functions of TcpConnection and
`TcpServer::removeConnection` as functions of a *world*: the connection, its
socket, the poller of its loop, the functors it queues, the server's map. What a
user callback does, up to two calls into its connection one after the other, and how much `write(2)` takes are arguments. A buffer is the
number of messages in it. Of a timer nothing is left but the connection it binds, in
`timers` of the loop: no timer ever runs (`timerqueue.cpp:74,111`).

**TcpServer** composes EventLoop (by INSTANCE, with connections and the listener
as channels), one poller per loop, and the connections: `Connect`, `Peer` (data,
close or reset), `Poll` (with the events the sockets have), `HandleConn`,
`HandleListen` (`Accept`; with EMFILE, `Refuse`; with another error, `AcceptFailed`), `SwapPending`, `RunFunctor`,
`EndFunctors`, and the user's threads, whose calls are three steps: read
`m_state` (`EnterCall`), store it (`StoreState`), queue the functor
(`FinishCall`). References are explicit: the map, the functors a loop holds
(`pending`, and `kept` until the whole batch has run), and the pointers of the
user's threads. The step that drops the last one runs `~TcpConnection`.
The end of the server: `QuitBase` tells the loop of the Acceptor to quit, from a
thread of the user or from a callback; when the loop has returned, its thread runs
`~TcpServer` (`DropConnection` for each connection, at once or by a functor to its
loop, then `EndBody`), and the destructor of the pool (`StopThread`, one after the
other, each joined; `EndServer`). `server` says how far it is, `dropped` which
connections it found. What a loop has not run when it returns is never run, and keeps
what it binds; a close callback that comes after `EndBody` is recorded as a failure.

**ConnectionLife** is the abstract specification of a connection: unknown,
waiting, opening, up, closing, down, gone.

**EventLoopThreadPool** is the pool and its EventLoopThreads from `start()` to the
destructor: the owner's thread in `startLoop()` (`SpawnThread`, `WaitForLoop`,
`ReturnLoop`), handing out loops (`GetNextLoop`, `GetAnyLoop`) and destroying
(`DestroyPool`, then for each thread `TestLoop`, `StoreQuit`, `WakeLoop`, `Join`);
`threadFunc()` (`InitCallback`, `Publish`, `EnterLoop`, `LeaveLoop`, `Reset`,
`EndThread`); and users who keep loops and tell them to quit. What `loop()` does in
between is EventLoop's; that it ends after `quit()` is its property `QuitStopsLoop`.
A null pointer, a freed loop and `std::terminate` end a behaviour with an `outcome`
of that name. `picks` and `quitBy` are history.

**ByteQueue** is the abstract specification of a buffer: a sequence of bytes filled at
its end, emptied at its front, where a header can be put in front.
**Buffer** is `buffer.h` and `readFd()` with the vector, both indices and every byte:
the methods as functions of a buffer, and an owner who calls them in any order and
keeps to their asserts. `RetrieveLine` is the owner who looks for the end of a line
(`findCRLF`, `findEOL`) and retrieves up to it. `Content` is what lies between the indices; `call` records
the last call in the terms of ByteQueue. `std::copy` and `vector::resize` are
external. An integer is its bytes, so that the appendIntN(), prependIntN() and
retrieveIntN() are the append, prepend and retrieve they call.

**MCTcpServer** names the symmetries, callbacks and pools of the runs of TcpServer. The theorems are in **EventLoop_proofs**, **Poller_proofs**, **Acceptor_proofs**,
**EventLoopThreadPool_proofs**, **TcpServer_proofs** and **Buffer_proofs**, the lemmas that
two of them share in **PollerOps_proofs** and **TcpConnection_proofs**. Definitions whose comment begins with
"Mutant:" are wrong versions of the definition below them; no specification
uses them, each one violates a property of a run.

## Runs

| Run | Instance | Shows |
|---|---|---|
| eventloop | 1 loop, 2 threads, the wakeup of the code, up to 3 functors waiting, 2 queued by a callback; 5,276 states | `BatchDone`, `OwnHandlersServed`, `BatchIsFixed`, refinement of FunctorQueue (`QueueIsFIFO`), `EveryFunctorRuns`, `QuitStopsLoop` |
| eventloop_wakeup_lost | the wakeup of the code, 2 bytes | `NeverSleepsOnWork` is violated |
| acceptor | the listener, 2 channels, 3 descriptors, 2 clients waiting; 59,074 states | all properties of Poller; `OwnsWhatItNames`, `ReserveLostOnlyInRace`, `KeepsToPoller`, `ClientsAreTaken` |
| tcpserver | 1 loop, 2 connections, 2 descriptors, callbacks of one and two calls, the server's end; 298,494 states | `FailsOnlyAtStop`, `NoDanglingChannel`, `ClosedIsSilent`, `MapIsLive`, `RemovedOnce`, `NoneLeftOpen`, `LifeCycle` |
| tcpserver_pool | acceptor's loop and one io loop, 1 connection, a sending thread, the server's end; 67,546 states | type, two safety properties, `CloseIsCarriedThrough`, `StopEnds` |
| tcpserver_close_race | a thread calls `shutdown` or `forceClose` | `DestroyedWhenDown` is violated |
| tcpserver_stop_read | a callback stops reading, a thread closes, the peer resets | `ClosedOnce` is violated |
| tcpserver_stop_shutdown | a callback shuts down, the server is destroyed | `RemovedWhenDisabled` is violated |
| tcpserver_map | an io loop | `MapOwnedByBase` is violated |
| tcpserver_output | a message that `write(2)` takes in part, of a peer that reads | `OutputIsWritten` is violated |
| eventloopthreadpool | 2 threads, 6 turns of `getNextLoop()`; 20,027 states | type, `OnlyQuitLoopsAreMissing`, `JoinedBeforeFreed`, `TurnsAreEven`, `StartReturns`, `StopReturns` |
| buffer | 2 values of a byte, which are CR and LF, header, initial size and spill array of 2, at most 3 bytes waiting; 20,325 states | type, `SpaceIsBounded`, `HeaderRoomKept`, refinement of ByteQueue (`IsByteQueue`) |

The violations are disagreements of the code with its own asserts, comments and
example; each has a finding in `PROJECT.json` with the line it contradicts.
A real program can meet more than one at a time, so the passing runs of TcpServer
stay clear of the calls that the findings are about: no thread but the loop's
closes (a thread that only sends is included), nobody stops reading, and the
pool run has one connection, with which the map has no concurrent accesses while the
server is up.

`FailsOnlyAtStop` names what remains wrong, at the end of the server alone, and
`tcpserver` and `tcpserver_pool` reach both cases: `~TcpServer` that finds a connection in
`kDisconnecting`, whose channel `connectDestroyed()` removes with its events enabled
(`tcpconnection.cpp:257`; the finding of `tcpserver_stop_shutdown`), and a connection of another loop, which may call
`removeConnection` on a server that is gone (`tcpserver.cpp:79`) or be destroyed open
when its loop has returned. `NoneLeftOpen` and `StopEnds` say what holds
all the same. Of a connection of another loop no line of the repository promises more.

What a property excepts, it does not check: `ClientsAreTaken` excepts an `accept(2)` that keeps
failing for other reasons than want of a descriptor, `StopReturns` a `quit()` that came before
`loop()` and is lost, `CloseIsCarriedThrough` what a user's thread or a timer keeps, and
`FailsOnlyAtStop` the two cases above. The hazards in `PROJECT.json` that only such an exception
names have no property, and say so.

Bounds. One loop and two threads queue on the same loop from its handlers, its functors, before
`loop()` and from two sides outside; of the other loops, a loop sees no more than of a thread that
queues, and the theorems hold of any number of both (`tcpserver_pool` has two loops). Three
waiting functors tell the front from the back, and from the middle that a swap leaves behind;
the batch adds more. Three descriptors for the
listener, the reserve, two channels and the other threads make reuse happen in every
order, and make the process run out of them; with two clients waiting, one is left when
one was refused. Two connections on one loop interleave
in the poller, the functors and the map. `MaxPending` of the server runs is 8
where no reachable state of these instances has more than 4 functors waiting, so
that it never blocks anything; `MaxRemote` limits only when a user's thread may
queue; `MaxOut = 1` stands for "not empty". `HighWaterMark` is above `MaxOut`:
without a callback set, the mark has no effect. The pool run has one connection that is
rejected or not, a peer that sends and resets, and one thread that sends: what it asks,
whether every close and the end of the server are carried through across threads, needs
no more, and the callbacks in all their variety are in `tcpserver`. The violation runs
but `tcpserver_stop_shutdown` have no server's end (`Stops = FALSE`): their findings do not need it.

All runs write 2 bytes to the eventfd, as `eventloop.cpp:186` does; the write fails, the
descriptor never becomes readable (the `handleRead()` of the wakeup channel never runs), and what
the runs show holds by the timeout of `poll()` alone. The theorems hold of any number of bytes. Two
threads in the pool are enough for one to be destroyed while the other still
runs, and six turns for the index to come round three times. The sizes of `buffer` are those at
which each case happens in a few calls: with room for 2 and 3 bytes waiting the
data are moved, the vector is enlarged, `readFd()` fills the array behind it, and a
header of 2 is used up and regained, and a carriage return is the last byte before a stale line
feed; two values of a byte tell two bytes apart.

Symmetry of connections and of descriptors is used in `tcpserver`, a run of safety properties. Deadlock checking is off
where the system may stop: where all loops may have returned, a server is gone, an
assert ends the program, or the pool is gone.

Fairness. A thread inside `loop()`, `wakeup()`, `startLoop()`, `threadFunc()` or a destructor keeps going: the operating system
schedules it, callbacks return, and `epoll_wait` returns after `kPollTimeMs` (10 s)
with or without events. Nothing is assumed of events, of peers, of threads that
call in, of when they drop a pointer, or of whether anybody tells a loop to quit;
`CloseIsCarriedThrough` therefore excepts the destruction of connections that a thread of the user, or a
timer, keeps. The thread that has left the Acceptor's loop goes on with the destructors
(`StopStep`). In Acceptor the thread of the loop goes on polling, handling and with
the calls it has begun; nothing is assumed of clients and of other threads, which may
take every descriptor that is closed. `tcpserver_output` alone has `WritesSpec`, which adds that
the peer reads: a connection that is reported writable again and again is once handled with a
`write(2)` that takes all (strong fairness). With writing enabled where line 140 means it,
`OutputIsWritten` holds under it: the violation is the code's, and not a lack of fairness.

## Proofs

`EventLoop_proofs` proves, for any loops, threads, tasks, channels and bounds
(assumption `Assumption`: loops and threads are disjoint, "wakeup" is no channel,
the numbers are naturals):

* `TypeCorrect`, `BatchDoneInvariant`, `OwnHandlersServedInvariant`. The last is
  not inductive alone: a handler's functor must be gone by the time the loop
  leaves `events`, which `SwapPending` ensures, and no later step of the loop
  queues with origin `handler`; the invariant is proved with the type invariant
  and `BatchDone`, which ties `m_bCallingPendingFactors` to the phase.
* `BatchOnlyShrinks`, and `Refinement`: initial states map to initial states of
  FunctorQueue and every step to one of its steps or a stutter. Lemmas on
  concatenation of the two vectors (what `SwapPending` leaves unchanged, what a
  `RunFunctor` removes and adds) carry the proof.

`Poller_proofs` proves every property of Poller for any channels and descriptors
(assumption `NoneAssumption`). The invariant `IInv` is `Sound(poller)` (type,
no failed assert, channels and kernel mirrored, pointers owned by the holder of
the descriptor, no descriptor shared) and that the active channels are channels. Nothing is
proved here of whether they are alive: a channel may be destroyed in the middle of a dispatch.
That each
operation keeps `Sound`, and changes no channel but its own, are the lemmas of
`PollerOps_proofs`, which the proofs about TcpServer use too.

`Acceptor_proofs` proves every safety property of Acceptor (`AcceptorAssumption`: the
listener is a channel). `StepKeepsToPoller` shows that each step of the Acceptor, of its
clients and of the other threads is a step that Poller allows, or leaves it alone:
from it come `AcceptorKeepsToPoller` and, with the invariant of Poller_proofs,
`AcceptorAssertsNeverFail`. The rest of the invariant `AInv` says who owns which
descriptor: a descriptor has a channel or is plain, there is no reserve without an
Acceptor, its destructor's halves find the channel as the poller wants it (`InOrder`), and, the part that `ReserveLostOnlyInRace` needs to be inductive, as long as no
other thread has opened a descriptor while the Acceptor held none, the one it
closed is still to be had at every call up to the `open()` that takes it back.

`EventLoopThreadPool_proofs` proves the four invariants of its run for any number of
threads and turns. `ThreadsInStep` relates where a thread is in `threadFunc()` to
where the owner is in `startLoop()` or the destructor, `StoppedByQuit` says who told a loop to
quit that has stopped, `PoolInStep` how many loops the pool holds. `TurnsAreEven` is not
inductive: the loops before `m_next` are one turn ahead of the others (`TurnInStep`).

`TcpServer_proofs` proves every invariant of the passing runs of TcpServer, and that TcpServer
implements ConnectionLife, for any number of
connections, descriptors, loops and user threads, of pools, callbacks and bounds. The
hypothesis `QuietUsers` is a condition on the constants `UserOps` and `ThreadOps`: no
callback starts or stops reading, and the user's threads only send. Without it
`FailsOnlyAtStop`, `ClosedIsSilent` and `MapIsLive` are false, which is what the findings of
`tcpserver_stop_read` and `tcpserver_close_race` show; the passing runs of TcpServer
meet it. None of the properties is inductive. The invariant `IInv` is `Claims`, their
conjunction, and, as long as no assert has failed, `Core`:

* `PollersSound`, `ChannelsInStep`: each poller is `Sound` and has just the channels of the
  live connections of its loop; a channel is enabled for reading and known to the kernel
  exactly while its connection is open.
* `ActiveAreOpen`: what a loop is about to handle is open. It holds although functors
  and threads run in between, because only the thread of the loop closes.
* `QueuesAreLive`, `ReferencedAreLive`: functors bind connections of the loop they are
  queued on, and a connection exists exactly as long as something refers to it.
* `ConnsInOrder`: of each connection, its state, whether its channel is in the poller,
  whether it is in the map and was dropped, and which of `connectEstablished()` and
  `connectDestroyed()` are queued, how often, fit together.
* `CallsAreQuiet`, `EndInOrder`, `OneLoop`: what the user's threads are in, and how far
  `~TcpServer()` is.

The argument has three layers. `TcpConnection_proofs` shows of each member function,
applied to a world that is `Proper`, that it is `Minor` (nothing opened or closed), `Closing`,
`Opening`, `Destroying` or `Failing`, whatever the callback in it does.
`OneConnection` shows that a step which changes one connection and queues its functors on one
loop keeps `Core` if it does for that connection, and `DropCore` that a step which drops
references does if what loses its last one is down and removed. Then there is one lemma for each
action (`HandleConnStep`, `RunFunctorStep`, `AcceptStep`, `DropHereStep` ...). Three of them end in
an assert that fails (`FailedCloseClaims`, `FailedRemovalClaims`, the first case of `DropHereStep`):
there `Core` is lost, and they show that only `~TcpServer()` leads there and that `Claims` still hold.
With the same outcomes `ConnectionsLiveOnce` shows, action by action, that a step is one of
ConnectionLife or moves no connection: `MinorMoves` (at most `BeginClose`), `ClosingMoves`
(`Close`), `DropMoves` (`Drop`), and `DestroyingMoves` (`Free`), which needs from `Core` that what
loses its last reference is down. The step in which an assert fails is no exception.

`RemovedOnce` is about a server that has met no connection of another loop in its
destructor (`ChannelsAreRemovedOnce`), so always about one without a pool
(`RemovedOnceWithoutPool`): for a connection of another loop a second `connectDestroyed()`
may be queued.

`Buffer_proofs` proves every property of Buffer for any bytes and any sizes
(`BufferAssumption`: zero, CR and LF are bytes, the sizes are naturals, and the spill array is
not empty). The properties are inductive once it is added that the vector never gets
smaller than the header's room, which `retrieveAll()` relies on, and that it is
either as large as the initial one or bounded by the largest backlog. `LineProperties`
says that what a search in the vector finds is the first line end of the content, and
no stale byte takes part in it. One lemma
per method says what it does to the content, the size and the header's room;
the step theorem only collects them. ImplementsByteQueue is the refinement: from
it, counting whole messages in place of buffers, as TcpConnection does, loses
nothing but the bytes.

Only model-checked: all liveness (`EveryFunctorRuns`, `QuitStopsLoop`, `ClientsAreTaken`, `CloseIsCarriedThrough`,
`StopEnds`, `StartReturns`, `StopReturns`: the prover does not handle fairness). The theorems speak of the models; that the
models are the code is the reader's comparison, for which `map` in `PROJECT.json`
gives the lines of each definition.

## Not modelled

* `TcpServer::start` itself: the servers begin started. A second `start()` does nothing.
* A loop that another thread runs than the one that constructed it, as the echo server
  does (`src/test/echoserver.cpp:17,55`): in the models a loop names its thread.
* `epoll_ctl` that fails (ENOMEM, ENOSPC), an `open("/dev/null")` that fails for another reason
  than want of a descriptor, and a callback that makes more than two calls.
* An Acceptor that a handler destroys while the listener's own event is still to be dispatched.
* A pool without threads in EventLoopThreadPool (TcpServer has it).
* TimerQueue beyond `addTimer`: nothing takes a timer from the queue; `cancelInLoop`,
  `getExpired` and `reset` have no caller, and the latter two use values that were never
  set. `runAt` and `runAfter` of the user, whose timers never run either.
* Of Buffer the peek methods, which change nothing, `readInt8`, which ends without a return
  statement and so is undefined, and `swap` apart from `shrink`.
* Sockets and addresses: wrappers of system calls, whose effect on a connection is in
  `Socket`. An exception thrown by a callback; a callback that calls into a connection
  other than its own; a server destroyed on another thread than its loop's or while its
  loop runs.
* The unsynchronised accesses to `m_state`, `m_connections` and `m_loop` are modelled as
  atomic reads and writes in any order, which is less than a data race allows.

## Plan

Done: EventLoop, Poller, Acceptor, EventLoopThreadPool and Buffer with their proofs and
refinements; TcpConnection, TcpServer with its end, and ConnectionLife, checked, and the
invariants of TcpServer and its refinement of ConnectionLife proved.

Next, in this order:

1. Types alone (`TypeOK` of TcpServer) without `QuietUsers`.
2. Lemmas for users who close from their own threads: what still holds when
   `kDisconnecting` may overwrite `kDisconnected`.
