----------------------------- MODULE TcpServer -----------------------------
(***************************************************************************)
(* A seenet TcpServer at work: its Acceptor, the loops its connections run *)
(* on, the connections and their sockets, the peers, and threads of the    *)
(* user that keep a TcpConnection_sPt and call into it.                    *)
(*                                                                         *)
(* The loops are those of EventLoop, with one poller (PollerOps) each; a   *)
(* handler or a functor is a function of TcpConnection applied inside the  *)
(* step of EventLoop that calls it.  A connection object is destroyed in   *)
(* the step that drops the last reference to it.                           *)
(*                                                                         *)
(* The server is destroyed as a program does it that leaves main(): the    *)
(* loop of the Acceptor is told to quit, and when its loop() has returned  *)
(* its thread runs ~TcpServer(), which drops the connections, then stops   *)
(* the thread pool.  What a loop has not run when it returns is never run; *)
(* the functors and timers of a loop keep the connections they bind, and   *)
(* through m_loop these keep the loop, so that none of them is freed.      *)
(***************************************************************************)
EXTENDS TcpConnection

CONSTANTS
  Loops,       \* the event loops
  Base,        \* the loop of the Acceptor
  Pool,        \* m_loops of the thread pool, in order; <<>> if it has none
  Threads,     \* the user's threads
  ThreadOps,   \* what the user's threads may call on a connection
  Stops,       \* whether the loop of the Acceptor is ever told to quit
  PeerOps,     \* what the peers may do: "data", "fin", "rst"
  WakeupBytes, \* see EventLoop
  MaxPending,  \* bound: functors in m_pendingFunctors of one loop
  MaxRemote    \* bound: functors there when a user's thread adds one

\* A connection, its Channel object and the client behind it share a name.
Conns == Channel

ASSUME ServerAssumption ==
  /\ {"wakeup", "listen"} \cap Conns = {}
  /\ Base \in Loops
  /\ Pool \in Seq(Loops)
  /\ ThreadOps \subseteq Op \ {"none"}
  /\ PeerOps \subseteq {"data", "fin", "rst"}
  /\ Stops \in BOOLEAN

Task == [fn : Fn, conn : Conns]

VARIABLES
  phase, looping, pending, batch, calling, active, eventfd, toWake,
               \* see EventLoop
  life,        \* of each connection: "none", "backlog", "live" or "gone"
  conn,        \* its fields and its socket
  loop,        \* m_loop of each connection
  revents,     \* m_revents of its channel
  poller,      \* m_poller of each loop
  timers,      \* connections bound by the timers of each loop
  map,         \* m_connections
  next,        \* m_next of the thread pool
  kept,        \* connections bound by the functors that a loop took to run
  held,        \* connections that each thread has a pointer to
  doing,       \* the call each thread is in: it has read m_state, or stored it
  server,      \* "up", "ending": the body of ~TcpServer() has run, or "gone"
  dropped,     \* connections that ~TcpServer() found in m_connections
  failed       \* the function whose assert() failed, or which was called on a
               \* server that is no more, or "none"

loopVars == <<phase, looping, pending, batch, calling, active, eventfd, toWake>>
objVars == <<conn, poller, timers, map, failed>>
userVars == <<held, doing>>
stopVars == <<server, dropped>>
serverVars == <<objVars, life, loop, revents, next, kept, userVars, stopVars>>
vars == <<loopVars, serverVars>>

EL == INSTANCE EventLoop WITH Channels <- Conns \cup {"listen"}, Burst <- 2

Idle == [op |-> "none", conn |-> None, stored |-> FALSE]

TypeOK ==
  /\ EL!TypeOK
  /\ life \in [Conns -> {"none", "backlog", "live", "gone"}]
  /\ conn \in [Conns -> Connection]
  /\ loop \in [Conns -> Loops]
  /\ revents \in [Conns -> SUBSET {"IN", "OUT", "HUP", "ERR"}]
  /\ poller \in [Loops -> PollerType]
  /\ timers \in [Loops -> SUBSET Conns]
  /\ map \subseteq Conns
  /\ next \in IF Pool = <<>> THEN {0} ELSE 0 .. Len(Pool) - 1
  /\ kept \in [Loops -> SUBSET Conns]
  /\ held \in [Threads -> SUBSET Conns]
  /\ doing \in [Threads -> [op : Op, conn : Conns \cup {None}, stored : BOOLEAN]]
  /\ server \in {"up", "ending", "gone"}
  /\ dropped \subseteq Conns

\* The server was started: the Acceptor listens and every loop is in loop().
Init ==
  /\ phase = [l \in Loops |-> "while"]
  /\ looping = [l \in Loops |-> TRUE]
  /\ pending = [l \in Loops |-> <<>>]
  /\ batch = [l \in Loops |-> <<>>]
  /\ calling = [l \in Loops |-> FALSE]
  /\ active = [l \in Loops |-> {}]
  /\ eventfd = [l \in Loops |-> FALSE]
  /\ toWake = [t \in Loops \cup Threads |-> {}]
  /\ life = [c \in Conns |-> "none"]
  /\ conn = [c \in Conns |-> NewConnection]
  /\ loop = [c \in Conns |-> Base]
  /\ revents = [c \in Conns |-> {}]
  /\ poller = [l \in Loops |-> EmptyPoller]
  /\ timers = [l \in Loops |-> {}]
  /\ map = {}
  /\ next = 0
  /\ kept = [l \in Loops |-> {}]
  /\ held = [t \in Threads |-> {}]
  /\ doing = [t \in Threads |-> Idle]
  /\ server = "up"
  /\ dropped = {}
  /\ failed = "none"

-----------------------------------------------------------------------------
(* Helpers.                                                                *)

ConnsOf(functors) == {functors[i].task.conn : i \in DOMAIN functors}

\* The tasks that code running on loop l, as a handler or a functor, queues on
\* loop m: what EventLoop calls news.
NewsFor(l, origin, m, tasks) ==
  [k \in Loops |->
     IF k # m THEN <<>>
     ELSE [i \in DOMAIN tasks |->
             [by |-> IF k = l THEN origin ELSE "remote", task |-> tasks[i]]]]

World(c) ==
  [c |-> c, conn |-> conn[c], poller |-> poller[loop[c]], news |-> <<>>,
   timers |-> timers[loop[c]], map |-> map, served |-> server = "up", failed |-> "none"]

FailureOf(w) == IF w.failed # "none" THEN w.failed ELSE w.poller.failed

\* The effect of code that ran for connection w.c on loop l, other than its news.
CommitOn(l, w) ==
  /\ conn' = [conn EXCEPT ![w.c] = w.conn]
  /\ poller' = [poller EXCEPT ![l] = w.poller]
  /\ timers' = [timers EXCEPT ![l] = w.timers]
  /\ map' = w.map
  /\ failed' = FailureOf(w)

Commit(w) == CommitOn(loop[w.c], w)

FreeFd(f) == \A l \in Loops, c \in Conns : poller[l].fd[c] # f

Referenced(c) ==
  \/ c \in map
  \/ \E l \in Loops : c \in kept[l] \cup timers[l] \cup ConnsOf(pending[l])
  \/ \E t \in Threads : c \in held[t] \/ doing[t].conn = c

\* The connections that lose their last reference in this step are destroyed:
\* ~TcpConnection() wants them kDisconnected, and closes the descriptor.
DestroyUnreferenced(pollers) ==
  LET dead == {c \in Conns : life[c] = "live" /\ ~Referenced(c)'} IN
  /\ life' = [c \in Conns |-> IF c \in dead THEN "gone" ELSE life[c]]
  /\ poller' = [l \in Loops |-> CloseChannels(pollers[l], {c \in dead : loop[c] = l})]
  /\ failed' = IF \E c \in dead : conn'[c].state # "kDisconnected"
               THEN "~TcpConnection" ELSE failed

-----------------------------------------------------------------------------
(* The clients.                                                            *)

Connect(c) ==
  /\ life[c] = "none"
  /\ life' = [life EXCEPT ![c] = "backlog"]
  /\ UNCHANGED <<loopVars, objVars, loop, revents, next, kept, userVars, stopVars>>

\* The peer of an accepted connection sends something, closes, or resets.
Peer(c, op) ==
  /\ op \in PeerOps
  /\ life[c] = "live" /\ ~conn[c].sock.rst
  /\ op # "rst" => ~conn[c].sock.fin
  /\ conn' = [conn EXCEPT ![c].sock = CASE op = "data" -> [@ EXCEPT !.data = TRUE]
                                         [] op = "fin"  -> [@ EXCEPT !.fin = TRUE]
                                         [] op = "rst"  -> [@ EXCEPT !.rst = TRUE, !.err = TRUE]]
  /\ UNCHANGED <<loopVars, poller, timers, map, failed, life, loop, revents, next, kept,
                 userVars, stopVars>>

-----------------------------------------------------------------------------
(* The threads of the loops.                                               *)

\* The steps of loop() that call nothing.
LoopOnly(l) ==
  /\ EL!WhileTest(l) \/ EL!HandleWakeup(l)
  /\ UNCHANGED serverVars

\* The registrations of loop l for which epoll_wait() has events to report.
ReadyFds(l) ==
  {f \in Fd : /\ poller[l].epoll[f] # None
              /\ LET r == poller[l].epoll[f] IN Revents(conn[r.ptr], r.events) # {}}

\* epoll_wait() returns with whatever is ready, or when the time is out.
Poll(l) ==
  LET epoll     == poller[l].epoll
      ready     == {epoll[f].ptr : f \in ReadyFds(l)}
      events(c) == epoll[CHOOSE f \in ReadyFds(l) : epoll[f].ptr = c].events
  IN
  /\ EL!Poll(l, ready \cup
       (IF l = Base /\ \E c \in Conns : life[c] = "backlog" THEN {"listen"} ELSE {}))
  /\ revents' = [c \in Conns |->
       IF c \in ready
       THEN Revents(conn[c], events(c)) ELSE revents[c]]
  /\ failed' = IF \A f \in ReadyFds(l) : PointerIsValid(poller[l], f)
               THEN failed ELSE "fillActiveChannels"
  /\ UNCHANGED <<conn, poller, timers, map, life, loop, next, kept, userVars, stopVars>>

\* The user's connection callback gives the pointer it is called with to the
\* user's threads.
Publish(c) == held' = [t \in Threads |-> held[t] \cup {c}]

HandleConn(l, c, u, res) ==
  LET w == HandleEvent(World(c), revents[c], u, res) IN
  /\ EL!HandleEvent(l, c, NewsFor(l, "handler", l, w.news), {})
  /\ Commit(w)
  /\ revents' = [revents EXCEPT ![c] = {}]
  /\ UNCHANGED <<life, loop, next, kept, userVars, stopVars>>

\* Mutant: m_next does not go back to the first loop.
NextOf_NoWrap(n) == n + 1

\* EventLoopThreadPool::getNextLoop(): round-robin, or the loop of the Acceptor
\* if there are no threads.
NextOf(n) == IF Pool = <<>> THEN 0 ELSE (n + 1) % Len(Pool)

\* TcpServer::newConnection(): the connection is established at once if its
\* loop is the one that accepted it.
Accept(c, f, u, res) ==
  LET at    == IF Pool = <<>> THEN Base ELSE Pool[next + 1]
      fresh == [c |-> c, conn |-> NewConnection, poller |-> OpenChannel(poller[at], c, f),
                news |-> <<>>, timers |-> timers[at], map |-> map \cup {c},
                served |-> TRUE, failed |-> "none"]
      w     == IF at = Base THEN ConnectEstablished(fresh, u, res)
               ELSE QueueInLoop(fresh, "connectEstablished")
  IN
  /\ EL!HandleEvent(Base, "listen", NewsFor(Base, "handler", at, w.news), {})
  /\ life' = [life EXCEPT ![c] = "live"]
  /\ loop' = [loop EXCEPT ![c] = at]
  /\ CommitOn(at, w)
  /\ next' = NextOf(next)
  /\ IF at = Base THEN Publish(c) ELSE UNCHANGED held
  /\ UNCHANGED <<revents, kept, doing, stopVars>>

\* accept() fails with EMFILE, as it may at any time in a process that has other
\* files open: the client is accepted on the descriptor that was kept in
\* reserve, and closed.
Refuse(c) ==
  /\ EL!HandleEvent(Base, "listen", [l \in Loops |-> <<>>], {})
  /\ life' = [life EXCEPT ![c] = "gone"]
  /\ UNCHANGED <<objVars, loop, revents, next, kept, userVars, stopVars>>

\* accept() fails for another reason (ENFILE, ENOMEM): nothing is done, and the
\* client waits on.
AcceptFailed ==
  EL!HandleEvent(Base, "listen", [l \in Loops |-> <<>>], {}) /\ UNCHANGED serverVars

\* Acceptor::handleRead() accepts one client.
HandleListen ==
  \/ \E c \in Conns :
        /\ life[c] = "backlog"
        /\ \/ \E f \in Fd, u \in UserOp, res \in WriteResult : FreeFd(f) /\ Accept(c, f, u, res)
           \/ Refuse(c)
  \/ AcceptFailed

SwapPending(l) ==
  /\ EL!SwapPending(l)
  /\ kept' = [kept EXCEPT ![l] = ConnsOf(pending[l])]
  /\ UNCHANGED <<objVars, life, loop, revents, next, userVars, stopVars>>

RunFunctor(l, u, res) ==
  /\ batch[l] # <<>>
  /\ LET task == Head(batch[l]).task
         w    == RunTask(World(task.conn), task.fn, u, res)
     IN
     /\ EL!RunFunctor(l, NewsFor(l, "functor", l, w.news), {})
     /\ Commit(w)
     /\ IF task.fn = "connectEstablished" THEN Publish(task.conn) ELSE UNCHANGED held
  /\ UNCHANGED <<life, loop, revents, next, kept, doing, stopVars>>

\* The functors are destroyed when the whole batch has run, and with them the
\* pointers to connections that they bind.
EndFunctors(l) ==
  /\ EL!EndFunctors(l)
  /\ kept' = [kept EXCEPT ![l] = {}]
  /\ UNCHANGED <<conn, timers, map, loop, revents, next, userVars, stopVars>>
  /\ DestroyUnreferenced(poller)

-----------------------------------------------------------------------------
(* The user's threads.                                                     *)

\* The call goes past its test of m_state.
Passes(op, state) ==
  CASE op \in {"send", "shutdown"}       -> state = "kConnected"
    [] op \in {"forceClose", "forceCloseWithDelay"}
                                          -> state \in {"kConnected", "kDisconnecting"}
    [] op \in {"startRead", "stopRead"} -> TRUE

FnOf(op) ==
  CASE op = "send"                -> "sendInLoop"
    [] op = "shutdown"            -> "shutdownInLoop"
    [] op = "forceClose"          -> "forceCloseInLoop"
    [] op = "forceCloseWithDelay" -> "addTimerInLoop"
    [] op = "startRead"           -> "startReadInLoop"
    [] op = "stopRead"            -> "stopReadInLoop"

\* Thread t enters a member function of c and reads m_state.
EnterCall(t, c, op) ==
  /\ op \in ThreadOps
  /\ c \in held[t] /\ doing[t] = Idle /\ EL!Free(t)
  /\ Passes(op, conn[c].state)
  /\ doing' = [doing EXCEPT ![t] = [op |-> op, conn |-> c, stored |-> FALSE]]
  /\ UNCHANGED <<loopVars, objVars, life, loop, revents, next, kept, held, stopVars>>

\* It stores m_state, if the call does; a race with the thread of the loop.
StoreState(t) ==
  /\ doing[t] # Idle /\ ~doing[t].stored
  /\ conn' = IF doing[t].op \in {"shutdown", "forceClose", "forceCloseWithDelay"}
             THEN [conn EXCEPT ![doing[t].conn].state = "kDisconnecting"] ELSE conn
  /\ doing' = [doing EXCEPT ![t].stored = TRUE]
  /\ UNCHANGED <<loopVars, poller, timers, map, failed, life, loop, revents, next, kept,
                 held, stopVars>>

\* It queues the functor.
FinishCall(t) ==
  /\ doing[t].stored
  /\ LET c == doing[t].conn IN
     /\ Len(pending[loop[c]]) < MaxRemote
     /\ EL!QueueInLoop(t, loop[c], [fn |-> FnOf(doing[t].op), conn |-> c])
  /\ doing' = [doing EXCEPT ![t] = Idle]
  /\ UNCHANGED <<objVars, life, loop, revents, next, kept, held, stopVars>>

\* Thread t drops its pointer to c.
Release(t, c) ==
  /\ c \in held[t] /\ doing[t] = Idle
  /\ held' = [held EXCEPT ![t] = @ \ {c}]
  /\ UNCHANGED <<loopVars, conn, timers, map, loop, revents, next, kept, doing, stopVars>>
  /\ DestroyUnreferenced(poller)

-----------------------------------------------------------------------------
(* The end of the server, on the thread of the Acceptor's loop.            *)

\* quit() of the Acceptor's loop, by a thread of the user or by a callback on
\* the loop's own thread.
QuitBase ==
  /\ Stops /\ looping[Base]
  /\ \/ \E t \in Threads : EL!Quit(t, Base)
     \/ /\ phase[Base] \in {"events", "functors"} /\ EL!Free(Base)
        /\ looping' = [looping EXCEPT ![Base] = FALSE]
        /\ UNCHANGED <<phase, pending, batch, calling, active, eventfd, toWake>>
  /\ UNCHANGED serverVars

\* Mutant: connectDestroyed() is queued also for a connection of this loop.
DropHere_Queued(c, u, res) ==
  /\ loop[c] = Base
  /\ EL!QueueInLoop(Base, Base, [fn |-> "connectDestroyed", conn |-> c])
  /\ map' = map \ {c}
  /\ UNCHANGED <<conn, poller, timers, failed, life, kept, userVars>>

\* ~TcpServer() drops a connection of its own loop: connectDestroyed() runs at
\* once.  It leaves the connection kDisconnected before it calls the user, so
\* that the callback queues nothing.
DropHere(c, u, res) ==
  LET w == ConnectDestroyed([World(c) EXCEPT !.map = @ \ {c}], u, res) IN
  /\ loop[c] = Base
  /\ conn' = [conn EXCEPT ![c] = w.conn]
  /\ map' = w.map
  /\ UNCHANGED <<loopVars, timers, kept, userVars>>
  /\ IF FailureOf(w) = "none"
     THEN DestroyUnreferenced([poller EXCEPT ![Base] = w.poller])
     ELSE failed' = FailureOf(w) /\ UNCHANGED <<poller, life>>

\* It drops a connection of another loop: connectDestroyed() is queued there.
DropThere(c) ==
  /\ loop[c] # Base
  /\ EL!QueueInLoop(Base, loop[c], [fn |-> "connectDestroyed", conn |-> c])
  /\ map' = map \ {c}
  /\ UNCHANGED <<conn, poller, timers, failed, life, kept, userVars>>

DropConnection(c, u, res) ==
  /\ phase[Base] = "exited" /\ c \in map
  /\ DropHere(c, u, res) \/ DropThere(c)
  /\ dropped' = dropped \cup {c}
  /\ UNCHANGED <<loop, revents, next, server>>

\* The body of ~TcpServer() is over, and m_connections is destroyed.
EndBody ==
  /\ phase[Base] = "exited" /\ server = "up" /\ map = {} /\ EL!Free(Base)
  /\ server' = "ending"
  /\ UNCHANGED <<loopVars, objVars, life, loop, revents, next, kept, userVars, dropped>>

PoolExited == \A i \in DOMAIN Pool : phase[Pool[i]] = "exited"

\* Mutant: a thread is joined that was not told to quit.
StopThread_JoinsOnly == server = "ending" /\ ~PoolExited /\ UNCHANGED vars

\* The threads of the pool are stopped, each told to quit and joined.
StopThread ==
  /\ server = "ending" /\ ~PoolExited
  /\ \E i \in DOMAIN Pool :
        /\ phase[Pool[i]] # "exited"
        /\ \A j \in 1 .. i - 1 : phase[Pool[j]] = "exited"
        /\ looping[Pool[i]] /\ EL!Quit(Base, Pool[i])
  /\ UNCHANGED serverVars

EndServer ==
  /\ server = "ending" /\ PoolExited
  /\ server' = "gone"
  /\ UNCHANGED <<loopVars, objVars, life, loop, revents, next, kept, userVars, dropped>>

StopStep ==
  \/ \E c \in Conns, u \in UserOp, res \in WriteResult : DropConnection(c, u, res)
  \/ EndBody
  \/ StopThread
  \/ EndServer

-----------------------------------------------------------------------------

Wakeup(t) == (\E l \in Loops : EL!Wakeup(t, l)) /\ UNCHANGED serverVars

LoopStep(l) ==
  \/ LoopOnly(l)
  \/ Poll(l)
  \/ \E c \in Conns, u \in UserOp, res \in WriteResult : HandleConn(l, c, u, res)
  \/ l = Base /\ HandleListen
  \/ SwapPending(l)
  \/ \E u \in UserOp, res \in WriteResult : RunFunctor(l, u, res)
  \/ EndFunctors(l)

Next ==
  /\ failed = "none"
  /\ \/ \E c \in Conns : Connect(c) \/ \E op \in PeerOps : Peer(c, op)
     \/ \E l \in Loops : LoopStep(l)
     \/ \E t \in Loops \cup Threads : Wakeup(t)
     \/ QuitBase \/ StopStep
     \/ \E t \in Threads : StoreState(t) \/ FinishCall(t)
     \/ \E t \in Threads, c \in Conns : Release(t, c) \/ \E op \in ThreadOps : EnterCall(t, c, op)

SafeSpec == Init /\ [][Next]_vars

(***************************************************************************)
(* The threads of the loops keep going: handlers, functors and wakeup()    *)
(* return, and epoll_wait() returns within kPollTimeMs; and the thread     *)
(* that left the loop of the Acceptor destroys the server.  Nothing is     *)
(* assumed of the peers, of the user's threads, nor of when they drop the  *)
(* pointers they hold or tell the loop to quit.                            *)
(***************************************************************************)
Spec == /\ SafeSpec
        /\ \A l \in Loops : WF_vars(failed = "none" /\ (LoopStep(l) \/ Wakeup(l)))
        /\ WF_vars(failed = "none" /\ StopStep)

\* Moreover the peers read: of a connection that is reported writable again and
\* again, write(2) takes all there is to write in the end.
WritesSpec ==
  /\ Spec
  /\ \A c \in Conns :
       SF_vars(/\ failed = "none" /\ "OUT" \in revents[c]
               /\ \E l \in Loops, u \in UserOp : HandleConn(l, c, u, "all"))

-----------------------------------------------------------------------------
(* Properties.                                                             *)

\* What a connection has come to, for its user.
Stage(c) ==
  CASE life[c] = "none"    -> "unknown"
    [] life[c] = "backlog" -> "waiting"
    [] life[c] = "gone"    -> "gone"
    [] life[c] = "live"    ->
         CASE conn[c].state = "kConnecting"    -> "opening"
           [] conn[c].state = "kConnected"     -> "up"
           [] conn[c].state = "kDisconnecting" -> "closing"
           [] conn[c].state = "kDisconnected"  -> "down"

\* No assert() fails, of handleClose(), connectEstablished() and
\* ~TcpConnection() on m_state, and of the poller on the channels it is given,
\* and no close callback comes to a server that is no more, whatever callbacks,
\* peers and threads do and in whatever order; unless ~TcpServer() found a
\* connection that it cannot drop in good order: one that the user had begun to
\* close, or one that belongs to a loop which is still running.
FailsOnlyAtStop ==
  failed # "none" =>
     \E c \in dropped : loop[c] # Base \/ conn[c].state = "kDisconnecting"

\* removeChannel() finds a channel of the poller that has no events enabled, as
\* its asserts want: connectDestroyed() has disabled it.
RemovedWhenDisabled == failed # "removeChannel"

\* ~TcpConnection() finds the connection in kDisconnected, as its assert wants.
DestroyedWhenDown == failed # "~TcpConnection"

\* handleClose() finds the connection in kConnected or kDisconnecting, as its
\* assert wants: no connection is closed twice.
ClosedOnce == failed # "handleClose"

\* The raw Channel pointers that the kernel and the poller of a loop hold, and
\* those in its m_activeChannels, are pointers to channels of connections that
\* exist and belong to the loop (the code has no tie() to keep them alive).
NoDanglingChannel ==
  \A l \in Loops :
     /\ \A f \in Fd : PointersOwned(poller[l], f)
     /\ \A c \in active[l] \cap Conns : life[c] = "live" /\ loop[c] = l

\* A connection that was closed has no events enabled and is not registered
\* with the kernel: it gets no event between handleClose() and
\* connectDestroyed(), which would be a second handleClose().
ClosedIsSilent ==
  \A c \in Conns : Stage(c) = "down" =>
     LET p == poller[loop[c]] IN
     p.events[c] = {} /\ \A f \in Fd : p.epoll[f] = None \/ p.epoll[f].ptr # c

\* m_connections holds exactly the connections that were accepted and not
\* closed, until ~TcpServer() drops them.
MapIsLive ==
  \A c \in Conns :
     c \in map <=> c \notin dropped /\ Stage(c) \in {"opening", "up", "closing"}

\* A closed connection still in the poller's map has one connectDestroyed()
\* to come, and no other connection has any: the channel is removed once.
RemovedOnce ==
  \A c \in Conns :
     LET queue  == batch[loop[c]] \o pending[loop[c]]
         coming == {i \in DOMAIN queue :
                      queue[i].task = [fn |-> "connectDestroyed", conn |-> c]}
     IN  IF Stage(c) = "down" /\ poller[loop[c]].index[c] # "new"
         THEN \E i \in DOMAIN queue : coming = {i} ELSE coming = {}

\* Each connection goes through the stages of ConnectionLife, in their order.
CL == INSTANCE ConnectionLife WITH stage <- [c \in Conns |-> Stage(c)]

LifeCycle == CL!Spec

\* The map of the server is only touched by the thread of the Acceptor's loop,
\* which is what the assert of removeConnectionInLoop() asks for.
MapOwnedByBase ==
  [][map' # map => active'[Base] # active[Base] \/ batch'[Base] # batch[Base]]_vars

\* The thread of the loop of c is no longer there to do anything for it.
Abandoned(c) == phase[loop[c]] = "exited" \/ failed # "none"

ToBeClosed(c) ==
  \/ Stage(c) \in {"up", "closing"} /\ (conn[c].sock.fin \/ conn[c].sock.rst)
  \/ \E l \in Loops : \E i \in DOMAIN pending[l] :
        pending[l][i].task = [fn |-> "forceCloseInLoop", conn |-> c]

\* A thread of the user has a pointer to c, or a forceCloseWithDelay() left one
\* to a timer.
KeptByUser(c) == c \in timers[loop[c]] \/ \E t \in Threads : c \in held[t] \/ doing[t].conn = c

\* A connection whose peer closes or resets it, or which a queued forceClose() is
\* to close, is closed, the user is told, and it is destroyed unless the user
\* still keeps it; and so is, in the end, a closed connection that the user no
\* longer keeps.
CloseIsCarriedThrough ==
  \A c \in Conns :
     (ToBeClosed(c) \/ Stage(c) = "down")
       ~> (Stage(c) = "gone" \/ (Stage(c) = "down" /\ KeptByUser(c)) \/ Abandoned(c))

\* ~TcpServer() comes to its end, with every thread of the pool joined, however
\* the loops, the connections and the threads of the user stand when the loop
\* of the Acceptor is told to quit.
StopEnds == (~looping[Base]) ~> (server = "gone" \/ failed # "none")

\* When the server is gone, no connection of its own loop is left open: the user
\* was told that it is down.
NoneLeftOpen ==
  server = "gone" => \A c \in Conns : loop[c] = Base => Stage(c) \notin {"opening", "up", "closing"}

\* What send() buffered is written in the end, unless the connection closes.
OutputIsWritten ==
  \A c \in Conns :
     (Stage(c) = "up" /\ conn[c].out > 0) ~> (conn[c].out = 0 \/ Stage(c) # "up")
=============================================================================
