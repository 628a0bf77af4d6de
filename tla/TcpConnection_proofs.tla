------------------------ MODULE TcpConnection_proofs ------------------------
(***************************************************************************)
(* Lemmas about TcpConnection: what each of its member functions makes of  *)
(* a world, as one of five relations between the world before and the one  *)
(* after.  They hold for users who do not start or stop reading: what      *)
(* these can do to a connection that is closed is among the findings.      *)
(***************************************************************************)
EXTENDS TcpConnection, PollerOps_proofs

\* What a user may call who leaves reading alone.
QuietOp == Op \ {"startRead", "stopRead"}

QuietCallbacks == \A cb \in UserCallback : UserOps[cb] \subseteq QuietOp \X QuietOp

Failure == {"none", "connectEstablished", "handleClose", "removeConnection"}

WorldType ==
  [c : Channel, conn : Connection, poller : PollerType, news : Seq([fn : Fn, conn : Channel]),
   timers : SUBSET Channel, map : SUBSET Channel, served : BOOLEAN, failed : Failure]

\* The tasks that c may queue at any time, without opening or closing anything.
SmallTask(c) ==
  [fn : Fn \ {"connectEstablished", "connectDestroyed", "startReadInLoop", "stopReadInLoop"},
   conn : {c}]

\* The channel of c is enabled for reading, and registered with the kernel,
\* while the connection is open, and not otherwise; its poller does not know it
\* before.
ChannelInStep(state, p, c) ==
  /\ p.events[c] = IF state \in {"kConnected", "kDisconnecting"} THEN {"read"} ELSE {}
  /\ state \in {"kConnected", "kDisconnecting"} <=> p.index[c] = "added"
  /\ state = "kConnecting" => p.index[c] = "new"

Proper(w) ==
  /\ w \in WorldType
  /\ w.failed = "none" /\ Sound(w.poller) /\ w.poller.fd[w.c] # None
  /\ ChannelInStep(w.conn.state, w.poller, w.c)

\* From w to v the connection was neither opened nor closed, though its user may
\* have begun to close it.
Minor(w, v) ==
  /\ v \in WorldType
  /\ v.c = w.c /\ v.poller = w.poller /\ v.map = w.map
  /\ v.served = w.served /\ v.failed = w.failed
  /\ v.timers \in {w.timers, w.timers \cup {w.c}}
  /\ v.conn.state = w.conn.state \/ (IsOpen(w) /\ v.conn.state = "kDisconnecting")
  /\ w.news \in Seq(SmallTask(w.c)) => v.news \in Seq(SmallTask(w.c))

-----------------------------------------------------------------------------

LEMMA MinorIsReflexive ==
  ASSUME NEW w \in WorldType
  PROVE  Minor(w, w)
BY DEF Minor

LEMMA MinorIsTransitive ==
  ASSUME NEW w, NEW v, NEW x, Minor(w, v), Minor(v, x)
  PROVE  Minor(w, x)
BY DEF Minor, IsOpen

LEMMA SetStateMinor ==
  ASSUME NEW w \in WorldType, IsOpen(w)
  PROVE  Minor(w, SetState(w, "kDisconnecting"))
BY DEF Minor, SetState, WorldType, Connection, State

LEMMA QueueMinor ==
  ASSUME NEW w \in WorldType,
         NEW fn \in Fn \ {"connectEstablished", "connectDestroyed", "startReadInLoop",
                          "stopReadInLoop"}
  PROVE  Minor(w, QueueInLoop(w, fn))
<1> DEFINE task == [fn |-> fn, conn |-> w.c]
<1>1. QueueInLoop(w, fn) = [w EXCEPT !.news = Append(w.news, task)]
  BY DEF QueueInLoop
<1>2. task \in SmallTask(w.c) /\ task \in [fn : Fn, conn : Channel]
  BY DEF WorldType, SmallTask
<1>3. w.news \in Seq([fn : Fn, conn : Channel])
  BY DEF WorldType
<1>4. Append(w.news, task) \in Seq([fn : Fn, conn : Channel])
  BY <1>2, <1>3
<1>5. w.news \in Seq(SmallTask(w.c)) => Append(w.news, task) \in Seq(SmallTask(w.c))
  BY <1>2
<1> HIDE DEF task
<1> QED BY <1>1, <1>4, <1>5 DEF Minor, WorldType

LEMMA TakeErrorMinor ==
  ASSUME NEW w \in WorldType
  PROVE  Minor(w, TakeError(w))
BY DEF Minor, TakeError, WorldType, Connection, Socket

LEMMA BufferOutputMinor ==
  ASSUME NEW w \in WorldType, ~Writing(w)
  PROVE  Minor(w, BufferOutput(w))
<1> DEFINE marked == IF w.conn.out + 1 >= HighWaterMark
                     THEN QueueInLoop(w, "highWaterMarkCallback") ELSE w
           added  == [marked EXCEPT !.conn.out = IF @ < MaxOut THEN @ + 1 ELSE @]
<1>1. Minor(w, marked)
  BY QueueMinor, MinorIsReflexive DEF Fn
<1>2. marked \in WorldType
  BY <1>1 DEF Minor
<1> HIDE DEF marked
<1>3. Minor(marked, added)
  <2>1. marked.conn.out \in 0 .. MaxOut
    BY <1>2 DEF WorldType, Connection
  <2> DEFINE out == IF marked.conn.out < MaxOut THEN marked.conn.out + 1 ELSE marked.conn.out
  <2>2. out \in 0 .. MaxOut
    BY <2>1, ConnectionAssumption
  <2>3. added = [marked EXCEPT !.conn.out = out]
    BY <1>2
  <2> HIDE DEF out
  <2> QED BY <1>2, <2>2, <2>3 DEF Minor, WorldType, Connection
<1> HIDE DEF added
<1>4. ~Writing(added)
  BY <1>1, <1>3 DEF Minor, Writing
<1>5. BufferOutput(w) = added
  BY <1>4 DEF BufferOutput, added, marked
<1> QED BY <1>1, <1>3, <1>5, MinorIsTransitive

LEMMA SendInLoopMinor ==
  ASSUME NEW w \in WorldType, ~Writing(w), NEW res \in WriteResult
  PROVE  Minor(w, SendInLoop(w, res))
<1>1. w.conn.sock \in Socket
  BY DEF WorldType, Connection
<1>2. SendInLoop(w, res) \in {w, BufferOutput(w), TakeError(w),
                              QueueInLoop(w, "writeCompleteCallback")}
  BY <1>1 DEF SendInLoop, WriteResult, Socket
<1> QED BY <1>2, MinorIsReflexive, BufferOutputMinor, TakeErrorMinor, QueueMinor DEF Fn

\* The calls of the user, whatever the state of the connection.
LEMMA CallMinor ==
  ASSUME NEW w \in WorldType, ~Writing(w), NEW res \in WriteResult, NEW op \in QuietOp
  PROVE  Minor(w, Call(w, op, res))
<1>1. CASE op = "none"
  BY <1>1, MinorIsReflexive DEF Call
<1>2. CASE op = "send"
  BY <1>2, MinorIsReflexive, SendInLoopMinor DEF Call, Send
<1> DEFINE v == SetState(w, "kDisconnecting")
<1>3. ASSUME IsOpen(w) PROVE Minor(w, v) /\ v \in WorldType /\ ~Writing(v)
  BY <1>3, SetStateMinor DEF Minor, Writing
<1>4. w.conn.state = "kConnected" => IsOpen(w)
  BY DEF IsOpen
<1> HIDE DEF v
<1>5. CASE op = "shutdown"
  BY <1>3, <1>4, <1>5, MinorIsReflexive DEF Call, Shutdown, ShutdownInLoop, v
<1>6. CASE op = "forceClose"
  <2>1. IsOpen(w) => Minor(w, QueueInLoop(v, "forceCloseInLoop"))
    BY <1>3, QueueMinor, MinorIsTransitive DEF Fn
  <2> QED BY <1>6, <2>1, MinorIsReflexive DEF Call, ForceClose, v
<1>7. CASE op = "forceCloseWithDelay"
  <2>1. IsOpen(w) => Minor(w, AddTimer(v))
    <3>1. IsOpen(w) => Minor(v, AddTimer(v))
      BY <1>3 DEF Minor, AddTimer, WorldType
    <3> QED BY <1>3, <3>1, MinorIsTransitive
  <2> QED BY <1>7, <2>1, MinorIsReflexive DEF Call, ForceCloseWithDelay, v
<1> QED BY <1>1, <1>2, <1>5, <1>6, <1>7 DEF QuietOp, Op

LEMMA CallbackMinor ==
  ASSUME QuietCallbacks, NEW w \in WorldType, ~Writing(w), NEW res \in WriteResult,
         NEW cb \in UserCallback, NEW u
  PROVE  Minor(w, Callback(w, cb, u, res))
<1>1. CASE u \in UserOps[cb]
  <2>1. u[1] \in QuietOp /\ u[2] \in QuietOp
    BY <1>1 DEF QuietCallbacks
  <2> DEFINE v == Call(w, u[1], res)
  <2>2. Minor(w, v)
    BY <2>1, CallMinor
  <2>3. v \in WorldType /\ ~Writing(v)
    BY <2>2 DEF Minor, Writing
  <2> HIDE DEF v
  <2>4. Minor(v, Call(v, u[2], res))
    BY <2>1, <2>3, CallMinor
  <2>5. Minor(w, Call(v, u[2], res))
    BY <2>2, <2>4, MinorIsTransitive
  <2> QED BY <1>1, <2>5 DEF Callback, v
<1>2. CASE u \notin UserOps[cb]
  BY <1>2, MinorIsReflexive DEF Callback
<1> QED BY <1>1, <1>2

-----------------------------------------------------------------------------

DestroyTask(c) == [fn |-> "connectDestroyed", conn |-> c]

\* From w to v nothing changed but what only concerns c and its channel.
OnlyItsOwn(w, v) ==
  /\ v \in WorldType
  /\ v.c = w.c /\ v.served = w.served
  /\ v.timers \in {w.timers, w.timers \cup {w.c}}
  /\ v.poller.fd = w.poller.fd
  /\ OnlyChanges(w.c, w.poller, v.poller)
  /\ \A f \in Fd : PointersOwned(v.poller, f)

\* handleClose(), of a server that exists or of one that does not.
Closing(w, v) ==
  /\ OnlyItsOwn(w, v)
  /\ IsOpen(w) /\ v.conn.state = "kDisconnected"
  /\ Sound(v.poller) /\ ChannelInStep("kDisconnected", v.poller, v.c)
  /\ v.poller.index[v.c] # "new"
  /\ \/ /\ w.served /\ v.failed = "none" /\ v.map = w.map \ {w.c}
        /\ \E news \in Seq(SmallTask(w.c)) : v.news = Append(news, DestroyTask(w.c))
     \/ /\ ~w.served /\ v.failed = "removeConnection" /\ v.map = w.map
        /\ v.news \in Seq(SmallTask(w.c))

\* connectEstablished().
Opening(w, v) ==
  /\ OnlyItsOwn(w, v)
  /\ w.conn.state = "kConnecting" /\ v.conn.state \in {"kConnected", "kDisconnecting"}
  /\ Sound(v.poller) /\ ChannelInStep(v.conn.state, v.poller, v.c)
  /\ v.failed = "none" /\ v.map = w.map /\ v.news \in Seq(SmallTask(w.c))

\* connectDestroyed().
Destroying(w, v) ==
  /\ OnlyItsOwn(w, v)
  /\ w.conn.state \in {"kConnected", "kDisconnected"} /\ v.conn.state = "kDisconnected"
  /\ w.poller.index[w.c] # "new"
  /\ Sound(v.poller) /\ ChannelInStep("kDisconnected", v.poller, v.c)
  /\ v.poller.index[v.c] = "new"
  /\ v.failed = "none" /\ v.map = w.map /\ v.news \in Seq(SmallTask(w.c))

\* An assert fails, of connectEstablished() or of removeChannel().
Failing(w, v) ==
  /\ OnlyItsOwn(w, v)
  /\ v.conn = w.conn /\ v.map = w.map /\ v.news = w.news
  /\ v.poller.events = w.poller.events /\ v.poller.index = w.poller.index
  /\ v.poller.epoll = w.poller.epoll
  /\ v.failed # "none" \/ v.poller.failed # "none"

\* When connectDestroyed() cannot remove the channel.
CannotRemove(w) ==
  \/ w.conn.state \in {"kConnecting", "kDisconnecting"}
  \/ w.conn.state = "kDisconnected" /\ w.poller.index[w.c] = "new"

-----------------------------------------------------------------------------

LEMMA NotWriting ==
  ASSUME NEW w, Proper(w)
  PROVE  ~Writing(w)
BY DEF Proper, ChannelInStep, Writing, IsWriting

\* The first half of handleClose(), of connectEstablished() and of
\* connectDestroyed(): the state, the events of the channel, and the callback.
Switch(w, state, events) ==
  [SetState(w, state) EXCEPT !.poller = SetEvents(w.poller, w.c, events)]

\* What that makes of the world.
Switched(w, state, v) ==
  /\ OnlyItsOwn(w, v)
  /\ \/ v.conn.state = state
     \/ state \in {"kConnected", "kDisconnecting"} /\ v.conn.state = "kDisconnecting"
  /\ Sound(v.poller) /\ ChannelInStep(v.conn.state, v.poller, v.c)
  /\ v.poller.index[v.c] # "new"
  /\ v.failed = "none" /\ v.map = w.map /\ v.news \in Seq(SmallTask(w.c))

LEMMA SwitchChannel ==
  ASSUME QuietCallbacks, NEW w, Proper(w), w.news \in Seq(SmallTask(w.c)),
         NEW state \in State \ {"kConnecting"}, NEW events \in SUBSET Interest,
         events = IF state = "kDisconnected" THEN {} ELSE {"read"},
         state = "kDisconnected" => IsOpen(w),
         NEW cb \in UserCallback, NEW u, NEW res \in WriteResult
  PROVE  Switched(w, state, Callback(Switch(w, state, events), cb, u, res))
<1> DEFINE p == SetEvents(w.poller, w.c, events)
           y == SetState(w, state)
           x == Switch(w, state, events)
           v == Callback(x, cb, u, res)
<1>1. w \in WorldType /\ Sound(w.poller) /\ w.c \in Channel /\ w.poller.fd[w.c] # None
  BY DEF Proper, WorldType
<1>2. /\ Sound(p) /\ p.fd = w.poller.fd /\ OnlyChanges(w.c, w.poller, p)
      /\ p.events[w.c] = events
      /\ p.index[w.c] = IF w.poller.index[w.c] = "added" /\ events = {}
                        THEN "deleted" ELSE "added"
  BY <1>1, SetEventsSound
<1>3. x = [y EXCEPT !.poller = p]
  BY DEF Switch
<1> HIDE DEF p
<1>4. p \in PollerType /\ \A f \in Fd : PointersOwned(p, f)
  BY <1>2 DEF Sound
<1>5. /\ y \in WorldType /\ y.conn.state = state
      /\ y.c = w.c /\ y.served = w.served /\ y.timers = w.timers /\ y.map = w.map
      /\ y.news = w.news /\ y.failed = w.failed
  BY <1>1 DEF SetState, WorldType, Connection
<1> HIDE DEF x, y
<1>6. /\ x \in WorldType /\ x.conn = y.conn /\ x.poller = p
      /\ x.c = y.c /\ x.served = y.served /\ x.timers = y.timers /\ x.map = y.map
      /\ x.news = y.news /\ x.failed = y.failed
  BY <1>3, <1>4, <1>5 DEF WorldType
<1>7. ~Writing(x)
  BY <1>2, <1>5, <1>6 DEF Writing, IsWriting
<1>8. Minor(x, v)
  BY <1>6, <1>7, CallbackMinor
<1> HIDE DEF v
<1>9. w.failed = "none"
  BY DEF Proper
<1>10. /\ v.poller = p /\ v.c = w.c /\ v.failed = "none" /\ v.map = w.map
       /\ v \in WorldType /\ v.served = w.served /\ v.news \in Seq(SmallTask(w.c))
       /\ v.timers \in {w.timers, w.timers \cup {w.c}}
  BY <1>5, <1>6, <1>8, <1>9 DEF Minor
<1>11. \/ v.conn.state = state
       \/ state \in {"kConnected", "kDisconnecting"} /\ v.conn.state = "kDisconnecting"
  BY <1>5, <1>6, <1>8 DEF Minor, IsOpen
<1>12. ChannelInStep(v.conn.state, v.poller, v.c)
  <2>1. state = "kDisconnected" => w.poller.index[w.c] = "added"
    BY DEF IsOpen, Proper, ChannelInStep
  <2> QED BY <1>2, <1>10, <1>11, <2>1 DEF ChannelInStep, State
<1>13. OnlyItsOwn(w, v)
  BY <1>2, <1>4, <1>10 DEF OnlyItsOwn
<1> QED BY <1>2, <1>10, <1>11, <1>12, <1>13 DEF Switched, v, x

\* TcpServer::removeConnection(), of a connection that is down.
LEMMA RemoveConnectionFields ==
  ASSUME NEW y \in WorldType, y.failed = "none"
  PROVE  LET v == RemoveConnection(y) IN
         /\ v \in WorldType /\ v.c = y.c /\ v.served = y.served /\ v.timers = y.timers
         /\ v.poller = y.poller /\ v.conn = y.conn
         /\ y.served  => /\ v.failed = "none" /\ v.map = y.map \ {y.c}
                         /\ v.news = Append(y.news, DestroyTask(y.c))
         /\ ~y.served => v.failed = "removeConnection" /\ v.map = y.map /\ v.news = y.news
<1> DEFINE v == RemoveConnection(y)
<1>1. CASE ~y.served
  <2>1. v = [y EXCEPT !.failed = "removeConnection"]
    BY <1>1 DEF RemoveConnection, Fail
  <2> HIDE DEF v
  <2> QED BY <1>1, <2>1 DEF WorldType, Failure, v
<1>2. CASE y.served
  <2> DEFINE x == [y EXCEPT !.map = y.map \ {y.c}]
             news == Append(x.news, DestroyTask(x.c))
  <2>1. v = [x EXCEPT !.news = news]
    BY <1>2 DEF RemoveConnection, QueueInLoop, DestroyTask
  <2>2. /\ x \in WorldType /\ x.c = y.c /\ x.served = y.served /\ x.timers = y.timers
        /\ x.poller = y.poller /\ x.conn = y.conn /\ x.failed = y.failed
        /\ x.map = y.map \ {y.c} /\ x.news = y.news
    BY DEF WorldType
  <2> HIDE DEF x
  <2>3. news \in Seq([fn : Fn, conn : Channel])
    BY <2>2 DEF WorldType, DestroyTask, Fn
  <2>4. news = Append(y.news, DestroyTask(y.c))
    BY <2>2
  <2> HIDE DEF news, v
  <2>5. /\ v \in WorldType /\ v.c = x.c /\ v.served = x.served /\ v.timers = x.timers
        /\ v.poller = x.poller /\ v.conn = x.conn /\ v.failed = x.failed
        /\ v.map = x.map /\ v.news = news
    BY <2>1, <2>2, <2>3 DEF WorldType
  <2> QED BY <1>2, <2>2, <2>4, <2>5 DEF v
<1> QED BY <1>1, <1>2

LEMMA HandleCloseCloses ==
  ASSUME QuietCallbacks, NEW w, Proper(w), w.news \in Seq(SmallTask(w.c)), IsOpen(w),
         NEW u, NEW res \in WriteResult
  PROVE  Closing(w, HandleClose(w, u, res))
<1> DEFINE x == Switch(w, "kDisconnected", {})
           y == Callback(x, "down", u, res)
           v == RemoveConnection(y)
<1>1. HandleClose(w, u, res) = v
  <2>1. OnChannel(SetState(w, "kDisconnected"), DisableAll) = x
    BY DEF OnChannel, DisableAll, SetState, Proper, WorldType, Switch
  <2> QED BY <2>1 DEF HandleClose
<1>2. Switched(w, "kDisconnected", y)
  BY SwitchChannel DEF State, Interest, UserCallback
<1> HIDE DEF y
<1>3. /\ y \in WorldType /\ y.c = w.c /\ y.served = w.served /\ OnlyItsOwn(w, y)
      /\ y.failed = "none" /\ y.conn.state = "kDisconnected"
  BY <1>2 DEF Switched, OnlyItsOwn
<1>4. /\ v \in WorldType /\ v.c = y.c /\ v.served = y.served /\ v.timers = y.timers
      /\ v.poller = y.poller /\ v.conn = y.conn
      /\ y.served  => /\ v.failed = "none" /\ v.map = y.map \ {y.c}
                      /\ v.news = Append(y.news, DestroyTask(y.c))
      /\ ~y.served => v.failed = "removeConnection" /\ v.map = y.map /\ v.news = y.news
  BY <1>3, RemoveConnectionFields
<1> HIDE DEF v
<1>5. OnlyItsOwn(w, v)
  BY <1>3, <1>4 DEF OnlyItsOwn
<1>6. v.served \in BOOLEAN
  BY <1>4 DEF WorldType
<1>7. Closing(w, v)
  BY <1>2, <1>3, <1>4, <1>5, <1>6 DEF Closing, Switched
<1> QED BY <1>1, <1>7

LEMMA ConnectEstablishedOpens ==
  ASSUME QuietCallbacks, NEW w, Proper(w), w.news \in Seq(SmallTask(w.c)),
         NEW u, NEW res \in WriteResult
  PROVE  IF w.conn.state = "kConnecting" THEN Opening(w, ConnectEstablished(w, u, res))
         ELSE Failing(w, ConnectEstablished(w, u, res))
<1> DEFINE v == ConnectEstablished(w, u, res)
<1>1. w \in WorldType /\ Sound(w.poller) /\ w.failed = "none"
  BY DEF Proper
<1>2. CASE w.conn.state = "kConnecting"
  <2> DEFINE x == Switch(w, "kConnected", {"read"})
  <2>1. w.poller.events[w.c] = {}
    BY <1>2 DEF Proper, ChannelInStep
  <2>2. OnChannel(SetState(w, "kConnected"), EnableReading) = x
    BY <2>1 DEF OnChannel, EnableReading, SetState, Proper, WorldType, Switch
  <2>3. v = Callback(x, "up", u, res)
    BY <1>2, <2>2 DEF ConnectEstablished
  <2>4. Switched(w, "kConnected", v)
    BY <2>3, SwitchChannel DEF State, Interest, UserCallback
  <2> HIDE DEF v
  <2>5. Opening(w, v)
    BY <1>2, <2>4 DEF Switched, Opening
  <2> QED BY <1>2, <2>5 DEF v
<1>3. CASE w.conn.state # "kConnecting"
  <2>1. v = [w EXCEPT !.failed = "connectEstablished"]
    BY <1>3 DEF ConnectEstablished, Fail
  <2> HIDE DEF v
  <2>2. /\ v \in WorldType /\ v.c = w.c /\ v.served = w.served /\ v.timers = w.timers
        /\ v.poller = w.poller /\ v.conn = w.conn /\ v.map = w.map /\ v.news = w.news
        /\ v.failed # "none"
    BY <1>1, <2>1 DEF WorldType, Failure
  <2>3. OnlyItsOwn(w, v)
    BY <1>1, <2>2 DEF OnlyItsOwn, OnlyChanges, Sound
  <2> QED BY <1>3, <2>2, <2>3 DEF Failing, v
<1> QED BY <1>2, <1>3

LEMMA ConnectDestroyedDestroys ==
  ASSUME QuietCallbacks, NEW w, Proper(w), w.news \in Seq(SmallTask(w.c)),
         NEW u, NEW res \in WriteResult
  PROVE  IF CannotRemove(w) THEN Failing(w, ConnectDestroyed(w, u, res))
         ELSE Destroying(w, ConnectDestroyed(w, u, res))
<1> DEFINE v == ConnectDestroyed(w, u, res)
           x == Switch(w, "kDisconnected", {})
           y == IF w.conn.state = "kConnected" THEN Callback(x, "down", u, res) ELSE w
           p == RemoveChannel(y.poller, w.c)
<1>1. /\ w \in WorldType /\ Sound(w.poller) /\ w.failed = "none"
      /\ w.c \in Channel /\ w.poller.fd[w.c] # None
      /\ ChannelInStep(w.conn.state, w.poller, w.c)
  BY DEF Proper, WorldType
<1>2. v = [y EXCEPT !.poller = RemoveChannel(y.poller, y.c)]
  <2>1. OnChannel(SetState(w, "kDisconnected"), DisableAll) = x
    BY DEF OnChannel, DisableAll, SetState, Proper, WorldType, Switch
  <2>2. v = OnChannel(y, RemoveChannel)
    BY <2>1 DEF ConnectDestroyed
  <2> QED BY <2>2 DEF OnChannel
<1>3. w.conn.state \in State
  BY <1>1 DEF WorldType, Connection
<1>4. CASE ~CannotRemove(w)
  <2> USE <1>3, <1>4 DEF CannotRemove, State
  <2>1. /\ OnlyItsOwn(w, y) /\ y.conn.state = "kDisconnected"
        /\ Sound(y.poller) /\ ChannelInStep("kDisconnected", y.poller, y.c)
        /\ y.poller.index[w.c] # "new" /\ y.c = w.c
        /\ y.failed = "none" /\ y.map = w.map /\ y.news \in Seq(SmallTask(w.c))
    <3>1. CASE w.conn.state = "kConnected"
      <4>1. IsOpen(w)
        BY <3>1 DEF IsOpen
      <4>2. Switched(w, "kDisconnected", y)
        BY <3>1, <4>1, SwitchChannel DEF State, Interest, UserCallback
      <4> HIDE DEF y
      <4> QED BY <4>2 DEF Switched, OnlyItsOwn
    <3>2. CASE w.conn.state = "kDisconnected"
      <4>1. y = w
        BY <3>2
      <4> HIDE DEF y
      <4> QED BY <1>1, <3>2, <4>1 DEF OnlyItsOwn, OnlyChanges, Sound
    <3> QED BY <3>1, <3>2
  <2> HIDE DEF y
  <2>2. y \in WorldType /\ y.poller.fd = w.poller.fd /\ y.poller.events[w.c] = {}
    BY <2>1 DEF OnlyItsOwn, ChannelInStep
  <2>3. /\ Sound(p) /\ p.fd = y.poller.fd /\ p.events[w.c] = {} /\ p.index[w.c] = "new"
        /\ OnlyChanges(w.c, y.poller, p)
    BY <1>1, <2>1, <2>2, RemoveSound
  <2> HIDE DEF p
  <2>4. p \in PollerType /\ \A f \in Fd : PointersOwned(p, f)
    BY <2>3 DEF Sound
  <2>5. /\ v \in WorldType /\ v.c = y.c /\ v.served = y.served /\ v.timers = y.timers
        /\ v.poller = p /\ v.conn = y.conn /\ v.map = y.map /\ v.news = y.news
        /\ v.failed = y.failed
    <3>1. v = [y EXCEPT !.poller = p]
      BY <1>2, <2>1 DEF p
    <3> HIDE DEF v
    <3> QED BY <2>2, <2>4, <3>1 DEF WorldType
  <2> HIDE DEF v
  <2>6. OnlyItsOwn(w, v)
    BY <2>1, <2>2, <2>3, <2>4, <2>5 DEF OnlyItsOwn, OnlyChanges
  <2>7. ChannelInStep("kDisconnected", v.poller, v.c)
    BY <2>1, <2>3, <2>5 DEF ChannelInStep
  <2>8. w.poller.index[w.c] # "new"
    BY <1>1 DEF ChannelInStep
  <2>9. Destroying(w, v)
    BY <2>1, <2>3, <2>5, <2>6, <2>7, <2>8 DEF Destroying
  <2> HIDE DEF CannotRemove
  <2> QED BY <2>9 DEF v
<1>5. CASE CannotRemove(w)
  <2> USE <1>5 DEF CannotRemove
  <2>1. y = w
    OBVIOUS
  <2>2. w.poller \in PollerType /\ Mirrored(w.poller, w.c)
    BY <1>1 DEF Sound
  <2>3. w.poller.events[w.c] # {} \/ w.poller.channels[w.poller.fd[w.c]] # w.c
    BY <1>1, <2>2, NoneAssumption DEF ChannelInStep, State, Mirrored
  <2>4. p = [w.poller EXCEPT !.failed = "removeChannel"]
    BY <2>1, <2>3 DEF RemoveChannel, Abort
  <2> HIDE DEF p
  <2>5. /\ p \in PollerType /\ p.failed # "none" /\ p.fd = w.poller.fd
        /\ p.events = w.poller.events /\ p.index = w.poller.index
        /\ p.epoll = w.poller.epoll /\ p.channels = w.poller.channels
    BY <2>2, <2>4 DEF PollerType, Assertion
  <2>6. \A f \in Fd : PointersOwned(p, f)
    BY <1>1, <2>5 DEF Sound, PointersOwned
  <2>7. /\ v \in WorldType /\ v.c = w.c /\ v.served = w.served /\ v.timers = w.timers
        /\ v.poller = p /\ v.conn = w.conn /\ v.map = w.map /\ v.news = w.news
    <3>1. v = [w EXCEPT !.poller = p]
      BY <1>2, <2>1 DEF p
    <3> HIDE DEF v
    <3> QED BY <1>1, <2>5, <3>1 DEF WorldType
  <2> HIDE DEF v
  <2>8. OnlyItsOwn(w, v)
    BY <1>1, <2>5, <2>6, <2>7 DEF OnlyItsOwn, OnlyChanges
  <2>9. Failing(w, v)
    BY <2>5, <2>7, <2>8 DEF Failing
  <2> HIDE DEF CannotRemove
  <2> QED BY <2>9 DEF v
<1> QED BY <1>4, <1>5

-----------------------------------------------------------------------------
(* What the handlers and the functors do to a world.                       *)

LEMMA MinorIsProper ==
  ASSUME NEW w, Proper(w), NEW v, Minor(w, v)
  PROVE  Proper(v) /\ (IsOpen(v) => IsOpen(w)) /\ (IsOpen(w) => IsOpen(v))
BY DEF Proper, Minor, ChannelInStep, IsOpen

LEMMA MinorThenClosing ==
  ASSUME NEW w, Proper(w), w.news \in Seq(SmallTask(w.c)), NEW v, Minor(w, v),
         NEW x, Closing(v, x)
  PROVE  Closing(w, x)
<1>1. IsOpen(w) /\ v.c = w.c
  BY MinorIsProper DEF Closing, Minor
<1>2. OnlyItsOwn(w, x)
  BY DEF Closing, OnlyItsOwn, Minor
<1> QED BY <1>1, <1>2 DEF Closing, Minor

LEMMA TakeErrorAfterClosing ==
  ASSUME NEW w, NEW v, Closing(w, v)
  PROVE  Closing(w, TakeError(v))
<1> DEFINE x == TakeError(v)
<1>1. v \in WorldType
  BY DEF Closing, OnlyItsOwn
<1>2. /\ x \in WorldType /\ x.c = v.c /\ x.served = v.served /\ x.timers = v.timers
      /\ x.poller = v.poller /\ x.conn.state = v.conn.state /\ x.map = v.map
      /\ x.news = v.news /\ x.failed = v.failed
  BY <1>1 DEF TakeError, WorldType, Connection, Socket
<1> HIDE DEF x
<1>3. OnlyItsOwn(w, x)
  BY <1>2 DEF Closing, OnlyItsOwn
<1>4. Closing(w, x)
  BY <1>2, <1>3 DEF Closing
<1> QED BY <1>4 DEF x

\* handleRead() of an open connection.
LEMMA HandleReadDoes ==
  ASSUME QuietCallbacks, NEW w, Proper(w), w.news \in Seq(SmallTask(w.c)), IsOpen(w),
         NEW u, NEW res \in WriteResult
  PROVE  Minor(w, HandleRead(w, u, res)) \/ Closing(w, HandleRead(w, u, res))
<1>1. w \in WorldType
  BY DEF Proper
<1>2. w.conn.sock \in Socket
  BY <1>1 DEF WorldType, Connection
<1>3. CASE w.conn.sock.data
  <2> DEFINE x == [w EXCEPT !.conn.sock.data = FALSE]
  <2>1. Minor(w, x)
    BY <1>1 DEF Minor, WorldType, Connection, Socket
  <2>2. HandleRead(w, u, res) = Callback(x, "message", u, res)
    BY <1>3 DEF HandleRead
  <2> HIDE DEF x
  <2>3. ~Writing(x) /\ x \in WorldType
    BY <2>1, NotWriting DEF Minor, Writing
  <2>4. Minor(x, Callback(x, "message", u, res))
    BY <2>3, CallbackMinor DEF UserCallback
  <2> QED BY <2>1, <2>2, <2>4, MinorIsTransitive
<1>4. CASE ~w.conn.sock.data
  <2>1. HandleRead(w, u, res) \in {TakeError(w), HandleClose(w, u, res), w}
    BY <1>2, <1>4 DEF HandleRead, Socket
  <2> QED BY <1>1, <2>1, TakeErrorMinor, HandleCloseCloses, MinorIsReflexive
<1> QED BY <1>3, <1>4

\* Channel::handleEvent() of an open connection, whatever the events.
LEMMA HandleEventDoes ==
  ASSUME QuietCallbacks, NEW w, Proper(w), w.news \in Seq(SmallTask(w.c)), IsOpen(w),
         NEW revents, NEW u, NEW res \in WriteResult
  PROVE  \/ Minor(w, HandleEvent(w, revents, u, res))
         \/ Closing(w, HandleEvent(w, revents, u, res))
<1> DEFINE closed == IF "HUP" \in revents /\ "IN" \notin revents
                     THEN HandleClose(w, u, res) ELSE w
           asked  == IF "ERR" \in revents THEN TakeError(closed) ELSE closed
           read   == IF "IN" \in revents THEN HandleRead(asked, u, res) ELSE asked
           v == HandleEvent(w, revents, u, res)
<1>1. w \in WorldType
  BY DEF Proper
<1>2. \/ closed = w
      \/ "IN" \notin revents /\ Closing(w, closed)
  BY HandleCloseCloses
<1> HIDE DEF closed
<1>3. \/ Minor(w, asked)
      \/ "IN" \notin revents /\ Closing(w, asked)
  BY <1>1, <1>2, TakeErrorMinor, TakeErrorAfterClosing, MinorIsReflexive
<1> HIDE DEF asked
<1>4. Minor(w, read) \/ Closing(w, read)
  <2>1. CASE "IN" \in revents
    <3>1. /\ Minor(w, asked) /\ Proper(asked) /\ IsOpen(asked)
          /\ asked.news \in Seq(SmallTask(asked.c))
      BY <1>3, <2>1, MinorIsProper DEF Minor
    <3>2. Minor(asked, read) \/ Closing(asked, read)
      BY <2>1, <3>1, HandleReadDoes
    <3> HIDE DEF read
    <3> QED BY <3>1, <3>2, MinorIsTransitive, MinorThenClosing
  <2>2. CASE "IN" \notin revents
    BY <1>3, <2>2
  <2> QED BY <2>1, <2>2
<1> HIDE DEF read
<1>5. ~Writing(read)
  <2>1. CASE Minor(w, read)
    BY <2>1, MinorIsProper, NotWriting
  <2>2. CASE Closing(w, read)
    BY <2>2 DEF Closing, ChannelInStep, Writing, IsWriting
  <2> QED BY <1>4, <2>1, <2>2
<1>6. v = read
  BY <1>5 DEF HandleEvent, HandleWrite, read, asked, closed
<1> QED BY <1>4, <1>6

\* The functors that neither open nor close a connection.
LEMMA SmallTaskDoes ==
  ASSUME QuietCallbacks, NEW w, Proper(w), w.news \in Seq(SmallTask(w.c)),
         NEW fn \in Fn \ {"connectEstablished", "connectDestroyed", "startReadInLoop",
                          "stopReadInLoop"},
         NEW u, NEW res \in WriteResult
  PROVE  Minor(w, RunTask(w, fn, u, res)) \/ Closing(w, RunTask(w, fn, u, res))
<1>1. w \in WorldType /\ ~Writing(w)
  BY NotWriting DEF Proper
<1>2. CASE fn = "sendInLoop"
  BY <1>1, <1>2, SendInLoopMinor DEF RunTask
<1>3. CASE fn = "shutdownInLoop"
  BY <1>1, <1>3, MinorIsReflexive DEF RunTask, ShutdownInLoop
<1>4. CASE fn = "forceCloseInLoop"
  BY <1>1, <1>4, HandleCloseCloses, MinorIsReflexive DEF RunTask, ForceCloseInLoop
<1>5. CASE fn = "addTimerInLoop"
  <2>1. Minor(w, AddTimer(w))
    BY <1>1 DEF Minor, AddTimer, WorldType
  <2> QED BY <1>5, <2>1 DEF RunTask
<1>6. CASE fn = "writeCompleteCallback"
  BY <1>1, <1>6, CallbackMinor DEF RunTask, UserCallback
<1>7. CASE fn = "highWaterMarkCallback"
  BY <1>1, <1>7, CallbackMinor DEF RunTask, UserCallback
<1> QED BY <1>2, <1>3, <1>4, <1>5, <1>6, <1>7 DEF Fn

\* What any functor does that can be in the queue of such users.
Does(w, fn, v) ==
  \/ fn \notin {"connectEstablished", "connectDestroyed"} /\ (Minor(w, v) \/ Closing(w, v))
  \/ /\ fn = "connectEstablished"
     /\ IF w.conn.state = "kConnecting" THEN Opening(w, v) ELSE Failing(w, v)
  \/ /\ fn = "connectDestroyed"
     /\ IF CannotRemove(w) THEN Failing(w, v) ELSE Destroying(w, v)

LEMMA RunTaskDoes ==
  ASSUME QuietCallbacks, NEW w, Proper(w), w.news \in Seq(SmallTask(w.c)),
         NEW fn \in Fn \ {"startReadInLoop", "stopReadInLoop"},
         NEW u, NEW res \in WriteResult
  PROVE  Does(w, fn, RunTask(w, fn, u, res))
<1>1. CASE fn = "connectEstablished"
  <2>1. RunTask(w, fn, u, res) = ConnectEstablished(w, u, res)
    BY <1>1 DEF RunTask
  <2> QED BY <1>1, <2>1, ConnectEstablishedOpens DEF Does
<1>2. CASE fn = "connectDestroyed"
  <2>1. RunTask(w, fn, u, res) = ConnectDestroyed(w, u, res)
    BY <1>2 DEF RunTask
  <2> QED BY <1>2, <2>1, ConnectDestroyedDestroys DEF Does
<1>3. CASE fn \notin {"connectEstablished", "connectDestroyed"}
  BY <1>3, SmallTaskDoes DEF Does
<1> QED BY <1>1, <1>2, <1>3

=============================================================================
