--------------------------- MODULE TcpConnection ---------------------------
(***************************************************************************)
(* seenet's TcpConnection: what each of its member functions does when it  *)
(* runs on the thread of its loop, as functions of a world w:              *)
(*                                                                         *)
(*   w.c         the connection, which also names its Channel object       *)
(*   w.conn      its fields and the state of its socket (see Connection)   *)
(*   w.poller    the poller of its loop                                    *)
(*   w.news      the tasks it queued on its loop, oldest first             *)
(*   w.timers    the connections bound by the timers of its loop           *)
(*   w.map       m_connections of the TcpServer it belongs to              *)
(*   w.served    the TcpServer exists                                      *)
(*   w.failed    the function whose assert() failed, or which was called   *)
(*               on a server that is no more, or "none"                    *)
(*                                                                         *)
(* u is what the user's callback does if one is called, up to two calls on *)
(* the connection, and res how much of a message write(2) takes if it is   *)
(* called and the connection was not reset.                                *)
(***************************************************************************)
EXTENDS PollerOps, Sequences

CONSTANTS
  UserOps,        \* what the user's callbacks may do, by callback: pairs of calls
  HighWaterMark,  \* m_highWaterMark, in messages
  MaxOut          \* bound: messages in m_outputBuffer; stands for more

Op == {"none", "send", "shutdown", "forceClose", "forceCloseWithDelay", "startRead",
       "stopRead"}

\* The user's callbacks: m_connCallback of a connection that is up or down,
\* m_messageCallback, m_writeCompleteCallback and m_highWateMarkCallback.
UserCallback == {"up", "message", "down", "writeComplete", "highWaterMark"}

ASSUME ConnectionAssumption ==
  /\ UserOps \in [UserCallback -> SUBSET (Op \X Op)]
  /\ HighWaterMark \in Nat
  /\ MaxOut \in Nat

State == {"kConnecting", "kConnected", "kDisconnecting", "kDisconnected"}

(***************************************************************************)
(* The socket: there is data to read, the peer closed its end, the peer    *)
(* reset the connection, the error that this left has not been returned by *)
(* a call yet (ECONNRESET in SO_ERROR), shutdownWrite() was called.        *)
(***************************************************************************)
Socket == [data : BOOLEAN, fin : BOOLEAN, rst : BOOLEAN, err : BOOLEAN, shut : BOOLEAN]

Connection == [state : State, reading : BOOLEAN, out : 0 .. MaxOut, sock : Socket]

NewConnection ==
  [state |-> "kConnecting", reading |-> TRUE, out |-> 0,
   sock |-> [data |-> FALSE, fin |-> FALSE, rst |-> FALSE, err |-> FALSE, shut |-> FALSE]]

Fn == {"connectEstablished", "connectDestroyed", "sendInLoop", "shutdownInLoop",
       "forceCloseInLoop", "addTimerInLoop", "startReadInLoop", "stopReadInLoop",
       "writeCompleteCallback", "highWaterMarkCallback"}

\* What epoll_wait() reports for the socket of conn: EPOLLHUP and EPOLLERR
\* whether they were asked for or not.
Revents(conn, interest) ==
  {e \in {"IN", "OUT", "HUP", "ERR"} :
     CASE e = "IN"  -> /\ "read" \in interest
                       /\ conn.sock.data \/ conn.sock.fin \/ conn.sock.rst
       [] e = "OUT" -> "write" \in interest
       [] e = "HUP" -> conn.sock.rst \/ (conn.sock.fin /\ conn.sock.shut)
       [] e = "ERR" -> conn.sock.err}

-----------------------------------------------------------------------------

SetState(w, state) == [w EXCEPT !.conn.state = state]

OnChannel(w, Update(_, _)) == [w EXCEPT !.poller = Update(@, w.c)]

QueueInLoop(w, fn) == [w EXCEPT !.news = Append(@, [fn |-> fn, conn |-> w.c])]

Fail(w, where) == [w EXCEPT !.failed = where]

Writing(w) == IsWriting(w.poller, w.c)

IsOpen(w) == w.conn.state \in {"kConnected", "kDisconnecting"}

\* A call on the socket returns the error of a reset, once.
TakeError(w) == [w EXCEPT !.conn.sock.err = FALSE]

-----------------------------------------------------------------------------
(* Sending.                                                                *)

\* write(2) takes the whole message, or only a part of it (or none) for now.
WriteResult == {"all", "part"}

\* The rest of a message goes to m_outputBuffer.  Writing is enabled only if
\* it is enabled already.
BufferOutput(w) ==
  LET marked == IF w.conn.out + 1 >= HighWaterMark
                THEN QueueInLoop(w, "highWaterMarkCallback") ELSE w
      added  == [marked EXCEPT !.conn.out = IF @ < MaxOut THEN @ + 1 ELSE @]
  IN  IF Writing(w) THEN OnChannel(added, EnableWriting) ELSE added

\* On a connection that was reset, write(2) fails with ECONNRESET once and with
\* EPIPE from then on; EPIPE is not counted as a fault, so that the message is
\* buffered.
SendInLoop(w, res) ==
  IF w.conn.state = "kDisconnected" THEN w
  ELSE IF Writing(w) \/ w.conn.out > 0 THEN BufferOutput(w)
  ELSE CASE w.conn.sock.err                       -> TakeError(w)
         [] w.conn.sock.rst /\ ~w.conn.sock.err   -> BufferOutput(w)
         [] ~w.conn.sock.rst /\ res = "all"       -> QueueInLoop(w, "writeCompleteCallback")
         [] ~w.conn.sock.rst /\ res = "part"      -> BufferOutput(w)

ShutdownInLoop(w) ==
  IF Writing(w) THEN [w EXCEPT !.conn.sock.shut = TRUE] ELSE w

\* Dead code as long as nothing enables writing.
HandleWrite(w, res) ==
  IF ~Writing(w) THEN w
  ELSE IF w.conn.sock.rst THEN TakeError(w)
  ELSE IF res # "all" THEN w
  ELSE LET done == QueueInLoop(OnChannel([w EXCEPT !.conn.out = 0], DisableWriting),
                               "writeCompleteCallback")
       IN  IF w.conn.state = "kDisconnecting" THEN ShutdownInLoop(done) ELSE done

-----------------------------------------------------------------------------
(* The calls a user can make, on the thread of the loop.                   *)

StartReadInLoop(w) ==
  IF ~w.conn.reading \/ ~IsReading(w.poller, w.c)
  THEN [OnChannel(w, EnableReading) EXCEPT !.conn.reading = TRUE] ELSE w

StopReadInLoop(w) ==
  IF w.conn.reading \/ IsReading(w.poller, w.c)
  THEN [OnChannel(w, DisableReading) EXCEPT !.conn.reading = FALSE] ELSE w

Shutdown(w) ==
  IF w.conn.state = "kConnected" THEN ShutdownInLoop(SetState(w, "kDisconnecting"))
  ELSE w

ForceClose(w) ==
  IF IsOpen(w) THEN QueueInLoop(SetState(w, "kDisconnecting"), "forceCloseInLoop")
  ELSE w

\* TimerQueue::addTimerInLoop(): the timer, which binds the connection, goes to
\* m_timers and m_activeTimers.  The descriptor is not armed and handleRead() is
\* empty, so that it stays there.
AddTimer(w) == [w EXCEPT !.timers = @ \cup {w.c}]

ForceCloseWithDelay(w) == IF IsOpen(w) THEN AddTimer(SetState(w, "kDisconnecting")) ELSE w

Send(w, res) == IF w.conn.state = "kConnected" THEN SendInLoop(w, res) ELSE w

Call(w, op, res) ==
  CASE op = "none"                -> w
    [] op = "send"                -> Send(w, res)
    [] op = "shutdown"            -> Shutdown(w)
    [] op = "forceClose"          -> ForceClose(w)
    [] op = "forceCloseWithDelay" -> ForceCloseWithDelay(w)
    [] op = "startRead"           -> StartReadInLoop(w)
    [] op = "stopRead"            -> StopReadInLoop(w)

UserOp == {<<"none", "none">>} \cup UNION {UserOps[cb] : cb \in UserCallback}

\* The user's callback cb is called, and makes the two calls of u in turn.
Callback(w, cb, u, res) ==
  IF u \in UserOps[cb] THEN Call(Call(w, u[1], res), u[2], res) ELSE w

-----------------------------------------------------------------------------
(* The life of a connection.                                               *)

ConnectEstablished(w, u, res) ==
  IF w.conn.state # "kConnecting" THEN Fail(w, "connectEstablished")
  ELSE Callback(OnChannel(SetState(w, "kConnected"), EnableReading), "up", u, res)

\* Mutant: the channel is not removed from the poller.
ConnectDestroyed_NotRemoved(w, u, res) ==
  IF w.conn.state = "kConnected"
  THEN Callback(OnChannel(SetState(w, "kDisconnected"), DisableAll), "down", u, res)
  ELSE w

ConnectDestroyed(w, u, res) ==
  LET down == IF w.conn.state = "kConnected"
              THEN Callback(OnChannel(SetState(w, "kDisconnected"), DisableAll),
                            "down", u, res)
              ELSE w
  IN  OnChannel(down, RemoveChannel)

\* Mutant: the map keeps its pointer.
RemoveConnection_NotErased(w) == QueueInLoop(w, "connectDestroyed")

\* Mutant: connectDestroyed() is not queued.
RemoveConnection_Only(w) == [w EXCEPT !.map = @ \ {w.c}]

\* TcpServer::removeConnection() runs removeConnectionInLoop() on the loop of
\* the connection, whose thread this is: so it does so at once.  The close
\* callback binds the address of the server, which it does not keep alive.
RemoveConnection(w) ==
  IF ~w.served THEN Fail(w, "removeConnection")
  ELSE QueueInLoop([w EXCEPT !.map = @ \ {w.c}], "connectDestroyed")

\* Mutant: the channel stays enabled.
HandleClose_StaysEnabled(w, u, res) ==
  IF ~IsOpen(w) THEN Fail(w, "handleClose")
  ELSE RemoveConnection(Callback(SetState(w, "kDisconnected"), "down", u, res))

\* Mutant: a closed connection is set to kDisconnecting.
HandleClose_NotDown(w, u, res) ==
  IF ~IsOpen(w) THEN Fail(w, "handleClose")
  ELSE RemoveConnection(Callback(OnChannel(SetState(w, "kDisconnecting"), DisableAll),
                                 "down", u, res))

HandleClose(w, u, res) ==
  IF ~IsOpen(w) THEN Fail(w, "handleClose")
  ELSE RemoveConnection(Callback(OnChannel(SetState(w, "kDisconnected"), DisableAll),
                                 "down", u, res))

\* Mutant: the second of two forceCloseInLoop() closes as well.
ForceCloseInLoop_Twice(w, u, res) == HandleClose(w, u, res)

\* Mutant: forceCloseInLoop() leaves out a connection in kDisconnecting.
ForceCloseInLoop_IfConnected(w, u, res) ==
  IF w.conn.state = "kConnected" THEN HandleClose(w, u, res) ELSE w

ForceCloseInLoop(w, u, res) ==
  IF IsOpen(w) THEN HandleClose(w, u, res) ELSE w

\* Mutant: readv(2) returning 0 is taken for an error.
HandleRead_IgnoresEof(w, u, res) ==
  IF w.conn.sock.data
  THEN Callback([w EXCEPT !.conn.sock.data = FALSE], "message", u, res) ELSE TakeError(w)

\* readv(2) returns what there is to read; then the error of a reset, once; then
\* 0 if the peer closed or reset the connection; EAGAIN otherwise.
HandleRead(w, u, res) ==
  LET sock == w.conn.sock IN
  CASE sock.data              -> Callback([w EXCEPT !.conn.sock.data = FALSE], "message", u, res)
    [] ~sock.data /\ sock.err -> TakeError(w)
    [] ~sock.data /\ ~sock.err /\ (sock.fin \/ sock.rst) -> HandleClose(w, u, res)
    [] OTHER                  -> w

\* Channel::handleEvent(): handleError() asks for SO_ERROR, which resets it.
HandleEvent(w, revents, u, res) ==
  LET closed == IF "HUP" \in revents /\ "IN" \notin revents
                THEN HandleClose(w, u, res) ELSE w
      asked  == IF "ERR" \in revents THEN TakeError(closed) ELSE closed
      read   == IF "IN" \in revents THEN HandleRead(asked, u, res) ELSE asked
  IN  IF "OUT" \in revents THEN HandleWrite(read, res) ELSE read

\* A functor of the loop is called.
RunTask(w, fn, u, res) ==
  CASE fn = "connectEstablished"    -> ConnectEstablished(w, u, res)
    [] fn = "connectDestroyed"      -> ConnectDestroyed(w, u, res)
    [] fn = "sendInLoop"            -> SendInLoop(w, res)
    [] fn = "shutdownInLoop"        -> ShutdownInLoop(w)
    [] fn = "forceCloseInLoop"      -> ForceCloseInLoop(w, u, res)
    [] fn = "addTimerInLoop"        -> AddTimer(w)
    [] fn = "startReadInLoop"       -> StartReadInLoop(w)
    [] fn = "stopReadInLoop"        -> StopReadInLoop(w)
    [] fn = "writeCompleteCallback" -> Callback(w, "writeComplete", u, res)
    [] fn = "highWaterMarkCallback" -> Callback(w, "highWaterMark", u, res)
=============================================================================
