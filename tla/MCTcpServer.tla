---------------------------- MODULE MCTcpServer ----------------------------
(* Instances of TcpServer for TLC: see the tcpserver*.cfg files.           *)
EXTENDS TcpServer, TLC

CONSTANTS base, io

NoPool == <<>>
OneIoLoop == <<io>>

\* A callback that makes one call.
Just(ops) == {<<op, "none">> : op \in ops}

\* What the user's callbacks may do; there is no high-water mark callback.
Closing == [up            |-> {<<"send", "forceClose">>},
            message       |-> {<<"send", "shutdown">>, <<"send", "forceClose">>}
                                \cup Just({"send"}),
            down          |-> {<<"send", "forceClose">>},
            writeComplete |-> Just({"forceClose", "forceCloseWithDelay"}),
            highWaterMark |-> {}]

\* A user who only answers, and closes from the message callback.
Answering == [up            |-> {},
              message       |-> {<<"send", "forceClose">>}
                                  \cup Just({"send", "forceCloseWithDelay"}),
              down          |-> {},
              writeComplete |-> {},
              highWaterMark |-> {}]

\* A user who closes some connections as soon as they are up.
Rejecting == [up            |-> Just({"forceClose"}),
              message       |-> {},
              down          |-> {},
              writeComplete |-> {},
              highWaterMark |-> {}]

\* A user who stops reading, and closes.
Pausing == [up            |-> Just({"stopRead"}),
            message       |-> {},
            down          |-> {},
            writeComplete |-> {},
            highWaterMark |-> {}]

\* A user who answers once, and closes his side at once.
Parting == [up            |-> {},
            message       |-> {<<"send", "shutdown">>},
            down          |-> {},
            writeComplete |-> {},
            highWaterMark |-> {}]

Symmetry == Permutations(Channel) \cup Permutations(Fd)
=============================================================================
