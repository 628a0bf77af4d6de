--------------------------- MODULE ConnectionLife ---------------------------
(***************************************************************************)
(* What a TcpServer promises about each of its connections: it is refused, *)
(* or opened, told to be up, perhaps half closed by its own side, told to  *)
(* be down, and freed; nothing is done twice and nothing is undone.  The   *)
(* end of the server takes down the connections that are up.               *)
(***************************************************************************)
CONSTANT Conns

VARIABLE stage

Stages == {"unknown", "waiting", "opening", "up", "closing", "down", "gone"}

TypeOK == stage \in [Conns -> Stages]

Init == stage = [c \in Conns |-> "unknown"]

Move(c, from, to) ==
  /\ stage[c] \in from
  /\ \E s \in to : stage' = [stage EXCEPT ![c] = s]

Arrive(c) == Move(c, {"unknown"}, {"waiting"})

Refuse(c) == Move(c, {"waiting"}, {"gone"})

\* The connection is opened on its loop, now or later; the user may close it
\* from the callback that tells so.
Accept(c) == Move(c, {"waiting"}, {"opening", "up", "closing"})

Open(c) == Move(c, {"opening"}, {"up", "closing"})

\* shutdown() or forceClose().
BeginClose(c) == Move(c, {"up"}, {"closing"})

Close(c) == Move(c, {"up", "closing"}, {"down"})

\* The server drops a connection, which is freed at once if nobody else keeps it.
Drop(c) == Move(c, {"up"}, {"down", "gone"})

\* Connections are freed together when they were kept by the same functors.
Free(conns) ==
  /\ conns # {} /\ \A c \in conns : stage[c] = "down"
  /\ stage' = [c \in Conns |-> IF c \in conns THEN "gone" ELSE stage[c]]

Next ==
  \/ \E c \in Conns : \/ Arrive(c) \/ Refuse(c) \/ Accept(c) \/ Open(c)
                      \/ BeginClose(c) \/ Close(c) \/ Drop(c)
  \/ \E conns \in SUBSET Conns : Free(conns)

Spec == Init /\ [][Next]_stage
=============================================================================
