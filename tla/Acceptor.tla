------------------------------ MODULE Acceptor ------------------------------
(***************************************************************************)
(* seenet's Acceptor: it listens on a channel of the poller of its loop,   *)
(* and keeps a descriptor in reserve (m_idleFd, open on /dev/null) to take *)
(* a client with, and close it, when the process is out of descriptors.    *)
(*                                                                         *)
(* handleRead() is one step for each system call, because the descriptors  *)
(* belong to the whole process: between two calls the other threads open   *)
(* and close some.  The rest of the loop's thread, the owners of the other *)
(* channels, is Poller, of which the Acceptor is one more client.          *)
(***************************************************************************)
EXTENDS Poller

CONSTANTS
  Listen,      \* m_acceptChannel
  MaxBacklog   \* bound: clients in the queue of the listening socket

ASSUME AcceptorAssumption == Listen \in Channel /\ MaxBacklog \in Nat

VARIABLES
  at,        \* the call that the thread of the loop makes next in the Acceptor,
             \* "loop" when it is not in the Acceptor
  m_idleFd,  \* None for -1
  plain,     \* what each descriptor without a channel is open on
  backlog,   \* how many clients wait to be accepted
  raced      \* another thread opened a descriptor while the reserve was closed

otherVars == <<m_idleFd, plain, backlog, raced>>
acceptorVars == <<at, otherVars>>
allVars == <<vars, acceptorVars>>

Place == {"loop", "accept", "close idle", "accept again", "close client", "open idle",
          "remove", "close"}

AcceptorTypeOK ==
  /\ at \in Place
  /\ m_idleFd \in Fd \cup {None}
  /\ plain \in [Fd -> {"nothing", "reserve", "client", "other"}]
  /\ backlog \in 0 .. MaxBacklog
  /\ raced \in BOOLEAN

AcceptorInit ==
  /\ Init
  /\ at = "loop"
  /\ m_idleFd = None
  /\ plain = [f \in Fd |-> "nothing"]
  /\ backlog = 0
  /\ raced = FALSE

\* The descriptors that open(2), socket(2) and accept(2) can return.
Closed == {f \in Fd : FreeFd(f) /\ plain[f] = "nothing"}

\* The descriptor that the Acceptor has open besides the listening socket.
Held == {f \in Fd : plain[f] \in {"reserve", "client"}}

\* The thread of the loop makes one call of the Acceptor's, and is to make the next.
Go(from, to) == at = from /\ at' = to

\* close(2) of whatever m_idleFd names; of -1, it only fails.
CloseIdle == plain' = [f \in Fd |-> IF f = m_idleFd THEN "nothing" ELSE plain[f]]

\* m_idleFd gets the result of open(2) or accept(2).
GetIdle(what) == \E f \in Closed : m_idleFd' = f /\ plain' = [plain EXCEPT ![f] = what]
LoseIdle == m_idleFd' = None /\ UNCHANGED plain

-----------------------------------------------------------------------------
(* The Acceptor's life, on the thread of the loop.                         *)

Construct ==
  /\ at = "loop" /\ ~Live(Listen)
  /\ \E f \in Closed :
        /\ Open(Listen, f)
        /\ GetIdle("reserve") /\ m_idleFd' # f
  /\ raced' = FALSE
  /\ UNCHANGED <<at, backlog>>

listen ==
  /\ at = "loop" /\ Live(Listen) /\ ~IsReading(poller, Listen)
  /\ poller' = EnableReading(poller, Listen)
  /\ UNCHANGED <<active, acceptorVars>>

\* Mutant: the channel is removed with its events still enabled.
Destroy_Enabled ==
  /\ Go("loop", "remove") /\ Live(Listen) /\ Listen \notin active
  /\ UNCHANGED <<vars, otherVars>>

\* ~Acceptor(): disableAll(), remove(), close() of the reserve; the listening
\* socket is closed with the members, and the kernel resets the clients that
\* wait.  It may run before listen() does, and from a handler or a functor of
\* the loop; what the loop cannot survive, and what is assumed not to happen, is
\* that a handler destroys the server while the listener's own event is to come.
Destroy ==
  /\ Go("loop", "remove") /\ Live(Listen) /\ Listen \notin active
  /\ poller' = DisableAll(poller, Listen)
  /\ UNCHANGED <<active, otherVars>>

DestroyChannel ==
  /\ Go("remove", "close")
  /\ poller' = RemoveChannel(poller, Listen)
  /\ UNCHANGED <<active, otherVars>>

CloseAll ==
  /\ Go("close", "loop")
  /\ Close(Listen) /\ CloseIdle
  /\ m_idleFd' = None /\ backlog' = 0
  /\ UNCHANGED raced

-----------------------------------------------------------------------------
(* handleRead().                                                           *)

HandleRead == Go("loop", "accept") /\ Handle(Listen) /\ UNCHANGED otherVars

\* A client is accepted: newConnection() makes a channel for it, on this loop or
\* on another one.
Accepted ==
  /\ Go("accept", "loop") /\ backlog > 0
  /\ \E f \in Closed :
        \/ (\E c \in Channel \ {Listen} : Open(c, f)) /\ UNCHANGED plain
        \/ plain' = [plain EXCEPT ![f] = "other"] /\ UNCHANGED vars
  /\ backlog' = backlog - 1
  /\ UNCHANGED <<m_idleFd, raced>>

\* Mutant: nothing is done when no descriptor is left.
NotAccepted_Ignored == Go("accept", "loop") /\ UNCHANGED <<vars, otherVars>>

\* accept(2) fails: with EMFILE if no descriptor is left, otherwise with EAGAIN,
\* because the client has gone, or for want of memory or of a file in the whole
\* system (ENFILE, ENOBUFS, ENOMEM), whether a client waits or not.
NotAccepted ==
  /\ \/ Go("accept", "close idle") /\ Closed = {}
     \/ Go("accept", "loop") /\ Closed # {}
  /\ UNCHANGED <<vars, otherVars>>

CloseReserve ==
  Go("close idle", "accept again") /\ CloseIdle /\ UNCHANGED <<vars, m_idleFd, backlog, raced>>

\* Mutant: a client is taken although none waits any more.
AcceptAgain_Unchecked ==
  /\ Go("accept again", "close client")
  /\ \/ GetIdle("client") /\ backlog' = backlog - 1
     \/ LoseIdle /\ UNCHANGED backlog
  /\ UNCHANGED <<vars, raced>>

\* It may fail for any of these reasons, too.
AcceptAgain ==
  /\ Go("accept again", "close client")
  /\ \/ backlog > 0 /\ GetIdle("client") /\ backlog' = backlog - 1
     \/ LoseIdle /\ UNCHANGED backlog
  /\ UNCHANGED <<vars, raced>>

\* Mutant: the client that was accepted on the reserve is not closed.
CloseClient_Kept == Go("close client", "open idle") /\ UNCHANGED <<vars, otherVars>>

CloseClient ==
  Go("close client", "open idle") /\ CloseIdle /\ UNCHANGED <<vars, m_idleFd, backlog, raced>>

\* Mutant: the reserve is not opened again.
OpenReserve_Never ==
  Go("open idle", "loop") /\ LoseIdle /\ UNCHANGED <<vars, backlog, raced>>

\* open("/dev/null") fails only for want of a descriptor.
OpenReserve ==
  /\ Go("open idle", "loop")
  /\ IF Closed # {} THEN GetIdle("reserve") /\ raced' = FALSE ELSE LoseIdle /\ UNCHANGED raced
  /\ UNCHANGED <<vars, backlog>>

-----------------------------------------------------------------------------
(* The clients, the other channels of the loop, and the other threads.     *)

Connect ==
  /\ IsReading(poller, Listen) /\ backlog < MaxBacklog
  /\ backlog' = backlog + 1
  /\ UNCHANGED <<vars, at, m_idleFd, plain, raced>>

\* A client gives up before it is accepted.
GiveUp ==
  /\ backlog > 0
  /\ backlog' = backlog - 1
  /\ UNCHANGED <<vars, at, m_idleFd, plain, raced>>

\* epoll_wait() reports the listening socket when a client waits.
PollAll ==
  /\ at = "loop"
  /\ \E ready \in SUBSET Fd :
        /\ backlog > 0 /\ IsReading(poller, Listen) <=> poller.fd[Listen] \in ready
        /\ Poll(ready)
  /\ UNCHANGED acceptorVars

HandleOther ==
  /\ at = "loop"
  /\ \E c \in Channel \ {Listen} : Handle(c)
  /\ UNCHANGED acceptorVars

\* The owners of the other channels: connections, timers, the eventfd.
OtherChannel ==
  /\ at = "loop"
  /\ \E c \in Channel \ {Listen} :
        \/ \E f \in Closed : Open(c, f)
        \/ Change(c) \/ Remove(c) \/ Close(c)
  /\ UNCHANGED acceptorVars

OtherOpen ==
  /\ \E f \in Closed : plain' = [plain EXCEPT ![f] = "other"]
  /\ raced' = (raced \/ (Live(Listen) /\ Held = {}))
  /\ UNCHANGED <<vars, at, m_idleFd, backlog>>

OtherClose ==
  /\ \E f \in Fd : plain[f] = "other" /\ plain' = [plain EXCEPT ![f] = "nothing"]
  /\ UNCHANGED <<vars, at, m_idleFd, backlog, raced>>

-----------------------------------------------------------------------------

\* What the thread of the loop does by itself.
LoopThread ==
  \/ PollAll \/ HandleOther \/ HandleRead
  \/ Accepted \/ NotAccepted
  \/ CloseReserve \/ AcceptAgain \/ CloseClient \/ OpenReserve
  \/ DestroyChannel \/ CloseAll

AcceptorNext ==
  /\ poller.failed = "none"
  /\ \/ Construct \/ listen \/ Destroy
     \/ LoopThread
     \/ Connect \/ GiveUp
     \/ OtherChannel \/ OtherOpen \/ OtherClose

(***************************************************************************)
(* The thread of the loop goes on with what it has begun and with polling. *)
(* Nothing is assumed of the clients nor of the other threads.             *)
(***************************************************************************)
AcceptorSpec == AcceptorInit /\ [][AcceptorNext]_allVars /\ WF_allVars(LoopThread)

-----------------------------------------------------------------------------
(* Properties.                                                             *)

\* The Acceptor and the loop keep to the order of calls that Poller assumes of
\* the owner of a channel, also when the Acceptor is destroyed before listen().
KeepsToPoller == Spec

\* The descriptors that the Acceptor has open besides the listening socket are
\* the one that m_idleFd names, or none: no close() of m_idleFd hits a
\* descriptor that another thread has opened in the meantime, and neither the
\* reserve nor a client accepted on it is left open.
OwnsWhatItNames ==
  Held = (IF at \in {"accept again", "open idle"} THEN {} ELSE {m_idleFd}) \ {None}

\* The reserve is lost only if another thread opens a descriptor between the
\* close() and the open() of an earlier handleRead() that had none left.
ReserveLostOnlyInRace ==
  at \in {"loop", "accept"} /\ Live(Listen) /\ m_idleFd = None => raced

\* accept(2) fails although a client waits and a descriptor is to be had.
AcceptFails ==
  /\ at \in {"accept", "accept again"} /\ at' # at
  /\ Closed # {} /\ backlog > 0 /\ backlog' = backlog

\* While the Acceptor has its reserve and clients wait, it goes on taking them
\* from the queue, be it to refuse them, even if the process never has a
\* descriptor to spare again: the loop does not spin on a level-triggered
\* listener.  It does spin, and nothing is said here, if accept(2) keeps failing
\* for another reason than want of a descriptor.
ClientsAreTaken ==
  \/ []<>(backlog = 0 \/ raced \/ ~Live(Listen))
  \/ []<><<backlog' < backlog>>_allVars
  \/ []<><<AcceptFails>>_allVars
=============================================================================
