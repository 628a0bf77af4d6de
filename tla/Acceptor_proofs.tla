-------------------------- MODULE Acceptor_proofs --------------------------
(***************************************************************************)
(* Proofs about Acceptor, for any channels, descriptors and bound of the   *)
(* queue.  The Acceptor is a client of Poller: once its steps are shown to *)
(* be steps of Poller (StepKeepsToPoller), Poller_proofs does the rest for *)
(* the poller; what is left is who owns which descriptor.                  *)
(***************************************************************************)
EXTENDS Acceptor, Poller_proofs

\* The Acceptor makes its calls while its channel exists, its event comes while
\* its channel exists, and the two halves of its destruction find the channel as
\* Poller wants it.
InOrder ==
  /\ at # "loop" \/ Listen \in active => Live(Listen)
  /\ at = "remove" => poller.index[Listen] # "new" /\ poller.events[Listen] = {}
  /\ at = "close" => poller.index[Listen] = "new"
  /\ at \in {"remove", "close"} => Listen \notin active

\* A descriptor is either a channel's or plain.
Disjoint == \A f \in Fd : plain[f] # "nothing" => FreeFd(f)

\* Without an Acceptor there is no reserve.
ReserveHasOwner == ~Live(Listen) => m_idleFd = None

\* As long as no other thread opened a descriptor while the Acceptor held none,
\* it has its reserve, or the descriptor that it has just closed is to be had.
ReserveAtHand ==
  Live(Listen) /\ ~raced =>
    /\ at \notin {"accept again", "close client", "open idle"} => m_idleFd # None
    /\ at \in {"accept again", "open idle"} => Closed # {}
    /\ at = "close client" => m_idleFd # None \/ Closed # {}

AInv ==
  /\ IInv
  /\ AcceptorTypeOK
  /\ InOrder
  /\ Disjoint
  /\ ReserveHasOwner
  /\ OwnsWhatItNames
  /\ ReserveAtHand

-----------------------------------------------------------------------------
(* The Acceptor as a client of the poller.                                 *)

\* Every step of the Acceptor, of its clients and of the other threads is a step
\* that Poller allows, or leaves the poller alone.
LEMMA StepKeepsToPoller ==
  ASSUME AInv, [AcceptorNext]_allVars
  PROVE  [Next]_vars
<1> USE AcceptorAssumption
<1>1. CASE UNCHANGED vars
  BY <1>1
<1>2. CASE AcceptorNext
  <2>1. poller.failed = "none"
    BY <1>2 DEF AcceptorNext
  <2> USE <2>1
  <2>2. CASE Construct
    BY <2>2 DEF Construct, Closed, Next
  <2>3. CASE listen \/ Destroy
    <3>1. Live(Listen) /\ UNCHANGED active
          /\ poller' \in {EnableReading(poller, Listen), DisableAll(poller, Listen)}
      BY <2>3 DEF listen, Destroy
    <3>2. Change(Listen)
      BY <3>1 DEF Change
    <3> QED BY <3>2 DEF Next
  <2>4. CASE DestroyChannel
    <3>1. Remove(Listen)
      BY <2>4 DEF DestroyChannel, Go, Remove, AInv, InOrder
    <3> QED BY <3>1 DEF Next
  <2>5. CASE CloseAll
    BY <2>5 DEF CloseAll, Next
  <2>6. CASE HandleRead \/ HandleOther
    BY <2>6 DEF HandleRead, HandleOther, Next
  <2>7. CASE Accepted
    BY <2>7, <1>1 DEF Accepted, Closed, Next
  <2>8. CASE PollAll
    BY <2>8 DEF PollAll, Next
  <2>9. CASE OtherChannel
    BY <2>9 DEF OtherChannel, Closed, Next
  <2>10. CASE \/ NotAccepted \/ CloseReserve \/ AcceptAgain \/ CloseClient \/ OpenReserve
              \/ Connect \/ GiveUp \/ OtherOpen \/ OtherClose
    BY <2>10, <1>1 DEF NotAccepted, CloseReserve, AcceptAgain, CloseClient, OpenReserve,
       Connect, GiveUp, OtherOpen, OtherClose
  <2> QED BY <1>2, <2>2, <2>3, <2>4, <2>5, <2>6, <2>7, <2>8, <2>9, <2>10
          DEF AcceptorNext, LoopThread
<1>3. CASE UNCHANGED allVars
  BY <1>1, <1>3 DEF allVars
<1> QED BY <1>2, <1>3

-----------------------------------------------------------------------------
(* Who owns which descriptor.                                              *)

\* What the steps of the clients and of the Acceptor do to the queue.
LEMMA BacklogTyped ==
  ASSUME backlog \in 0 .. MaxBacklog,
         \/ backlog' \in {backlog, 0}
         \/ backlog > 0 /\ backlog' = backlog - 1
         \/ backlog < MaxBacklog /\ backlog' = backlog + 1
  PROVE  backlog' \in 0 .. MaxBacklog
BY AcceptorAssumption

\* Every variable of the Acceptor keeps its type.
LEMMA StepTyped ==
  ASSUME AInv, AcceptorNext
  PROVE  AcceptorTypeOK'
<1> USE AcceptorAssumption DEF AInv, AcceptorTypeOK, Go, Place, vars
<1>1. CASE Construct
  BY <1>1 DEF Construct, GetIdle, Closed
<1>2. CASE listen \/ PollAll \/ HandleOther \/ OtherChannel
  BY <1>2 DEF listen, PollAll, HandleOther, OtherChannel, acceptorVars, otherVars
<1>3. CASE Destroy \/ DestroyChannel \/ HandleRead \/ NotAccepted
  BY <1>3 DEF Destroy, DestroyChannel, HandleRead, NotAccepted, otherVars
<1>4. CASE CloseAll
  BY <1>4 DEF CloseAll, CloseIdle
<1>5. CASE Accepted
  BY <1>5 DEF Accepted, Closed
<1>6. CASE CloseReserve \/ CloseClient
  BY <1>6 DEF CloseReserve, CloseClient, CloseIdle
<1>7. CASE AcceptAgain
  <2>1. /\ m_idleFd' \in Fd \cup {None}
        /\ plain' \in [Fd -> {"nothing", "reserve", "client", "other"}]
    BY <1>7 DEF AcceptAgain, GetIdle, LoseIdle, Closed
  <2>2. backlog' = backlog \/ (backlog > 0 /\ backlog' = backlog - 1)
    BY <1>7, Zenon DEF AcceptAgain
  <2>3. backlog' \in 0 .. MaxBacklog
    BY <2>2, BacklogTyped
  <2> QED BY <1>7, <2>1, <2>3, Zenon DEF AcceptAgain
<1>8. CASE OpenReserve
  BY <1>8 DEF OpenReserve, GetIdle, LoseIdle, Closed
<1>9. CASE Connect \/ GiveUp
  <2>1. \/ backlog > 0 /\ backlog' = backlog - 1
        \/ backlog < MaxBacklog /\ backlog' = backlog + 1
    BY <1>9, Zenon DEF Connect, GiveUp
  <2>2. backlog' \in 0 .. MaxBacklog
    BY <2>1, BacklogTyped
  <2> QED BY <1>9, <2>2, Zenon DEF Connect, GiveUp
<1>10. CASE OtherOpen \/ OtherClose
  BY <1>10 DEF OtherOpen, OtherClose, Closed
<1> QED BY <1>1, <1>2, <1>3, <1>4, <1>5, <1>6, <1>7, <1>8, <1>9, <1>10
        DEF AcceptorNext, LoopThread

-----------------------------------------------------------------------------

\* Who owns which descriptor, in all.
Owned == InOrder /\ Disjoint /\ ReserveHasOwner /\ OwnsWhatItNames /\ ReserveAtHand

\* The steps of the owners of the other channels, and of the loop between two
\* calls of the Acceptor.
LEMMA LoopStepOwned ==
  ASSUME AInv, listen \/ PollAll \/ HandleOther \/ OtherChannel, IInv'
  PROVE  Owned'
<1> USE AcceptorAssumption, NoneAssumption
<1>1. /\ at = "loop" /\ UNCHANGED acceptorVars
      /\ poller.fd \in [Channel -> Fd \cup {None}]
  BY DEF listen, PollAll, HandleOther, OtherChannel, AInv, IInv, Sound, PollerType
<1>2. /\ Live(Listen)' <=> Live(Listen)
      /\ \A f \in Fd : plain[f] # "nothing" /\ FreeFd(f) => FreeFd(f)'
  <2>1. CASE UNCHANGED poller
    BY <2>1 DEF Live, FreeFd
  <2>2. CASE \E c \in Channel : Change(c)
    <3>1. PICK c \in Channel : Change(c)
      BY <2>2
    <3>2. PICK events \in SUBSET Interest : poller' = SetEvents(poller, c, events)
      <4>1. poller.events[c] \in SUBSET Interest
        BY DEF AInv, IInv, Sound, PollerType
      <4> QED BY <3>1, <4>1 DEF Change, EnableReading, DisableReading, EnableWriting,
                 DisableWriting, DisableAll, Interest
    <3>3. poller'.fd = poller.fd
      BY <3>1, <3>2, SetEventsSound DEF Change, Live, AInv, IInv
    <3> QED BY <3>3 DEF Live, FreeFd
  <2>3. CASE \E c \in Channel : Remove(c)
    <3>1. poller'.fd = poller.fd
      BY <2>3, RemoveSound DEF Remove, Live, AInv, IInv
    <3> QED BY <3>1 DEF Live, FreeFd
  <2>4. CASE \E c \in Channel \ {Listen}, f \in Closed : Open(c, f)
    <3>1. PICK c \in Channel \ {Listen}, f \in Closed : Open(c, f)
      BY <2>4
    <3>2. poller'.fd = [poller.fd EXCEPT ![c] = f]
      BY <3>1, OpenSound DEF Open, Live, FreeFd, AInv, IInv, Closed
    <3> QED BY <1>1, <3>1, <3>2 DEF Live, FreeFd, Closed
  <2>5. CASE \E c \in Channel \ {Listen} : Close(c)
    <3>1. PICK c \in Channel \ {Listen} : Close(c)
      BY <2>5
    <3>2. poller'.fd = [poller.fd EXCEPT ![c] = None]
      BY <3>1, CloseSound DEF Close, Live, AInv, IInv
    <3> QED BY <1>1, <3>2 DEF Live, FreeFd
  <2>6. CASE listen
    <3>1. Change(Listen)
      BY <2>6 DEF listen, Change
    <3> QED BY <2>2, <3>1
  <2>7. CASE PollAll
    <3>1. poller'.failed = "none"
      BY DEF IInv, Sound
    <3>2. UNCHANGED poller
      BY <2>7, <3>1 DEF PollAll, Poll, Abort, AInv, IInv, Sound, PollerType
    <3> QED BY <2>1, <3>2
  <2>8. CASE HandleOther
    BY <2>1, <2>8 DEF HandleOther, Handle
  <2>9. CASE OtherChannel
    BY <2>2, <2>3, <2>4, <2>5, <2>9 DEF OtherChannel
  <2> QED BY <2>6, <2>7, <2>8, <2>9
<1>3. Listen \in active' => Listen \in active \/ Live(Listen)
  <2>1. CASE PollAll
    <3>1. PICK ready \in SUBSET Fd : Poll(ready)
      BY <2>1 DEF PollAll
    <3>2. ASSUME NEW f \in ready, poller.epoll[f].ptr = Listen PROVE Live(Listen)
      <4>1. poller.epoll[f] # None
        BY <3>1 DEF Poll
      <4>2. poller.fd[Listen] = f
        BY <3>2, <4>1 DEF AInv, IInv, Sound, PointersOwned
      <4> QED BY <4>2 DEF Live
    <3>3. active' = active \/ active' = {poller.epoll[f].ptr : f \in ready}
      BY <3>1 DEF Poll
    <3> QED BY <3>2, <3>3
  <2>2. CASE listen \/ HandleOther \/ OtherChannel
    BY <2>2 DEF listen, HandleOther, OtherChannel, Handle, Open, Change, Remove, Close
  <2> QED BY <2>1, <2>2
<1> QED BY <1>1, <1>2, <1>3 DEF Owned, AInv, InOrder, Disjoint, ReserveHasOwner, OwnsWhatItNames,
           ReserveAtHand, Held, acceptorVars, otherVars

\* The other steps that change the poller.
LEMMA PollerStepOwned ==
  ASSUME AInv, IInv',
         Construct \/ Destroy \/ DestroyChannel \/ CloseAll \/ HandleRead \/ Accepted
  PROVE  Owned'
<1> USE AcceptorAssumption, NoneAssumption
<1>1. /\ poller.fd \in [Channel -> Fd \cup {None}]
      /\ plain \in [Fd -> {"nothing", "reserve", "client", "other"}]
      /\ Sound(poller)
  BY DEF AInv, IInv, Sound, PollerType, AcceptorTypeOK
<1>2. CASE Construct
  <2>1. PICK f \in Closed : /\ Open(Listen, f)
                            /\ GetIdle("reserve") /\ m_idleFd' # f
    BY <1>2 DEF Construct
  <2>2. PICK g \in Closed : /\ m_idleFd' = g /\ plain' = [plain EXCEPT ![g] = "reserve"]
                            /\ g # f
    BY <2>1 DEF GetIdle
  <2>3. poller'.fd = [poller.fd EXCEPT ![Listen] = f]
    BY <1>1, <2>1, OpenSound DEF Open, Live, FreeFd, Closed
  <2>4. at = "loop" /\ at' = "loop" /\ m_idleFd = None /\ Held = {}
    BY <1>2 DEF Construct, AInv, ReserveHasOwner, OwnsWhatItNames
  <2>5. Held' = {g}
    BY <1>1, <2>2, <2>4 DEF Held, Closed
  <2>6. \A h \in Fd : FreeFd(h) /\ h # f => FreeFd(h)'
    BY <1>1, <2>3 DEF FreeFd
  <2>7. Disjoint'
    BY <1>1, <2>1, <2>2, <2>6 DEF AInv, Disjoint, Closed
  <2>8. Live(Listen)'
    BY <1>1, <2>3 DEF Live, Closed
  <2> QED BY <2>2, <2>4, <2>5, <2>7, <2>8 DEF Owned, InOrder, ReserveHasOwner,
             OwnsWhatItNames, ReserveAtHand, Closed
<1>3. CASE Destroy
  <2>1. /\ poller'.fd = poller.fd /\ poller'.events[Listen] = {}
        /\ poller'.index[Listen] # "new"
    BY <1>1, <1>3, SetEventsSound DEF Destroy, DisableAll, Live
  <2> QED BY <1>3, <2>1 DEF Destroy, Go, otherVars, Owned, AInv, InOrder, Disjoint,
             ReserveHasOwner, OwnsWhatItNames, ReserveAtHand, Held, Live, FreeFd
<1>4. CASE DestroyChannel
  <2>1. poller'.fd = poller.fd /\ poller'.index[Listen] = "new"
    BY <1>1, <1>4, RemoveSound DEF DestroyChannel, Go, Live, AInv, InOrder
  <2> QED BY <1>4, <2>1 DEF DestroyChannel, Go, otherVars, Owned, AInv, InOrder, Disjoint,
             ReserveHasOwner, OwnsWhatItNames, ReserveAtHand, Held, Live, FreeFd
<1>5. CASE CloseAll
  <2>1. /\ poller'.fd = [poller.fd EXCEPT ![Listen] = None]
        /\ at' = "loop" /\ Listen \notin active'
    BY <1>1, <1>5, CloseSound DEF CloseAll, Close, Live, Go, AInv, InOrder
  <2>2. ~Live(Listen)' /\ \A f \in Fd : FreeFd(f) => FreeFd(f)'
    BY <1>1, <2>1 DEF Live, FreeFd
  <2>3. Held \subseteq {m_idleFd}
    BY <1>5 DEF CloseAll, Go, AInv, OwnsWhatItNames
  <2>4. Held' = {}
    BY <1>5, <2>3 DEF CloseAll, CloseIdle, Held
  <2>5. Disjoint'
    BY <1>5, <2>2 DEF CloseAll, CloseIdle, AInv, Disjoint
  <2> QED BY <1>5, <2>1, <2>2, <2>4, <2>5 DEF CloseAll, Owned, InOrder, ReserveHasOwner,
             OwnsWhatItNames, ReserveAtHand
<1>6. CASE HandleRead
  <2>1. Live(Listen) /\ UNCHANGED poller
    BY <1>6 DEF HandleRead, Handle, AInv, InOrder
  <2> QED BY <1>6, <2>1 DEF HandleRead, Go, otherVars, Owned, AInv, InOrder, Disjoint,
             ReserveHasOwner, OwnsWhatItNames, ReserveAtHand, Held, Live, FreeFd
<1>7. CASE Accepted
  <2>1. at = "accept" /\ at' = "loop" /\ UNCHANGED <<m_idleFd, raced>>
    BY <1>7 DEF Accepted, Go
  <2>2. PICK f \in Closed :
          \/ (\E c \in Channel \ {Listen} : Open(c, f)) /\ UNCHANGED plain
          \/ plain' = [plain EXCEPT ![f] = "other"] /\ UNCHANGED vars
    BY <1>7 DEF Accepted
  <2>3. /\ Live(Listen)' <=> Live(Listen)
        /\ Disjoint' /\ Held' = Held /\ UNCHANGED active
    <3>1. CASE (\E c \in Channel \ {Listen} : Open(c, f)) /\ UNCHANGED plain
      <4>1. PICK c \in Channel \ {Listen} : Open(c, f)
        BY <3>1
      <4>2. poller'.fd = [poller.fd EXCEPT ![c] = f]
        BY <1>1, <4>1, OpenSound DEF Open, Live, FreeFd, Closed
      <4> QED BY <1>1, <3>1, <4>1, <4>2 DEF Open, Live, FreeFd, AInv, Disjoint, Held, Closed
    <3>2. CASE plain' = [plain EXCEPT ![f] = "other"] /\ UNCHANGED vars
      BY <1>1, <3>2 DEF vars, Live, FreeFd, AInv, Disjoint, Held, Closed
    <3> QED BY <2>2, <3>1, <3>2
  <2> QED BY <2>1, <2>3 DEF Owned, AInv, InOrder, ReserveHasOwner, OwnsWhatItNames,
             ReserveAtHand
<1> QED BY <1>2, <1>3, <1>4, <1>5, <1>6, <1>7

\* The steps that leave the poller alone: the rest of handleRead(), the clients,
\* and the other threads.
LEMMA DescriptorStepOwned ==
  ASSUME AInv,
         \/ NotAccepted \/ CloseReserve \/ AcceptAgain \/ CloseClient \/ OpenReserve
         \/ Connect \/ GiveUp \/ OtherOpen \/ OtherClose
  PROVE  Owned'
<1> USE AcceptorAssumption, NoneAssumption
<1>1. /\ Live(Listen)' <=> Live(Listen)
      /\ \A f \in Fd : FreeFd(f)' <=> FreeFd(f)
  <2>1. UNCHANGED vars
    BY DEF NotAccepted, CloseReserve, AcceptAgain, CloseClient, OpenReserve,
       Connect, GiveUp, OtherOpen, OtherClose
  <2> QED BY <2>1 DEF vars, Live, FreeFd
<1>2. /\ m_idleFd \in Fd \cup {None}
      /\ plain \in [Fd -> {"nothing", "reserve", "client", "other"}]
      /\ raced \in BOOLEAN
      /\ Disjoint /\ ReserveHasOwner /\ OwnsWhatItNames /\ ReserveAtHand
  BY DEF AInv, AcceptorTypeOK
<1>3. CASE NotAccepted \/ Connect \/ GiveUp
  <2>1. at' \notin {"remove", "close"} \/ UNCHANGED <<at, vars>>
    BY <1>3 DEF NotAccepted, Connect, GiveUp, Go
  <2>2. InOrder'
    BY <1>1, <1>3 , <2>1 DEF AInv, InOrder, vars, NotAccepted, Connect, GiveUp, Go
  <2> QED BY <1>1, <1>2, <1>3, <2>2 DEF NotAccepted, Connect, GiveUp, Go, otherVars, Owned,
             Disjoint, ReserveHasOwner, OwnsWhatItNames, ReserveAtHand, Held, Closed
<1>4. CASE CloseReserve \/ CloseClient
  <2>1. /\ at \in {"close idle", "close client"} /\ at' \in {"accept again", "open idle"}
        /\ at = "close idle" => at' = "accept again"
        /\ at = "close client" => at' = "open idle"
        /\ CloseIdle /\ UNCHANGED <<m_idleFd, raced>>
    BY <1>4 DEF CloseReserve, CloseClient, Go
  <2>2. InOrder' /\ ReserveHasOwner'
    BY <1>1, <1>2, <2>1 DEF AInv, InOrder, ReserveHasOwner
  <2>3. Held = {m_idleFd} \ {None}
    BY <1>2, <2>1 DEF OwnsWhatItNames
  <2>4. Held' = {} /\ Disjoint'
    BY <1>1, <1>2, <2>1, <2>3 DEF CloseIdle, Held, Disjoint
  <2>5. /\ \A f \in Closed : f \in Closed'
        /\ m_idleFd # None => m_idleFd \in Closed'
    BY <1>1, <1>2, <2>1, <2>3 DEF CloseIdle, Held, Closed, Disjoint
  <2>6. ReserveAtHand'
    BY <1>1, <1>2, <2>1, <2>5 DEF ReserveAtHand
  <2> QED BY <2>1, <2>2, <2>4, <2>6 DEF Owned, OwnsWhatItNames
<1>5. CASE AcceptAgain \/ OpenReserve
  <2>1. \/ at = "accept again" /\ at' = "close client" /\ UNCHANGED raced
        \/ /\ at = "open idle" /\ at' = "loop"
           /\ (Closed # {} /\ m_idleFd' # None) \/ (Closed = {} /\ UNCHANGED raced)
    <3>1. CASE AcceptAgain
      BY <3>1, Zenon DEF AcceptAgain, Go
    <3>2. CASE OpenReserve
      <4>1. at = "open idle" /\ at' = "loop"
        BY <3>2, Zenon DEF OpenReserve, Go
      <4>2. Closed # {} => \E f \in Closed : m_idleFd' = f
        BY <3>2, Zenon DEF OpenReserve, GetIdle
      <4>3. Closed = {} => UNCHANGED raced
        BY <3>2, Zenon DEF OpenReserve
      <4> QED BY <4>1, <4>2, <4>3 DEF Closed
    <3> QED BY <1>5, <3>1, <3>2
  <2>2. \/ \E f \in Closed, what \in {"client", "reserve"} :
              m_idleFd' = f /\ plain' = [plain EXCEPT ![f] = what]
        \/ m_idleFd' = None /\ UNCHANGED plain
    BY <1>5, Zenon DEF AcceptAgain, OpenReserve, GetIdle, LoseIdle
  <2>3. Held = {}
    BY <1>2, <2>1 DEF OwnsWhatItNames
  <2>4. /\ InOrder' /\ ReserveHasOwner'
    BY <1>1, <1>2, <2>1 DEF AInv, InOrder, ReserveHasOwner
  <2>5. Disjoint' /\ Held' = {m_idleFd'} \ {None}
    BY <1>1, <1>2, <2>3, <2>2 DEF Disjoint, Held, Closed
  <2>6. m_idleFd' = None => \A f \in Closed : f \in Closed'
    BY <1>1, <2>2 DEF Closed
  <2>7. ReserveAtHand'
    BY <1>1, <1>2, <2>1, <2>6 DEF ReserveAtHand
  <2> QED BY <2>1, <2>4, <2>5, <2>7 DEF Owned, OwnsWhatItNames
<1>6. CASE OtherOpen
  <2>1. /\ UNCHANGED <<vars, at, m_idleFd>>
        /\ raced' = (raced \/ (Live(Listen) /\ Held = {}))
    BY <1>6 DEF OtherOpen
  <2>2. Held' = Held /\ Disjoint'
    BY <1>1, <1>2, <1>6 DEF OtherOpen, Held, Disjoint, Closed
  <2>3. InOrder' /\ ReserveHasOwner'
    BY <1>1, <1>2, <2>1 DEF AInv, InOrder, ReserveHasOwner, vars
  <2>4. ReserveAtHand'
    BY <1>1, <1>2, <2>1 DEF ReserveAtHand, OwnsWhatItNames
  <2> QED BY <1>2, <2>1, <2>2, <2>3, <2>4 DEF Owned, OwnsWhatItNames
<1>7. CASE OtherClose
  <2>1. PICK f \in Fd : plain[f] = "other" /\ plain' = [plain EXCEPT ![f] = "nothing"]
    BY <1>7 DEF OtherClose
  <2>2. UNCHANGED <<vars, at, m_idleFd, raced>>
    BY <1>7 DEF OtherClose
  <2>3. Held' = Held /\ Disjoint' /\ \A g \in Closed : g \in Closed'
    BY <1>1, <1>2, <2>1 DEF Held, Disjoint, Closed
  <2>4. InOrder' /\ ReserveHasOwner'
    BY <1>1, <1>2, <2>2 DEF AInv, InOrder, ReserveHasOwner, vars
  <2>5. ReserveAtHand'
    BY <1>1, <1>2, <2>2, <2>3 DEF ReserveAtHand
  <2> QED BY <1>2, <2>2, <2>3, <2>4, <2>5 DEF Owned, OwnsWhatItNames
<1> QED BY <1>3, <1>4, <1>5, <1>6, <1>7

-----------------------------------------------------------------------------

LEMMA AcceptorInvariance == AcceptorSpec => []AInv
<1>1. AcceptorInit => AInv
  <2>1. Init => IInv
    BY InitSound
  <2> SUFFICES ASSUME AcceptorInit PROVE AInv
    OBVIOUS
  <2>2. AcceptorTypeOK
    <3>1. backlog = 0 /\ at = "loop" /\ m_idleFd = None /\ raced = FALSE
          /\ plain = [f \in Fd |-> "nothing"]
      BY DEF AcceptorInit
    <3>2. 0 \in 0 .. MaxBacklog
      BY AcceptorAssumption
    <3>3. plain \in [Fd -> {"nothing", "reserve", "client", "other"}]
      BY <3>1
    <3>4. at \in Place
      BY <3>1 DEF Place
    <3> QED BY <3>1, <3>2, <3>3, <3>4, Zenon DEF AcceptorTypeOK
  <2>3. ~Live(Listen) /\ Held = {} /\ at = "loop" /\ m_idleFd = None /\ active = {}
    BY AcceptorAssumption DEF AcceptorInit, Init, EmptyPoller, Live, Held
  <2>4. Disjoint
    BY DEF AcceptorInit, Disjoint
  <2> QED BY <2>1, <2>2, <2>3, <2>4 DEF AcceptorInit, AInv, InOrder, ReserveHasOwner,
             OwnsWhatItNames, ReserveAtHand
<1>2. AInv /\ [AcceptorNext]_allVars => AInv'
  <2> SUFFICES ASSUME AInv, [AcceptorNext]_allVars PROVE AInv'
    OBVIOUS
  <2>1. IInv'
    BY StepKeepsToPoller, StepSound DEF AInv
  <2>2. CASE AcceptorNext
    <3>1. AcceptorTypeOK'
      BY <2>2, StepTyped
    <3>2. Owned'
      BY <2>1, <2>2, LoopStepOwned, PollerStepOwned, DescriptorStepOwned
      DEF AcceptorNext, LoopThread
    <3> QED BY <2>1, <3>1, <3>2 DEF AInv, Owned
  <2>3. CASE UNCHANGED allVars
    BY <2>1, <2>3 DEF AInv, AcceptorTypeOK, InOrder, Disjoint, ReserveHasOwner,
       OwnsWhatItNames, ReserveAtHand, Held, Closed, Live, FreeFd, allVars, vars,
       acceptorVars, otherVars
  <2> QED BY <2>2, <2>3
<1> QED BY <1>1, <1>2, PTL DEF AcceptorSpec

\* The state of the Acceptor keeps its type.
THEOREM AcceptorTypeCorrect == AcceptorSpec => []AcceptorTypeOK
<1>1. AInv => AcceptorTypeOK
  BY DEF AInv
<1> QED BY <1>1, AcceptorInvariance, PTL

\* The Acceptor never closes a descriptor of another thread, and leaves none of
\* its own open.
THEOREM AcceptorOwnsWhatItNames == AcceptorSpec => []OwnsWhatItNames
<1>1. AInv => OwnsWhatItNames
  BY DEF AInv
<1> QED BY <1>1, AcceptorInvariance, PTL

\* The reserve is lost only to another thread that was quicker.
THEOREM ReserveIsLostOnlyInRace == AcceptorSpec => []ReserveLostOnlyInRace
<1>1. AInv => ReserveLostOnlyInRace
  BY DEF AInv, AcceptorTypeOK, ReserveAtHand, ReserveLostOnlyInRace
<1> QED BY <1>1, AcceptorInvariance, PTL

\* The Acceptor, and the loop that it runs on, use the poller as Poller says.
THEOREM AcceptorKeepsToPoller == AcceptorSpec => KeepsToPoller
<1>1. AcceptorInit => Init
  BY DEF AcceptorInit
<1>2. AInv /\ [AcceptorNext]_allVars => [Next]_vars
  BY StepKeepsToPoller
<1> QED BY <1>1, <1>2, AcceptorInvariance, PTL DEF AcceptorSpec, KeepsToPoller, Spec

\* No assert of the poller fails whatever the Acceptor and the descriptors of
\* the process go through.
THEOREM AcceptorAssertsNeverFail == AcceptorSpec => []AssertsHold
<1>1. AInv => AssertsHold
  BY DEF AInv, IInv, Sound, AssertsHold
<1> QED BY <1>1, AcceptorInvariance, PTL
=============================================================================
