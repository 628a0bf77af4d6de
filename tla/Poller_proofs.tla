--------------------------- MODULE Poller_proofs ---------------------------
(***************************************************************************)
(* Proofs about Poller, for any number of channels and of descriptors: the *)
(* clients of a poller use it so that it stays Sound.                      *)
(***************************************************************************)
EXTENDS Poller, PollerOps_proofs

IInv == Sound(poller) /\ active \subseteq Channel

-----------------------------------------------------------------------------

\* Every operation of the clients of a poller keeps it sound.
LEMMA StepSound ==
  ASSUME IInv, [Next]_vars
  PROVE  IInv'
<1> USE NoneAssumption DEF IInv, Live
<1>1. ASSUME NEW c \in Channel, NEW f \in Fd, Open(c, f) PROVE IInv'
  <2>1. /\ Sound(poller') /\ poller'.fd = [poller.fd EXCEPT ![c] = f]
    BY <1>1, OpenSound DEF Open, FreeFd
  <2>2. poller.fd \in [Channel -> Fd \cup {None}]
    BY DEF Sound, PollerType
  <2> QED BY <1>1, <2>1, <2>2 DEF Open
<1>2. ASSUME NEW c \in Channel, Change(c) PROVE IInv'
  <2>1. PICK events \in SUBSET Interest : poller' = SetEvents(poller, c, events)
    <3>1. poller.events[c] \in SUBSET Interest
      BY DEF Sound, PollerType
    <3> QED BY <1>2, <3>1 DEF Change, EnableReading, DisableReading, EnableWriting,
               DisableWriting, DisableAll, Interest
  <2> QED BY <1>2, <2>1, SetEventsSound DEF Change
<1>3. ASSUME NEW c \in Channel, Remove(c) PROVE IInv'
  BY <1>3, RemoveSound DEF Remove
<1>4. ASSUME NEW c \in Channel, Close(c) PROVE IInv'
  BY <1>4, CloseSound DEF Close
<1>5. ASSUME NEW c \in Channel, Handle(c) PROVE IInv'
  BY <1>5 DEF Handle
<1>6. ASSUME NEW ready \in SUBSET Fd, Poll(ready) PROVE IInv'
  <2>1. ASSUME NEW f \in ready
        PROVE  /\ PointerIsValid(poller, f)
               /\ poller.epoll[f].ptr \in Channel
    <3>1. poller.epoll[f] \in Registration
      BY <1>6 DEF Poll, Sound, PollerType
    <3>2. poller.epoll[f].ptr \in Channel /\ poller.fd[poller.epoll[f].ptr] = f
      BY <1>6, <3>1 DEF Poll, Sound, PointersOwned, Registration
    <3>3. Mirrored(poller, poller.epoll[f].ptr)
      BY <3>2 DEF Sound
    <3>4. poller.index[poller.epoll[f].ptr] \in Index
      BY <3>2 DEF Sound, PollerType
    <3> QED BY <1>6, <3>2, <3>3, <3>4 DEF Poll, PointerIsValid, Mirrored, Index
  <2> QED BY <1>6, <2>1 DEF Poll
<1>7. CASE UNCHANGED vars
  BY <1>7 DEF vars
<1> QED BY <1>1, <1>2, <1>3, <1>4, <1>5, <1>6, <1>7 DEF Next

\* An empty poller is sound.
LEMMA InitSound == Init => IInv
BY NoneAssumption DEF Init, IInv, Sound, EmptyPoller, PollerType, Index, Assertion,
   Interest, Mirrored, PointersOwned, FdsDistinct

LEMMA Invariance == Spec => []IInv
<1>1. Init => IInv
  BY InitSound
<1>2. IInv /\ [Next]_vars => IInv'
  BY StepSound
<1> QED BY <1>1, <1>2, PTL DEF Spec

\* The poller and the list of active channels keep their types.
THEOREM TypeCorrect == Spec => []TypeOK
<1>1. IInv => TypeOK
  BY DEF IInv, Sound, TypeOK
<1> QED BY <1>1, Invariance, PTL

\* None of the asserts of epollpoller.cpp fails.
THEOREM AssertsNeverFail == Spec => []AssertsHold
<1>1. IInv => AssertsHold
  BY DEF IInv, Sound, AssertsHold
<1> QED BY <1>1, Invariance, PTL

\* m_channels, m_index and the kernel always agree.
THEOREM KernelIsMirrored == Spec => []KernelMirrors
<1>1. IInv => KernelMirrors
  BY DEF IInv, Sound, KernelMirrors, Live
<1> QED BY <1>1, Invariance, PTL

\* No pointer to a destroyed channel is ever kept.
THEOREM PointersNeverStale == Spec => []NoStalePointer
<1>1. IInv => NoStalePointer
  BY DEF IInv, Sound, NoStalePointer
<1> QED BY <1>1, Invariance, PTL
=============================================================================
