------------------------------- MODULE Poller -------------------------------
(***************************************************************************)
(* One EPollPoller under the use that its clients make of it: the owner of *)
(* a channel changes its events at any time, removes it when it has none,  *)
(* and destroys it, closing its descriptor, once it is removed, also while *)
(* the loop is dispatching events.  A closed descriptor is reused by the   *)
(* next channel that is opened.                                            *)
(*                                                                         *)
(* Nothing in the poller keeps the channels of m_activeChannels alive: it  *)
(* is for their owners not to destroy one whose event is still to come.    *)
(***************************************************************************)
EXTENDS PollerOps

VARIABLES
  poller,   \* the poller, its channels, and its epoll instance
  active    \* m_activeChannels that are still to be handled

vars == <<poller, active>>

Live(c) == poller.fd[c] # None

FreeFd(f) == \A c \in Channel : poller.fd[c] # f

TypeOK == poller \in PollerType /\ active \subseteq Channel

Init == poller = EmptyPoller /\ active = {}

-----------------------------------------------------------------------------

Open(c, f) ==
  /\ ~Live(c) /\ FreeFd(f)
  /\ poller' = OpenChannel(poller, c, f)
  /\ UNCHANGED active

\* enableReading(), disableReading(), enableWriting(), disableWriting() and
\* disableAll().
Change(c) ==
  /\ Live(c)
  /\ poller' \in {EnableReading(poller, c), DisableReading(poller, c),
                  EnableWriting(poller, c), DisableWriting(poller, c),
                  DisableAll(poller, c)}
  /\ UNCHANGED active

Remove(c) ==
  /\ Live(c) /\ poller.index[c] # "new" /\ poller.events[c] = {}
  /\ poller' = RemoveChannel(poller, c)
  /\ UNCHANGED active

\* Mutant: a channel is destroyed although it was not removed from its poller.
Close_NotRemoved(c) ==
  /\ Live(c) /\ poller.events[c] = {}
  /\ poller' = CloseChannel(poller, c)
  /\ UNCHANGED active

Close(c) ==
  /\ Live(c) /\ poller.index[c] = "new"
  /\ poller' = CloseChannel(poller, c)
  /\ UNCHANGED active

\* Mutant: the list gets the descriptors instead of the channels.
Poll_Fds(ready) ==
  /\ active = {}
  /\ \A f \in ready : poller.epoll[f] # None
  /\ active' = ready
  /\ UNCHANGED poller

\* poll() turns the events that epoll_wait() returns into active channels.
Poll(ready) ==
  /\ active = {}
  /\ \A f \in ready : poller.epoll[f] # None
  /\ IF \A f \in ready : PointerIsValid(poller, f)
     THEN /\ active' = {poller.epoll[f].ptr : f \in ready}
          /\ UNCHANGED poller
     ELSE /\ poller' = Abort(poller, "fillActiveChannels")
          /\ UNCHANGED active

Handle(c) ==
  /\ c \in active
  /\ active' = active \ {c}
  /\ UNCHANGED poller

Next ==
  /\ poller.failed = "none"
  /\ \/ \E c \in Channel, f \in Fd : Open(c, f)
     \/ \E c \in Channel : Change(c) \/ Remove(c) \/ Close(c) \/ Handle(c)
     \/ \E ready \in SUBSET Fd : Poll(ready)

Spec == Init /\ [][Next]_vars

-----------------------------------------------------------------------------

\* No assert() of the poller fails.
AssertsHold == poller.failed = "none"

\* m_channels, m_index and the kernel agree on every channel, whatever sequence
\* of changes, removals and reuses of a descriptor led there.
KernelMirrors == \A c \in Channel : Live(c) => Mirrored(poller, c)

\* Neither m_channels nor the kernel holds a pointer to a channel that was
\* destroyed or that has another descriptor, even after descriptors are reused.
NoStalePointer == \A f \in Fd : PointersOwned(poller, f)
=============================================================================
