----------------------------- MODULE PollerOps -----------------------------
(***************************************************************************)
(* seenet's EPollPoller and the part of Channel that talks to it, as       *)
(* functions of a record: a poller p has                                   *)
(*                                                                         *)
(*   p.fd[c]        m_fd of the Channel object c, None if there is no such *)
(*                  object (not constructed yet, or destroyed)             *)
(*   p.events[c]    m_events, as the set of "read" and "write"             *)
(*   p.index[c]     m_index: "new" (kNew), "added" or "deleted"            *)
(*   p.channels[f]  m_channels: the Channel pointer kept for f, or None    *)
(*   p.epoll[f]     what the kernel holds for f in the epoll instance: the *)
(*                  pointer and the events of the last epoll_ctl(), or     *)
(*                  None                                                   *)
(*   p.failed       the function whose assert() failed, or "none"          *)
(***************************************************************************)
EXTENDS Naturals

CONSTANTS
  Channel,   \* the Channel objects
  Fd,        \* the file descriptors
  None       \* no channel, no descriptor, no registration

Interest == {"read", "write"}

Index == {"new", "added", "deleted"}

Registration == [ptr : Channel, events : SUBSET Interest]

ASSUME NoneAssumption == None \notin Channel \cup Fd \cup Registration

Assertion == {"none", "updateChannel", "removeChannel", "fillActiveChannels"}

PollerType ==
  [fd       : [Channel -> Fd \cup {None}],
   events   : [Channel -> SUBSET Interest],
   index    : [Channel -> Index],
   channels : [Fd -> Channel \cup {None}],
   epoll    : [Fd -> Registration \cup {None}],
   failed   : Assertion]

EmptyPoller ==
  [fd       |-> [c \in Channel |-> None],
   events   |-> [c \in Channel |-> {}],
   index    |-> [c \in Channel |-> "new"],
   channels |-> [f \in Fd |-> None],
   epoll    |-> [f \in Fd |-> None],
   failed   |-> "none"]

Abort(p, where) == [p EXCEPT !.failed = where]

-----------------------------------------------------------------------------
(* epoll_ctl(2): an ADD of a descriptor that is registered and a MOD of    *)
(* one that is not fail, and update() only logs it.                        *)

RegistrationOf(p, c) == [ptr |-> c, events |-> p.events[c]]

EpollAdd(p, c) ==
  IF p.epoll[p.fd[c]] = None
  THEN [p EXCEPT !.epoll[p.fd[c]] = RegistrationOf(p, c)] ELSE p

EpollMod(p, c) ==
  IF p.epoll[p.fd[c]] # None
  THEN [p EXCEPT !.epoll[p.fd[c]] = RegistrationOf(p, c)] ELSE p

EpollDel(p, c) == [p EXCEPT !.epoll[p.fd[c]] = None]

-----------------------------------------------------------------------------
(* EPollPoller.                                                            *)

\* Mutant: the channel that is removed from the kernel stays kAdded.
UpdateChannel_StaysAdded(p, c) ==
  LET f == p.fd[c] IN
  IF p.index[c] = "added"
  THEN IF p.channels[f] # c THEN Abort(p, "updateChannel")
       ELSE IF p.events[c] = {} THEN EpollDel(p, c)
       ELSE EpollMod(p, c)
  ELSE IF p.channels[f] # (IF p.index[c] = "new" THEN None ELSE c)
       THEN Abort(p, "updateChannel")
       ELSE EpollAdd([p EXCEPT !.channels[f] = c, !.index[c] = "added"], c)

\* A kNew or kDeleted channel is ADDed, whatever its events; a kAdded one is
\* DELeted when it has no events left and MODified otherwise.
UpdateChannel(p, c) ==
  LET f == p.fd[c] IN
  IF p.index[c] = "added"
  THEN IF p.channels[f] # c THEN Abort(p, "updateChannel")
       ELSE IF p.events[c] = {} THEN EpollDel([p EXCEPT !.index[c] = "deleted"], c)
       ELSE EpollMod(p, c)
  ELSE IF p.channels[f] # (IF p.index[c] = "new" THEN None ELSE c)
       THEN Abort(p, "updateChannel")
       ELSE EpollAdd([p EXCEPT !.channels[f] = c, !.index[c] = "added"], c)

\* Mutant: m_channels keeps the pointer of the removed channel.
RemoveChannel_NoErase(p, c) ==
  LET f == p.fd[c] IN
  IF p.channels[f] # c \/ p.events[c] # {} \/ p.index[c] \notin {"added", "deleted"}
  THEN Abort(p, "removeChannel")
  ELSE [(IF p.index[c] = "added" THEN EpollDel(p, c) ELSE p)
          EXCEPT !.index[c] = "new"]

RemoveChannel(p, c) ==
  LET f == p.fd[c] IN
  IF p.channels[f] # c \/ p.events[c] # {} \/ p.index[c] \notin {"added", "deleted"}
  THEN Abort(p, "removeChannel")
  ELSE [(IF p.index[c] = "added" THEN EpollDel(p, c) ELSE p)
          EXCEPT !.channels[f] = None, !.index[c] = "new"]

\* Whether the asserts of fillActiveChannels() hold of an event for f.
PointerIsValid(p, f) ==
  LET c == p.epoll[f].ptr IN p.fd[c] = f /\ p.channels[f] = c

-----------------------------------------------------------------------------
(* Channel.                                                                *)

SetEvents(p, c, events) == UpdateChannel([p EXCEPT !.events[c] = events], c)

EnableReading(p, c)  == SetEvents(p, c, p.events[c] \cup {"read"})
DisableReading(p, c) == SetEvents(p, c, p.events[c] \ {"read"})
EnableWriting(p, c)  == SetEvents(p, c, p.events[c] \cup {"write"})
DisableWriting(p, c) == SetEvents(p, c, p.events[c] \ {"write"})
DisableAll(p, c)     == SetEvents(p, c, {})

IsReading(p, c) == "read" \in p.events[c]
IsWriting(p, c) == "write" \in p.events[c]

\* A Channel object is constructed for a descriptor that was just opened.
OpenChannel(p, c, f) ==
  [p EXCEPT !.fd[c] = f, !.events[c] = {}, !.index[c] = "new"]

\* The Channel objects of a set are destroyed and their descriptors closed: the
\* kernel drops the registration of a closed descriptor, m_channels keeps its
\* pointer.
CloseChannels(p, closed) ==
  [p EXCEPT !.epoll  = [f \in Fd |-> IF \E c \in closed : p.fd[c] = f THEN None ELSE @[f]],
            !.fd     = [c \in Channel |-> IF c \in closed THEN None ELSE @[c]],
            !.events = [c \in Channel |-> IF c \in closed THEN {} ELSE @[c]],
            !.index  = [c \in Channel |-> IF c \in closed THEN "new" ELSE @[c]]]

CloseChannel(p, c) == CloseChannels(p, {c})

-----------------------------------------------------------------------------
(* What the asserts of the poller rely on.                                 *)

\* m_channels, m_index and the kernel agree on channel c: a kAdded channel is
\* registered in both with exactly its current events, a kDeleted one only in
\* m_channels, a kNew one in neither.
Mirrored(p, c) ==
  LET f == p.fd[c] IN
  /\ p.index[c] = "added" => p.channels[f] = c /\ p.epoll[f] = RegistrationOf(p, c)
  /\ p.index[c] = "deleted" => p.channels[f] = c /\ p.epoll[f] = None
  /\ p.index[c] = "new" => p.channels[f] = None /\ p.epoll[f] = None

\* The pointers kept for descriptor f are those of the channel that owns f.
PointersOwned(p, f) ==
  /\ p.channels[f] # None => p.fd[p.channels[f]] = f
  /\ p.epoll[f] # None => p.fd[p.epoll[f].ptr] = f

\* No two channels have the same descriptor.
FdsDistinct(p) ==
  \A c, d \in Channel : c # d /\ p.fd[c] # None => p.fd[c] # p.fd[d]
=============================================================================
