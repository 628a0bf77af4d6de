-------------------------- MODULE PollerOps_proofs --------------------------
(***************************************************************************)
(* Lemmas about PollerOps, for any number of channels and of descriptors:  *)
(* what its operations make of a poller that is Sound.                     *)
(***************************************************************************)
EXTENDS PollerOps, TLAPS

\* No assert failed, and the three records of who is registered agree.
Sound(p) ==
  /\ p \in PollerType
  /\ p.failed = "none"
  /\ \A c \in Channel : p.fd[c] # None => Mirrored(p, c)
  /\ \A f \in Fd : PointersOwned(p, f)
  /\ FdsDistinct(p)

\* Between p and q, only channel c is another.
OnlyChanges(c, p, q) ==
  \A d \in Channel \ {c} :
     q.fd[d] = p.fd[d] /\ q.events[d] = p.events[d] /\ q.index[d] = p.index[d]

-----------------------------------------------------------------------------

\* A channel that has events is registered for just these, one that loses its
\* last event is unregistered (and one that had none is registered for none),
\* and neither needs an assert to fail.  The other
\* channels are left alone.
LEMMA SetEventsSound ==
  ASSUME NEW p, Sound(p), NEW c \in Channel, p.fd[c] # None,
         NEW events \in SUBSET Interest
  PROVE  /\ Sound(SetEvents(p, c, events))
         /\ SetEvents(p, c, events).fd = p.fd
         /\ OnlyChanges(c, p, SetEvents(p, c, events))
         /\ SetEvents(p, c, events).events[c] = events
         /\ SetEvents(p, c, events).index[c] =
              IF p.index[c] = "added" /\ events = {} THEN "deleted" ELSE "added"
<1> DEFINE f == p.fd[c]
           q == SetEvents(p, c, events)
           r == [ptr |-> c, events |-> events]
<1> USE NoneAssumption
<1>1. /\ p \in PollerType /\ f \in Fd /\ r \in Registration
      /\ r # None /\ c # None
      /\ Mirrored(p, c)
  BY DEF Sound, PollerType, Registration
<1>2. CASE p.index[c] = "added" /\ events = {}
  <2>1. q = [p EXCEPT !.events[c] = events, !.index[c] = "deleted", !.epoll[f] = None]
    BY <1>1, <1>2 DEF SetEvents, UpdateChannel, EpollDel, PollerType, Mirrored
  <2> HIDE DEF q
  <2>2. /\ q.fd = p.fd /\ q.channels = p.channels /\ q.failed = p.failed
        /\ q.events = [p.events EXCEPT ![c] = events]
        /\ q.index = [p.index EXCEPT ![c] = "deleted"]
        /\ q.epoll = [p.epoll EXCEPT ![f] = None]
        /\ q \in PollerType
    BY <1>1, <2>1 DEF PollerType, Index
  <2>3. Sound(q)
    BY <1>1, <1>2, <2>2 DEF Sound, PollerType, Mirrored, PointersOwned, FdsDistinct,
       RegistrationOf
  <2>4. OnlyChanges(c, p, q) /\ q.events[c] = events /\ q.index[c] = "deleted"
    BY <1>1, <2>2 DEF OnlyChanges, PollerType
  <2> QED BY <1>2, <2>2, <2>3, <2>4 DEF q
<1>3. CASE p.index[c] = "added" /\ events # {}
  <2> DEFINE s == [p EXCEPT !.events[c] = events]
  <2>1. p.epoll[f] # None /\ p.channels[f] = c
    BY <1>1, <1>3 DEF Mirrored, RegistrationOf, Registration, PollerType
  <2>2. /\ s.fd = p.fd /\ s.index = p.index /\ s.channels = p.channels
        /\ s.epoll = p.epoll /\ s.events[c] = events
    BY <1>1 DEF PollerType
  <2>3. q = [s EXCEPT !.epoll[f] = r]
    BY <1>3, <2>1, <2>2 DEF SetEvents, UpdateChannel, EpollMod, RegistrationOf
  <2>4. q = [p EXCEPT !.events[c] = events, !.epoll[f] = r]
    BY <2>3
  <2> HIDE DEF q
  <2>5. /\ q.fd = p.fd /\ q.channels = p.channels /\ q.failed = p.failed
        /\ q.events = [p.events EXCEPT ![c] = events]
        /\ q.index = p.index
        /\ q.epoll = [p.epoll EXCEPT ![f] = r]
        /\ q \in PollerType
    BY <1>1, <2>4 DEF PollerType
  <2>6. Sound(q)
    BY <1>1, <1>3, <2>5 DEF Sound, PollerType, Mirrored, PointersOwned, FdsDistinct,
       RegistrationOf
  <2>7. OnlyChanges(c, p, q) /\ q.events[c] = events /\ q.index[c] = "added"
    BY <1>1, <1>3, <2>5 DEF OnlyChanges, PollerType
  <2> QED BY <1>3, <2>5, <2>6, <2>7 DEF q
<1>4. CASE p.index[c] # "added"
  <2>1. q = [p EXCEPT !.events[c] = events, !.channels[f] = c, !.index[c] = "added",
                      !.epoll[f] = r]
    BY <1>1, <1>4 DEF SetEvents, UpdateChannel, EpollAdd, PollerType, Mirrored,
       RegistrationOf, Index
  <2> HIDE DEF q
  <2>2. /\ q.fd = p.fd /\ q.failed = p.failed
        /\ q.channels = [p.channels EXCEPT ![f] = c]
        /\ q.events = [p.events EXCEPT ![c] = events]
        /\ q.index = [p.index EXCEPT ![c] = "added"]
        /\ q.epoll = [p.epoll EXCEPT ![f] = r]
        /\ q \in PollerType
    BY <1>1, <2>1 DEF PollerType, Index
  <2>3. Sound(q)
    BY <1>1, <1>4, <2>2 DEF Sound, PollerType, Mirrored, PointersOwned, FdsDistinct,
       RegistrationOf
  <2>4. OnlyChanges(c, p, q) /\ q.events[c] = events /\ q.index[c] = "added"
    BY <1>1, <2>2 DEF OnlyChanges, PollerType
  <2> QED BY <1>4, <2>2, <2>3, <2>4 DEF q
<1> QED BY <1>2, <1>3, <1>4

\* A registered channel without events can be removed.
LEMMA RemoveSound ==
  ASSUME NEW p, Sound(p), NEW c \in Channel, p.fd[c] # None,
         p.index[c] # "new", p.events[c] = {}
  PROVE  /\ Sound(RemoveChannel(p, c))
         /\ RemoveChannel(p, c).fd = p.fd /\ RemoveChannel(p, c).events[c] = {}
         /\ RemoveChannel(p, c).index[c] = "new"
         /\ OnlyChanges(c, p, RemoveChannel(p, c))
<1> DEFINE f == p.fd[c]
           q == RemoveChannel(p, c)
<1> USE NoneAssumption
<1>1. /\ p \in PollerType /\ f \in Fd /\ c # None
      /\ Mirrored(p, c)
  BY DEF Sound, PollerType
<1>2. p.channels[f] = c /\ p.index[c] \in {"added", "deleted"}
  BY <1>1 DEF Mirrored, PollerType, Index
<1>3. /\ q.fd = p.fd /\ q.failed = p.failed /\ q.events = p.events
      /\ q.channels = [p.channels EXCEPT ![f] = None]
      /\ q.index = [p.index EXCEPT ![c] = "new"]
      /\ q.epoll = [p.epoll EXCEPT ![f] = None]
      /\ q \in PollerType
  <2>1. CASE p.index[c] = "added"
    <3>1. q = [p EXCEPT !.epoll[f] = None, !.channels[f] = None, !.index[c] = "new"]
      BY <1>1, <1>2, <2>1 DEF RemoveChannel, EpollDel, PollerType
    <3> HIDE DEF q
    <3> QED BY <1>1, <3>1 DEF PollerType, Index
  <2>2. CASE p.index[c] = "deleted"
    <3>1. q = [p EXCEPT !.channels[f] = None, !.index[c] = "new"]
      BY <1>1, <1>2, <2>2 DEF RemoveChannel, PollerType
    <3> HIDE DEF q
    <3>2. p.epoll = [p.epoll EXCEPT ![f] = None]
      BY <1>1, <2>2 DEF Mirrored, PollerType
    <3> QED BY <1>1, <3>1, <3>2 DEF PollerType, Index
  <2> QED BY <1>2, <2>1, <2>2
<1> HIDE DEF q
<1>4. Sound(q)
  BY <1>1, <1>2, <1>3 DEF Sound, PollerType, Mirrored, PointersOwned, FdsDistinct,
     RegistrationOf
<1>5. OnlyChanges(c, p, q) /\ q.events[c] = {} /\ q.index[c] = "new"
  BY <1>1, <1>3 DEF OnlyChanges, PollerType
<1> QED BY <1>3, <1>4, <1>5 DEF q

\* A descriptor that no channel has can be given to a new channel.
LEMMA OpenSound ==
  ASSUME NEW p, Sound(p), NEW c \in Channel, p.fd[c] = None,
         NEW f \in Fd, \A d \in Channel : p.fd[d] # f
  PROVE  /\ Sound(OpenChannel(p, c, f))
         /\ OpenChannel(p, c, f).fd = [p.fd EXCEPT ![c] = f]
         /\ OpenChannel(p, c, f).events[c] = {}
         /\ OpenChannel(p, c, f).index[c] = "new"
         /\ OnlyChanges(c, p, OpenChannel(p, c, f))
<1> DEFINE q == OpenChannel(p, c, f)
<1> USE NoneAssumption
<1>1. p \in PollerType /\ f # None
  BY DEF Sound
<1>2. p.channels[f] = None /\ p.epoll[f] = None
  BY <1>1 DEF Sound, PointersOwned, PollerType, Registration
<1>3. /\ q.fd = [p.fd EXCEPT ![c] = f]
      /\ q.events = [p.events EXCEPT ![c] = {}]
      /\ q.index = [p.index EXCEPT ![c] = "new"]
      /\ q.channels = p.channels /\ q.epoll = p.epoll /\ q.failed = p.failed
      /\ q \in PollerType
  BY <1>1 DEF OpenChannel, PollerType, Index
<1> HIDE DEF q
<1>4. \A d \in Channel : q.fd[d] # None => Mirrored(q, d)
  BY <1>1, <1>2, <1>3 DEF Sound, PollerType, Mirrored, RegistrationOf
<1>5. \A g \in Fd : PointersOwned(q, g)
  BY <1>1, <1>2, <1>3 DEF Sound, PollerType, PointersOwned, Registration
<1>6. FdsDistinct(q)
  BY <1>1, <1>3 DEF Sound, PollerType, FdsDistinct
<1>7. OnlyChanges(c, p, q) /\ q.events[c] = {} /\ q.index[c] = "new"
  BY <1>1, <1>3 DEF OnlyChanges, PollerType
<1> QED BY <1>3, <1>4, <1>5, <1>6, <1>7 DEF Sound, q

\* Channels that their poller does not know can be destroyed.
LEMMA CloseAllSound ==
  ASSUME NEW p, Sound(p), NEW closed \in SUBSET Channel,
         \A c \in closed : p.fd[c] # None /\ p.index[c] = "new"
  PROVE  /\ Sound(CloseChannels(p, closed))
         /\ \A c \in closed : CloseChannels(p, closed).fd[c] = None
         /\ \A c \in Channel \ closed :
               /\ CloseChannels(p, closed).fd[c] = p.fd[c]
               /\ CloseChannels(p, closed).events[c] = p.events[c]
               /\ CloseChannels(p, closed).index[c] = p.index[c]
         /\ \A c \in closed : CloseChannels(p, closed).events[c] = {}
         /\ \A c \in closed : CloseChannels(p, closed).index[c] = "new"
<1> DEFINE q == CloseChannels(p, closed)
<1> USE NoneAssumption
<1>1. /\ p \in PollerType
      /\ \A c \in closed : c \in Channel /\ p.fd[c] \in Fd /\ Mirrored(p, c)
  BY DEF Sound, PollerType
<1>2. /\ q.fd = [c \in Channel |-> IF c \in closed THEN None ELSE p.fd[c]]
      /\ q.events = [c \in Channel |-> IF c \in closed THEN {} ELSE p.events[c]]
      /\ q.index = [c \in Channel |-> IF c \in closed THEN "new" ELSE p.index[c]]
      /\ q.epoll = [f \in Fd |-> IF \E c \in closed : p.fd[c] = f THEN None ELSE p.epoll[f]]
      /\ q.channels = p.channels /\ q.failed = p.failed
  BY <1>1 DEF CloseChannels, PollerType
<1>3. q \in PollerType
  BY <1>1, <1>2 DEF CloseChannels, PollerType, Index
<1> HIDE DEF q
<1>4. \A d \in Channel : q.fd[d] # None => Mirrored(q, d)
  <2> SUFFICES ASSUME NEW d \in Channel, q.fd[d] # None PROVE Mirrored(q, d)
    OBVIOUS
  <2>1. d \notin closed /\ p.fd[d] # None /\ p.fd[d] \in Fd
    BY <1>1, <1>2 DEF PollerType
  <2>2. \A c \in closed : p.fd[c] # p.fd[d]
    BY <1>1, <2>1 DEF Sound, FdsDistinct
  <2>3. Mirrored(p, d)
    BY <2>1 DEF Sound
  <2> QED BY <1>1, <1>2, <2>1, <2>2, <2>3 DEF Mirrored, RegistrationOf
<1>5. \A g \in Fd : PointersOwned(q, g)
  <2> SUFFICES ASSUME NEW g \in Fd PROVE PointersOwned(q, g)
    OBVIOUS
  <2>1. PointersOwned(p, g)
    BY DEF Sound
  <2>2. \A c \in closed : p.channels[g] # c
    BY <1>1, <2>1 DEF Mirrored, PointersOwned
  <2>3. q.epoll[g] # None =>
          p.epoll[g] # None /\ q.epoll[g] = p.epoll[g] /\ \A c \in closed : p.fd[c] # g
    BY <1>1, <1>2
  <2>4. p.epoll[g] # None => p.epoll[g].ptr \in Channel
    BY <1>1 DEF PollerType, Registration
  <2>5. p.channels[g] # None => p.channels[g] \in Channel
    BY <1>1 DEF PollerType
  <2> QED BY <1>2, <2>1, <2>2, <2>3, <2>4, <2>5 DEF PointersOwned
<1>6. FdsDistinct(q)
  BY <1>1, <1>2 DEF Sound, FdsDistinct
<1>7. p.failed = "none"
  BY DEF Sound
<1>8. /\ \A c \in closed : q.fd[c] = None /\ q.events[c] = {} /\ q.index[c] = "new"
      /\ \A c \in Channel \ closed :
            q.fd[c] = p.fd[c] /\ q.events[c] = p.events[c] /\ q.index[c] = p.index[c]
  <2>1. ASSUME NEW c \in Channel
        PROVE  /\ q.fd[c] = IF c \in closed THEN None ELSE p.fd[c]
               /\ q.events[c] = IF c \in closed THEN {} ELSE p.events[c]
               /\ q.index[c] = IF c \in closed THEN "new" ELSE p.index[c]
    BY <1>2
  <2> QED BY <2>1
<1>9. Sound(q)
  BY <1>2, <1>3, <1>4, <1>5, <1>6, <1>7 DEF Sound
<1> QED BY <1>8, <1>9 DEF q

\* The same of one channel.
LEMMA CloseSound ==
  ASSUME NEW p, Sound(p), NEW c \in Channel, p.fd[c] # None, p.index[c] = "new"
  PROVE  /\ Sound(CloseChannel(p, c))
         /\ CloseChannel(p, c).fd = [p.fd EXCEPT ![c] = None]
         /\ CloseChannel(p, c).events[c] = {}
         /\ CloseChannel(p, c).index[c] = "new"
         /\ OnlyChanges(c, p, CloseChannel(p, c))
<1> DEFINE q == CloseChannels(p, {c})
<1>1. /\ Sound(q)
      /\ q.fd[c] = None /\ q.events[c] = {} /\ q.index[c] = "new"
      /\ \A d \in Channel \ {c} :
            q.fd[d] = p.fd[d] /\ q.events[d] = p.events[d] /\ q.index[d] = p.index[d]
  BY CloseAllSound
<1> HIDE DEF q
<1>2. q.fd \in [Channel -> Fd \cup {None}] /\ p.fd \in [Channel -> Fd \cup {None}]
  BY <1>1 DEF Sound, PollerType
<1>3. q.fd = [p.fd EXCEPT ![c] = None]
  BY <1>1, <1>2
<1> QED BY <1>1, <1>3 DEF CloseChannel, OnlyChanges, q
=============================================================================
