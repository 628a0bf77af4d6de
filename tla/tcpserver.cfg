\* One loop, two clients, one descriptor each: callbacks close, peers reset.
SPECIFICATION SafeSpec
CONSTANTS
  base = base
  io = io
  None = None
  Channel = {c1, c2}
  Fd = {f1, f2}
  Loops = {base}
  Base = base
  Pool <- NoPool
  Threads = {}
  UserOps <- Closing
  ThreadOps = {}
  PeerOps = {"data", "fin", "rst"}
  Stops = TRUE
  WakeupBytes = 2
  MaxPending = 8
  MaxRemote = 1
  HighWaterMark = 3
  MaxOut = 1
INVARIANTS
  FailsOnlyAtStop
  NoDanglingChannel
  ClosedIsSilent
  MapIsLive
  RemovedOnce
  NoneLeftOpen
PROPERTY LifeCycle
SYMMETRY Symmetry
CHECK_DEADLOCK FALSE
