\* The server is destroyed after a connection was shut down for writing.
SPECIFICATION SafeSpec
CONSTANTS
  base = base
  io = io
  None = None
  Channel = {c1}
  Fd = {f1}
  Loops = {base}
  Base = base
  Pool <- NoPool
  Threads = {}
  UserOps <- Parting
  ThreadOps = {}
  PeerOps = {"data"}
  Stops = TRUE
  WakeupBytes = 2
  MaxPending = 8
  MaxRemote = 1
  HighWaterMark = 3
  MaxOut = 1
INVARIANT RemovedWhenDisabled
CHECK_DEADLOCK FALSE
