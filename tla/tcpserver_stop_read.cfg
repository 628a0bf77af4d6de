\* A connection that stopped reading is closed, and reset.
SPECIFICATION SafeSpec
CONSTANTS
  base = base
  io = io
  None = None
  Channel = {c1}
  Fd = {f1}
  Loops = {base}
  Base = base
  Pool <- NoPool
  Threads = {t1}
  UserOps <- Pausing
  ThreadOps = {"forceClose"}
  PeerOps = {"rst"}
  Stops = FALSE
  WakeupBytes = 2
  MaxPending = 8
  MaxRemote = 1
  HighWaterMark = 3
  MaxOut = 1
INVARIANT ClosedOnce
CHECK_DEADLOCK FALSE
