\* A thread calls shutdown() while the loop closes the connection.
SPECIFICATION SafeSpec
CONSTANTS
  base = base
  io = io
  None = None
  Channel = {c1}
  Fd = {f1}
  Loops = {base}
  Base = base
  Pool <- NoPool
  Threads = {t1}
  UserOps <- Answering
  ThreadOps = {"shutdown", "forceClose"}
  PeerOps = {"fin"}
  Stops = FALSE
  WakeupBytes = 2
  MaxPending = 8
  MaxRemote = 1
  HighWaterMark = 3
  MaxOut = 1
INVARIANT DestroyedWhenDown
CHECK_DEADLOCK FALSE
