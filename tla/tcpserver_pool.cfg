\* A server with one io loop, and a thread that sends, until the server is destroyed.
SPECIFICATION Spec
CONSTANTS
  base = base
  io = io
  None = None
  Channel = {c1}
  Fd = {f1}
  Loops = {base, io}
  Base = base
  Pool <- OneIoLoop
  Threads = {t1}
  UserOps <- Rejecting
  ThreadOps = {"send"}
  PeerOps = {"data", "rst"}
  Stops = TRUE
  WakeupBytes = 2
  MaxPending = 8
  MaxRemote = 1
  HighWaterMark = 3
  MaxOut = 1
INVARIANTS
  TypeOK
  FailsOnlyAtStop
  NoDanglingChannel
PROPERTIES
  CloseIsCarriedThrough
  StopEnds
CHECK_DEADLOCK FALSE
