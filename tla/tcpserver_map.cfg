\* A server with an io loop, whose connection is closed.
SPECIFICATION SafeSpec
CONSTANTS
  base = base
  io = io
  None = None
  Channel = {c1}
  Fd = {f1}
  Loops = {base, io}
  Base = base
  Pool <- OneIoLoop
  Threads = {}
  UserOps <- Answering
  ThreadOps = {}
  PeerOps = {"data", "fin", "rst"}
  Stops = FALSE
  WakeupBytes = 2
  MaxPending = 8
  MaxRemote = 1
  HighWaterMark = 3
  MaxOut = 1
PROPERTY MapOwnedByBase
