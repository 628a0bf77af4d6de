\* A message that write() takes only a part of.
SPECIFICATION WritesSpec
CONSTANTS
  base = base
  io = io
  None = None
  Channel = {c1}
  Fd = {f1}
  Loops = {base}
  Base = base
  Pool <- NoPool
  Threads = {}
  UserOps <- Answering
  ThreadOps = {}
  PeerOps = {"data", "fin"}
  Stops = FALSE
  WakeupBytes = 2
  MaxPending = 8
  MaxRemote = 1
  HighWaterMark = 3
  MaxOut = 1
PROPERTY OutputIsWritten
