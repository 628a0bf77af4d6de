\* One loop and two threads that call into it: its own callbacks queue on it and
\* tell it to quit, and so do the threads.
SPECIFICATION Spec
CONSTANTS
  Loops = {l1}
  Threads = {t1, t2}
  Task = {"task"}
  Channels = {"io"}
  WakeupBytes = 2
  MaxPending = 3
  Burst = 2
INVARIANTS
  BatchDone
  OwnHandlersServed
PROPERTIES
  BatchIsFixed
  QueueIsFIFO
  EveryFunctorRuns
  QuitStopsLoop
CHECK_DEADLOCK FALSE
