\* The 2-byte write of wakeup() does not wake a loop that has functors to run.
SPECIFICATION SafeSpec
CONSTANTS
  Loops = {l1}
  Threads = {t1}
  Task = {"task"}
  Channels = {"io"}
  WakeupBytes = 2
  MaxPending = 1
  Burst = 1
INVARIANTS
  NeverSleepsOnWork
CHECK_DEADLOCK FALSE
