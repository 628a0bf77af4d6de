\* Two threads, whose loops may be told to quit by anybody at any time.
SPECIFICATION Spec
CONSTANTS
  NumThreads = 2
  NoLoop = NoLoop
  MaxPicks = 3
INVARIANTS
  TypeOK
  OnlyQuitLoopsAreMissing
  JoinedBeforeFreed
  TurnsAreEven
PROPERTIES
  StartReturns
  StopReturns
CHECK_DEADLOCK FALSE
