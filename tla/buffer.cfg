\* One buffer whose owner calls its methods in any order.
SPECIFICATION Spec
CONSTANTS
  Byte = {0, 1}
  Zero = 0
  CR = 0
  LF = 1
  kCheapPrepend = 2
  kInitialSize = 2
  ExtraBuf = 2
  MaxBytes = 3
INVARIANTS
  TypeOK
  SpaceIsBounded
PROPERTIES
  HeaderRoomKept
  IsByteQueue
