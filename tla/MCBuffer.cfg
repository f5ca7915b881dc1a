CONSTANTS
  Buffers = {b1, b2}
  kCheapPrepend = 1
  kInitialSize = 1
  ExtraBuf = 2
  IntMax = 1
  MaxLen = 3
  MaxBytes = 4
SPECIFICATION Spec
INVARIANTS
  TypeOK
  BufferAssertionsHold
PROPERTY ImplementsByteQueue
