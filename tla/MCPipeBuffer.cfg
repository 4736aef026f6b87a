SPECIFICATION Spec
CONSTANTS
  Byte = {0, 1}
  MaxSize = 5
  PIPE_BUF_SIZE = 2
  AtomicIO = 3
INVARIANTS PeekIsRead
PROPERTIES ImplementsFifo
