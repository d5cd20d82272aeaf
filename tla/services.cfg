SPECIFICATION Spec
CONSTANTS
  HeapLimit = 160
  StackCheck = TRUE
  StackPointer = 200
  Fn = {f}
  Site = {s, t, u}
  Record = 12
  Slab = 24
  BucketBytes = 32
  TextSize = 112
  Increments = {5}
  CallBound = 2
  HeapBound = 2
  WORD = 64
  US = 12
  Rates = {1, 3, 5, 12}
  Settings <- Times
  CpuFreq = 50
  CyclesPerLoop = 9
  WordSize = 256
  HexDigits = 2
  BufferSize = 4
  Flags = 3
  Room = 2
  Lengths = {1, 2}
  Interval = 2
  Nesting = 3
  MessageBound = 4
  Objects = 2
  Builds <- AllBuilds
  Signals = {"null", "terminating", "ignored", "other"}
  Arguments = 255
  Operands = {0, 1, 2, 85, 127, 128, 254, 255}
INVARIANTS
  MemoryApart
  CallsCounted
  TimeKept
  LogLosesLittle
  ProgramFindsItsWorld
  NumbersReadBack
  ArithmeticAgrees
CHECK_DEADLOCK FALSE
