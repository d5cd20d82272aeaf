SPECIFICATION FairSpec
CONSTANTS
  BUF_LEN = 3
  FIFO_DEPTH = 2
  THRESHOLD = 1
  INT_MAX = 4
  DEFAULT_TIMEOUT = 2
  Timeouts = {0}
  Configs <- MCConfigs
INVARIANTS
  WakeupsArmed
PROPERTIES
  ImplementsStream
  CallsReturn
  BytesMoveOn
