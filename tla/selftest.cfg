SPECIFICATION FairSpec
CONSTANTS
  MEMORY_RAM_SIZE = 4096
  MEMORY_STACK_SIZE = 32
  DISPLAY_WIDTH = 64
  DISPLAY_HEIGHT = 32
  OffsetFont = 0
  OffsetProgram = 512
  Garbage = {16}
  RandomBytes = {0}
  Presses <- NoPress
  NumOfROMs = 1
  ROM <- ShippedROM
  Switches = {0, 9}
  Chip8Fonts <- Fonts
INVARIANTS
  SelfTestPasses
PROPERTIES
  SelfTestEnds
