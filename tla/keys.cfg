SPECIFICATION FairSpec
CONSTANTS
  MEMORY_RAM_SIZE = 128
  MEMORY_STACK_SIZE = 8
  DISPLAY_WIDTH = 64
  DISPLAY_HEIGHT = 32
  OffsetFont = 0
  OffsetProgram = 96
  Garbage = {16}
  RandomBytes = {0}
  Presses <- OneButton
  NumOfROMs = 6561
  ROM <- KeyROM
  Switches <- KeySwitches
  Chip8Fonts <- Fonts
INVARIANTS
  KeypadFollowsMap
PROPERTIES
  HeldKeyEndsWait
  TimersDrain
  HangsForGood
