SPECIFICATION Spec
CONSTANTS
  MEMORY_RAM_SIZE = 128
  MEMORY_STACK_SIZE = 8
  DISPLAY_WIDTH = 64
  DISPLAY_HEIGHT = 32
  OffsetFont = 0
  OffsetProgram = 96
  Garbage = {16}
  RandomBytes = {0}
  Presses <- NoPress
  NumOfROMs = 6561
  ROM <- ScreenROM
  Switches <- ScreenSwitches
  Chip8Fonts <- Fonts
PROPERTIES
  VFReportsErasure
