SPECIFICATION HSpec
CONSTANTS
  MEMORY_RAM_SIZE = 128
  MEMORY_STACK_SIZE = 8
  DISPLAY_WIDTH = 64
  DISPLAY_HEIGHT = 32
  OffsetFont = 0
  OffsetProgram = 96
  Garbage = {16}
  RandomBytes = {254}
  Presses <- NoPress
  NumOfROMs = 11953
  ROM <- MixedROM
  Switches <- MixedSwitches
  Chip8Fonts <- Fonts
PROPERTIES
  CallsNest
  StoresRoundTrip
  DrawIsXor
