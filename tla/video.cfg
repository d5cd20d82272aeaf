SPECIFICATION FairSpec
CONSTANTS
  DISPLAY_WIDTH = 64
  DISPLAY_HEIGHT = 32
  Draws <- SafeDraws
INVARIANTS
  Mirror
PROPERTIES
  ScreenCatchesUp
  ImplementsScreen
