SPECIFICATION FairSpec
CONSTANTS
  h_pixels = 16
  h_fp = 2
  h_pulse = 3
  h_bp = 5
  h_pol = 0
  v_pixels = 12
  v_fp = 3
  v_pulse = 2
  v_bp = 3
  v_pol = 0
  CELL = 2
  TOP = 2
  BOTTOM = 10
  Settles = {20, 21, 23, 31}
  DELAY = 25
  RESET = 3
  COUNTS = 32
  FirstStop = 10
  LastStop = 18
  Black = Black
  White = White
INVARIANTS
  BlankInPulse
  CellsLag
PROPERTIES
  Raster
  LcdInStep
  LcdFramesForever
