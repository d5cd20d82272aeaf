SPECIFICATION FairSpec
CONSTANT PinSettings <- MCPinSettings
PROPERTIES
  Fresh
  RoundsForever
  ButtonsSettle
