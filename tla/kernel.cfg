SPECIFICATION FairSpec
CONSTANTS
  NIRQ = 2
  NESTING = 2
  WORD = 4
  a1 = a1
  a2 = a2
  Alarm = {a1, a2}
  ListHead = ListHead
  Outside = Outside
  Delays = {0, 2}
  Periods = {1, 3}
  Clock = 1
  None = None
INVARIANTS
  SectionsHold
  NestedByUrgency
  OnTime
PROPERTIES
  ImplementsAlarms
  UrgentServed
  TickReturns
