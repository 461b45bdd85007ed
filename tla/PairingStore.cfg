SPECIFICATION BusySpec
CONSTANTS
  Grants = {g1, g2}
  Owners = {o1, o2}
  MaxCodes = 4
  GrantTTL = 3
  CodeTTL = 2
  TombstoneTTL = 2
  SupersededKept = 1
  MaxTime = 5
  NoRecord = NoRecord
CHECK_DEADLOCK FALSE
INVARIANTS
  TypeOK
  HandedOutAtMostOnce
  OnlyNewestCodeWorks
  LateScanToldUsed
PROPERTIES
  EveryGrantSettled
  ImplementsLifecycle
