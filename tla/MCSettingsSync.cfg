SPECIFICATION Spec
CONSTANTS
  a1 = a1
  a2 = a2
  Accounts = {a1, a2}
  MaxEdits = 2
  MaxLoads = 3
  MaxPushes = 1
  Nobody = Nobody
SYMMETRY Interchangeable
CHECK_DEADLOCK FALSE
INVARIANTS
  OwnSettingsOnly
  EditsSaved
  
