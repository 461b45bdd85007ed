SPECIFICATION Spec
CONSTANTS
  a1 = a1
  a2 = a2
  r1 = r1
  r2 = r2
  Accounts = {a1, a2}
  Requests = {r1, r2}
  MaxFailures = 2
  MaxDaily = 3
  WindowLength = 2
  DayLength = 4
  MaxTime = 6
  NoEntry = NoEntry
  Idle = Idle
SYMMETRY Interchangeable
INVARIANTS
  WithinLimits
  LockedByMistakesOnly
