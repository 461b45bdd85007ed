SPECIFICATION Spec
CONSTANTS
  a1 = a1
  a2 = a2
  a3 = a3
  a4 = a4
  Accounts = {a1, a2}
  Awaiting = {}
  MaxSwitches = 2
  MaxOthers = 3
  MaxFetches = 4
  Overlapping = FALSE
  None = None
CHECK_DEADLOCK FALSE
INVARIANTS
  AccountsKeptApart
  SignedOutForgotten
SYMMETRY SymPair
