SPECIFICATION Spec
CONSTANTS
  Clients = {a, b, c}
  Shared = {a}
  Throttled = {a}
  MaxStreams = 1
  MaxStray = 1
  Nobody = Nobody
SYMMETRY Symmetry
INVARIANTS WithinBudget NoSlotIdle NeverDeaf
PROPERTIES StaysDown
CHECK_DEADLOCK FALSE
