SPECIFICATION FairSwitchSpec
CONSTANTS
  a1 = a1
  a2 = a2
  a3 = a3
  a4 = a4
  Accounts = {a1, a2, a3, a4}
  Awaiting = {a4}
  MaxSwitches = 3
  MaxOthers = 0
  MaxFetches = 1
  Overlapping = FALSE
  None = None
CHECK_DEADLOCK FALSE
INVARIANTS
  LastClickWins
  StoresRefilled
PROPERTIES
  MailNotLost
  LoadingEnds
