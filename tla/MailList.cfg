SPECIFICATION Spec
CONSTANTS
  InitialMails = 3
  MaxMails = 4
  MaxChanges = 2
  PageSize = 2
  None = None
CHECK_DEADLOCK FALSE
INVARIANTS
  ListIsRight
  DeletedStaysGone
