SPECIFICATION PollingSpec
CONSTANTS
  Grants = {g1, g2}
  Owners = {o1, o2}
  ProviderOwners = {o2}
  Sections = {s1}
  MaxRequests = 2
  MaxSent = 4
  MaxCodes = 2
  GrantTTL = 1
  CodeTTL = 1
  TombstoneTTL = 1
  SupersededKept = 1
  MaxTime = 2
  NoRecord = NoRecord
  None = None
  Kept = Kept
CHECK_DEADLOCK FALSE
INVARIANTS
  QrDiesWithProof
  ScreenHonest
PROPERTY
  DeadQrLeaves
