SPECIFICATION FairSpec
CONSTANTS
  ann = ann
  bob = bob
  ann1 = ann1
  ann2 = ann2
  bob1 = bob1
  r1 = r1
  r2 = r2
  c1 = c1
  c2 = c2
  None = None
  Accounts = {ann, bob}
  Logins = {ann1, ann2, bob1}
  LoginAccount <- Owner
  MaxSlots = 2
  SignInsHalted = 2
  Requests = {r1}
  Cleanups = {c1}
  Mishaps = {"slow", "failure", "refusal", "offline"}
INVARIANT OwnToken
INVARIANT OwnCookie
INVARIANT SlotsDistinct
INVARIANT NotRevived
PROPERTY SparesOthers
PROPERTY SlotsReopen
CHECK_DEADLOCK FALSE
