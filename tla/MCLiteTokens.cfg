SPECIFICATION Spec
CONSTANTS
  Tabs = {t1, t2}
  Accounts = {a, b}
  Logins = {l1, l2}
  Local = local
  MaxTokens = 2
  Slow = FALSE
  Refused = Refused
  None = None
SYMMETRY Symmetry
INVARIANTS OwnTokensOnly NewestKept NotRevived StaysWithTab
