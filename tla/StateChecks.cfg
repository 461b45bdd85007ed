SPECIFICATION FairSpec
CONSTANTS
  Shared = FALSE
  MaxChanges = 2
  Primes = {1, 2}
  None = None
  Asked = Asked
PROPERTY ToldAtLast
CHECK_DEADLOCK FALSE
