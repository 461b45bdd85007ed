SPECIFICATION OneTabGoesOn
CONSTANTS
  t1 = t1
  t2 = t2
  Tabs = {t1, t2}
  Composers = {}
  Policies <- IdleOrMax
  MaxTime = 2
  None = None
PROPERTIES
  NothingRevives
  IdleMeansIdle
  DeadlineEndsSession
