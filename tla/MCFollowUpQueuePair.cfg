SPECIFICATION FairSpec
CONSTANTS
  m1 = m1
  m2 = m2
  t1 = t1
  t2 = t2
  None = None
  Items = {m1, m2}
  Texts = {t1, t2}
  Delays = {"later"}
  Agents = {1}
  Results <- OneAgent
  MaxRuns = 3
  MaxAttempt = 0
  MaxEdits = 2
  MaxCrashes = 1
CHECK_DEADLOCK FALSE
PROPERTIES
  ImplementsJournal
  StartsOnlyClaimedHead
  HeadSettles
