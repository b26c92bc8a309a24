SPECIFICATION Spec
CONSTANTS
  m1 = m1
  m2 = m2
  t1 = t1
  t2 = t2
  None = None
  Items = {m1}
  Texts = {t1}
  Delays = {"later", "now"}
  Agents = {1, 2}
  Results <- TwoOrNone
  MaxRuns = 3
  MaxAttempt = 1
  MaxEdits = 2
  MaxCrashes = 1
CHECK_DEADLOCK FALSE
INVARIANTS
  QueueInv
  OneTurnPerAttempt
  TurnsKeepLineage
PROPERTIES
  ClaimIsKept
  CompletedIsSent
