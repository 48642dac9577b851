\* Every command once, pages that follow two or three changes over broken streams, and a walk.
SPECIFICATION FairWindowSpec
CONSTANTS
  None = None
  Scenes <- MCScenes
  FailureLimit = 2
  Absent = Absent
  t1 = t1
  p1 = p1
  c0 = c0
  cp = cp
  ct = ct
  Tasks = {t1}
  Plans = {p1}
  Topics = {c0, cp, ct}
  PlanOf <- TaskPlan
  TaskMain <- MainOfTask
  PlanMain <- MainOfPlan
  Links <- MainLinks
  Remembered = 2
  Walk = 4
INVARIANTS
  NothingMissed
  DecidedAsShown
  CreatedOnce
PROPERTIES
  CatchesUp
  SurfacesIndependent
  ContextKept
  ReloadKeepsPlace
CHECK_DEADLOCK FALSE
