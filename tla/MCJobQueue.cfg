\* Two workers, a handled job and one without handler, two faults.
SPECIFICATION FairSpec
CONSTANTS
  j1 = j1
  j2 = j2
  Jobs = {j1, j2}
  Workers = {w1, w2}
  Handled = {j1}
  MaxAttempts = 2
  KindAttempts <- MCKindAttempts
  MaxFaults = 2
INVARIANTS
  CurrentGrant
  AttemptsAccounted
  AttemptsBounded
PROPERTIES
  FinalIsFinal
  LedgerSpec
  Drains
CHECK_DEADLOCK FALSE
