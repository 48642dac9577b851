\* A row of three tasks, changed, skipped, restored and accepted.
SPECIFICATION Spec
CONSTANTS
  None = None
  Start <- Row
  ProposalIds = {"p1"}
  ActivityIds <- OneActivity
  Edits <- EditsOf
  Successors = {"gu"}
  Changes = 3
  Asides = 1
INVARIANTS
  WaiverStands
PROPERTIES
  ExceptionsWorkedOut
  ApprovedByHolders
  PlanAcceptedAsReviewed
CHECK_DEADLOCK FALSE
