\* The seed's first hand-off, revised, refreshed and received.
SPECIFICATION Spec
CONSTANTS
  None = None
  Start <- FirstReview
  HandoffIds <- OneHandoff
  ActivityIds <- OneActivity
  Changes = 2
  Asides = 1
INVARIANTS
  ReceiptStands
  NoOutdatedDecision
  HandoffsMove
PROPERTIES
  DecisionsOnRecord
  AcceptedOnlyReopened
  AcceptedAsReviewed
CHECK_DEADLOCK FALSE
