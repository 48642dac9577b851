\* One proposal, revised once, with its countdowns.
SPECIFICATION FairSpec
CONSTANTS
  p1 = p1
  p2 = p2
  o1 = o1
  s1 = s1
  s2 = s2
  Proposals = {p1}
  Objects = {o1}
  Seats = {s1, s2}
  Contents <- RevisedContents
  MaxRevision = 2
  MaxEdits = 1
  MaxArchives = 0
INVARIANTS
  PendingIsOpen
  FirstReviewAnswered
PROPERTIES
  ConsentSpec
  CountdownSettles
CHECK_DEADLOCK FALSE
