\* An approved proposal is revised and resubmitted while the job of its first review is queued.
SPECIFICATION Spec
CONSTANTS
  p1 = p1
  p2 = p2
  o1 = o1
  s1 = s1
  s2 = s2
  Proposals = {p1}
  Objects = {o1}
  Seats = {s1, s2}
  Contents <- RevisedContents
  MaxRevision = 2
  MaxEdits = 0
  MaxArchives = 0
INVARIANT ApprovedMeansAnswered
CHECK_DEADLOCK FALSE
