\* Two proposals about one object, edited beside the reviews, in a project that is archived once.
SPECIFICATION Spec
CONSTANTS
  p1 = p1
  p2 = p2
  o1 = o1
  s1 = s1
  s2 = s2
  Proposals = {p1, p2}
  Objects = {o1}
  Seats = {s1, s2}
  Contents <- RivalContents
  MaxRevision = 1
  MaxEdits = 1
  MaxArchives = 1
INVARIANTS
  ExclusiveVersions
  ShownIsCurrent
SYMMETRY SeatSymmetry
CHECK_DEADLOCK FALSE
