\* An analysis that is retried, cancelled, archived and delivered to a process without a model; two
\* analyses of one task that wait for its session.
SPECIFICATION RetrySpec
CONSTANTS
  b1 = b1
  b2 = b2
  w1 = w1
  w2 = w2
  bash = bash
  draft = draft
  Batches = {b1, b2}
  Sessions = {"s"}
  SessionOf <- OneSession
  Tasked = {b1, b2}
  Topical = {}
  Workers = {w1, w2}
  Calls = {draft}
  Sandboxed = {}
  MaxRounds = 2
  MaxModelCalls = 2
  MaxRuns = 1
  MaxJobs = 2
  MaxArchives = 1
  MaxFaults = 1
PROPERTIES
  RetryStands
  Settles
CHECK_DEADLOCK FALSE
