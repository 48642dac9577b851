\* Two discussions of one topic, and a worker that is overtaken once.
SPECIFICATION Spec
CONSTANTS
  b1 = b1
  b2 = b2
  w1 = w1
  w2 = w2
  bash = bash
  draft = draft
  Batches = {b1, b2}
  Sessions = {"s"}
  SessionOf <- OneSession
  Tasked = {}
  Topical = {b1, b2}
  Workers = {w1, w2}
  Calls = {draft}
  Sandboxed = {}
  MaxRounds = 1
  MaxModelCalls = 2
  MaxRuns = 1
  MaxJobs = 1
  MaxArchives = 0
  MaxFaults = 1
INVARIANTS
  SerialSession
CHECK_DEADLOCK FALSE
