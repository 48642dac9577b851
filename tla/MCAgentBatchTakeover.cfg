\* A discussion that is extended, worked on by two workers, in a project that is archived.
SPECIFICATION Spec
CONSTANTS
  b1 = b1
  b2 = b2
  w1 = w1
  w2 = w2
  bash = bash
  draft = draft
  Batches = {b1}
  Sessions = {"s"}
  SessionOf <- OneSession
  Tasked = {}
  Topical = {b1}
  Workers = {w1, w2}
  Calls = {bash, draft}
  Sandboxed = {bash}
  MaxRounds = 1
  MaxModelCalls = 2
  MaxRuns = 2
  MaxJobs = 2
  MaxArchives = 0
  MaxFaults = 2
INVARIANTS
  BudgetAccounted
  SandboxKept
  Aligned
PROPERTIES
  LedgerSpec
CHECK_DEADLOCK FALSE
