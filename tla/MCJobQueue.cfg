SPECIFICATION FairSpec
CONSTANTS
  Cleanup = cleanup
  Keys = {cleanup, notify}
  None = none
  Rows = {1, 2}
  Runs = {1, 2}
  Workers = {w1, w2}
  Concurrency = 2
  MaxAttempts = 2
  MaxFaults = 2
  Faults = {"crash", "stop", "timeout", "stall", "db", "throw"}
INVARIANTS PoisonJobRetires OneHandlerPerKey
PROPERTIES WorkIsDone AbandonedIsReclaimed
