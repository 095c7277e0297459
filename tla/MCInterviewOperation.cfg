SPECIFICATION DeadlineSpec
CONSTANTS
  NumOps = 1
  Workers = {w1, w2}
  NoWorker = NoWorker
  MaxAttempts = 2
  ClaimBatch = 1
  EventKinds = {"e1"}
  MaxLog = 1
  MaxCrashes = 1
INVARIANTS TypeOK FencingToken CompletedMeansCommitted
PROPERTIES TerminalIsFinal EverySettles
