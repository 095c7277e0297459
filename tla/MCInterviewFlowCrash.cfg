SPECIFICATION FlowSpec
CONSTANTS
  NumOps = 1
  Workers = {w1, w2}
  NoWorker = NoWorker
  MaxAttempts = 2
  ClaimBatch = 1
  EventKinds = {"e1", "e2"}
  MaxLog = 2
  MaxCrashes = 1
  Answers = {a1}
  NoAnswer = NoAnswer
  MaxQuestions = 2
  MaxFollowups = 1
SYMMETRY MCSymmetry
INVARIANTS EventsInAttemptOrder RoundMatchesSession IInv
PROPERTY EndedIsFrozen
