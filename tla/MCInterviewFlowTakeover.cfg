SPECIFICATION FlowSpec
CONSTANTS
  NumOps = 1
  Workers = {w1, w2}
  NoWorker = NoWorker
  MaxAttempts = 2
  ClaimBatch = 1
  EventKinds = {}
  MaxLog = 0
  MaxCrashes = 1
  Answers = {a1}
  NoAnswer = NoAnswer
  MaxQuestions = 1
  MaxFollowups = 0
INVARIANT TakeoverResumes
