SPECIFICATION FlowSpec
CONSTANTS
  NumOps = 2
  Workers = {w1, w2}
  NoWorker = NoWorker
  MaxAttempts = 1
  ClaimBatch = 1
  EventKinds = {}
  MaxLog = 0
  MaxCrashes = 0
  Answers = {a1, a2}
  NoAnswer = NoAnswer
  MaxQuestions = 2
  MaxFollowups = 1
SYMMETRY MCSymmetry
INVARIANTS FlowTypeOK AnswerToQuestionSeen RoundMatchesSession
PROPERTY ImplementsSession
ACTION_CONSTRAINT MCUntilEnd
