SPECIFICATION Spec
CONSTANTS
  Client = {c1}
  Name = {n, m}
  NFiles = 2
  NHandles = 2
  NFds = 2
  Value = {}
  NSeq = 2
  MaxCopies = 2
  MaxAnswers = 1
  Ordered = TRUE
CONSTRAINT Running
INVARIANTS
  AnswersAreOwn
  HandlesStay
PROPERTIES
  AnswersCome
