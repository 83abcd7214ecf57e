\* Each of these fails: TLC stops at the first it meets.
SPECIFICATION Spec
CONSTANTS
  Client = {c1, c2}
  Name = {n, m}
  NFiles = 2
  NHandles = 2
  NFds = 2
  Value = {v, w}
  NSeq = 2
  MaxCopies = 2
  MaxAnswers = 1
  Ordered = FALSE
INVARIANTS
  HandlesStay
  HandlesAreKnown
  ErasesGiveBack
PROPERTIES
  RenameLosesNothing
  RepeatsChangeNothing
  AllIsAnswered
