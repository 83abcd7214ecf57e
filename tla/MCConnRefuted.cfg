\* Each of these fails: TLC stops at the first it meets.
SPECIFICATION Spec
CONSTANTS
  n1 = n1  n2 = n2  u1 = u1
  NoNode = NoNode  NoUser = NoUser  ZeroId = ZeroId  Free = Free  StdIn = StdIn
  Supervisor = {u1}
  NConns = 2  NFiles = 1  NFds = 3  Timeout = 1  Cids = 2
  Node <- Nodes
  Port = {1}
  User = {u1}
INVARIANTS
  NoFileLeaks
  ZeroIsOwnedToo
  WatchdogIsCurrent
PROPERTIES
  AnswerCounts
