SPECIFICATION FairSpec
CONSTANTS
  n1 = n1  n2 = n2  u1 = u1
  NoNode = NoNode  NoUser = NoUser  ZeroId = ZeroId  Free = Free  StdIn = StdIn
  Supervisor = {u1}
  NConns = 2  NFiles = 0  NFds = 1  Timeout = 1  Cids = 3
  Node <- Nodes
  Port = {1, 2}
  User = {u1}
INVARIANTS
  SlotsAreWhole
PROPERTIES
  ImplementsSessions
  SilentLosesSlot
