SPECIFICATION AlarmSpec
CONSTANTS
  n1 = n1  n2 = n2  u1 = u1
  NConns = 2  NFiles = 1  NFds = 3  Timeout = 0  Cids = 3
  Node <- Nodes
  Port = {1}
  User = {u1}
  Supervisor = {u1}
  NoNode = NoNode  NoUser = NoUser  ZeroId = ZeroId  Free = Free  StdIn = StdIn
SYMMETRY NodeSymmetry
INVARIANTS
  TypeOK
  OneSlotPerNode
  HandlesOwnTheirFiles
