SPECIFICATION Spec
CONSTANTS
  c1 = c1  login = login  empty = empty
  Client <- OneClient
  NDirs = 2  NSearches = 1  NVolumes = 2  MaxParts = 2
  MaxDirNo = 2  Strange = {9}  Stray <- Memory
  Name = {login, empty}
  Login = login  Empty = empty
  Input <- Many
INVARIANTS TypeOK HandlesOnMountedVolumes
