\* Each of these fails: TLC stops at the first it meets.
SPECIFICATION Spec
CONSTANTS
  c1 = c1  login = login  empty = empty
  Client <- OneClient
  NDirs = 2  NSearches = 1  NVolumes = 2  MaxParts = 2
  MaxDirNo = 2  Strange = {9}  Stray <- Memory
  Name = {login, empty}
  Login = login  Empty = empty
  Input <- Some
INVARIANTS
  EveryHandleOnMountedVolume
  SearchesOnMountedVolumes
  RightsAreOfTheSearchedPlace
  SearchesWereStarted
PROPERTIES
  DeallocLeavesSearches
  SetDirPathAppends
