\* Each of these fails: TLC stops at the first it meets.
SPECIFICATION CrashSpec
CONSTANTS
  user = user
  group = group
  second = second
  Deepest = 1
  Object = {user, group, second}
  Blank = blank
  Equals <- TwoEquals
  Bit = {r}
  MaxRecords = 3
INVARIANTS
  EquivalentsAllCount
PROPERTIES
  RemovalRestoresParent
  GrantTakesEffect
