SPECIFICATION CrashSpec
CONSTANTS
  user = user
  group = group
  second = second
  Deepest = 0
  Object = {user, group, second}
  Blank = blank
  Equals <- OneEqual
  Bit = {r}
  MaxRecords = 4
PROPERTY ExtGrantTakesEffect FirstCutHarmsNobodyElse
