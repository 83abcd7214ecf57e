SPECIFICATION TrusteeSpec
CONSTANTS
  user = user
  group = group
  second = second
  Deepest = 1
  Object = {user, group, second}
  Blank = blank
  Equals <- NoEquals
  Bit = {r}
  MaxRecords = 3
SYMMETRY Symmetric
INVARIANTS
  TrusteeTypeOK
  OneRecordPerTrustee
PROPERTIES
  ImplementsTrustees
