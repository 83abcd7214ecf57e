\* Each of these fails: TLC stops at the first it meets.
SPECIFICATION Spec
CONSTANTS
  Name = {user, group}
  PropName = {members, password, address}
  Data = {0}
  Zero = 0
  Seeded = TRUE
  None = None
  MaxDrawn = 10
SYMMETRY Symmetry
INVARIANTS
  ServerStarts
PROPERTIES
  DeleteSparesOthers
