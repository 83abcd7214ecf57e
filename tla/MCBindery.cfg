SPECIFICATION CrashSpec
CONSTANTS
  Name = {user, group}
  PropName = {members, password, address}
  Data = {0, 1}
  Zero = 0
  Seeded = TRUE
  None = None
  MaxDrawn = 8
SYMMETRY Symmetry
INVARIANTS
  ChainsComplete
  FilesAreSound
PROPERTIES
  ImplementsObjects
  WritesReadBack
