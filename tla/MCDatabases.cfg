SPECIFICATION DbSpec
CONSTANTS
  Name = {supervisor, group}
  PropName = {members, password}
  Data = {0, 1}
  Zero = 0
  Blank = blank
  None = None
  Supervisor = supervisor
  Content <- Oids
  Counter = {"object", "prop", "value", "large"}
  Limit <- Most
SYMMETRY Symmetry
INVARIANTS
  RowsOnce
  RowsHaveOwners
  NothingShared
PROPERTIES
  WritesReadBack
  ImplementsObjects
