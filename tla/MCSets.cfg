SPECIFICATION SetSpec
CONSTANTS
  IdLen = 4
  Entries = 20
  Byte = {0, 1, 2, 3, 4, 5}
  Id <- Some
PROPERTIES
  ImplementsMembers
  DeletedAreGone
