\* Each of these fails: TLC stops at the first it meets.
SPECIFICATION SetSpec
CONSTANTS
  IdLen = 2
  Entries = 4
  Byte = {0, 1, 2}
  Id <- All
INVARIANTS
  BlankEntriesCount
PROPERTIES
  OnlyAddedJoin
  AddKeepsMembers
  MembersAddedOnce
