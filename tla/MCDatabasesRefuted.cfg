\* Each of these fails: TLC stops at the first it meets.
SPECIFICATION DbRecreateSpec
CONSTANTS
  Name = {supervisor, group}
  PropName = {members, password}
  Data = {0, 1}
  Zero = 0
  Blank = blank
  None = None
  Supervisor = supervisor
  Content <- Oids
  Counter = {"object", "prop", "value", "large"}
  Limit <- Most
SYMMETRY Symmetry
INVARIANTS
  EveryRowOnce
  FoundIsReadable
  TransactionsEnd
PROPERTIES
  SupervisorIsOne
