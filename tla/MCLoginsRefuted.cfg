\* Each of these fails: TLC stops at the first it meets.
CONSTANTS
  Conn = {c1, c2}
  NIds = 3
  Name = {SUPERVISOR, u}
  Root = SUPERVISOR
  NoName = NoName
  SetProp <- AllProps
  Access <- AllAccess
  Password = {p}
  Raw <- MCRaw
  MaxProps = 3
SPECIFICATION Spec
SYMMETRY Symmetry
INVARIANTS
  LevelIsAll
  SupervisorIsCurrent
  ManagersAreListed
  ConnListIsOfConns
PROPERTIES
  RefusedChangesNothing
  FirstPasswordsAreChosen
