CONSTANTS
  Conn = {c1, c2}
  NIds = 3
  Name = {SUPERVISOR, u}
  Root = SUPERVISOR
  NoName = NoName
  SetProp <- MCSetProp
  Access <- MCAccess
  Password = {p}
  Raw <- MCRaw
  MaxProps = 3
SPECIFICATION Spec
SYMMETRY Symmetry
INVARIANTS
  StationInfoIsTrue
  LevelIsGranted
PROPERTIES
  SupervisorsPromote
