\* Each of these fails: TLC stops at the first it meets.
CONSTANTS
  NConns = 2
  Message = {m1}
  NoMessage = NoMessage
  NSessions = 2
  NServices = 1
  Console = {c1, c2}
  Nobody = Nobody
  NoSession = NoSession
  Beyond = Beyond
  NoKey = NoKey
  Foreign = {}
  Doubled = TRUE
SPECIFICATION RestartSpec
CHECK_DEADLOCK FALSE
INVARIANTS
  DoneCloses
  SessionsOwned
  RepliesAnswer
PROPERTIES
  CommandsInSession
  SwitchIsObeyed
  StationsAreTold
