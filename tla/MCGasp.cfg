CONSTANTS
  NConns = 2
  Message = {m1}
  NoMessage = NoMessage
  NSessions = 1
  NServices = 1
  Console = {c1, c2}
  Nobody = Nobody
  NoSession = NoSession
  Beyond = Beyond
  NoKey = NoKey
  Foreign = {"AUTH", "BROADCAST"}
  Doubled = FALSE
SPECIFICATION Spec
CONSTRAINT Regular
INVARIANTS
  MailIsDue
  SessionsOwned
  RepliesAnswer
  SessionsComeBack
PROPERTIES
  ConsolesGoOn
CHECK_DEADLOCK FALSE
