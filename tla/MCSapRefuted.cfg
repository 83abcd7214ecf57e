\* Each of these fails: TLC stops at the first it meets.
SPECIFICATION Spec
CONSTANTS
  Name = {a, b, c}
  Type = {server}
  Blank = blank
  NServices = 2
  Timeout = 1
  MaxPacket = 2
PROPERTIES
  AnnouncedSurvives
  KnownIsUpdated
