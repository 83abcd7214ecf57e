SPECIFICATION FairSpec
CONSTANTS
  Name = {a, b, c}
  Type = {server}
  Blank = blank
  NServices = 2
  Timeout = 1
  MaxPacket = 2
INVARIANTS
  ServicesListedOnce
PROPERTIES
  AnnouncedIsListed
  DeadServicesGo
