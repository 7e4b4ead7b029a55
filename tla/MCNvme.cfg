\* Two volumes, two clients; commands and looks may be lost.
SPECIFICATION FairSpec
CONSTANTS
  Volumes = {v1, v2}
  Clients = {c1, c2}
  NoVolume = NoVolume
  MaxFaults = 1
  MaxTurns = 4
INVARIANTS
  TypeOK
  RightsKept
  NoStrayRights
PROPERTIES
  SomeDisconnect
CHECK_DEADLOCK FALSE
