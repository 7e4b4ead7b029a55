\* Two volumes at one client; nothing is lost.
SPECIFICATION FairSpec
CONSTANTS
  Volumes = {v1, v2}
  Clients = {c1}
  NoVolume = NoVolume
  MaxFaults = 0
  MaxTurns = 1
PROPERTIES
  Disconnects
CHECK_DEADLOCK FALSE
