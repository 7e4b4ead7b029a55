SPECIFICATION FairSpec
CONSTANTS
  s1 = s1
  c1 = c1
  k1 = k1
  Servers = {s1}
  Clients = {c1}
  NoHost = NoHost
  Volumes = {v1}
  Keys = {k1}
  NoKey = NoKey
  MaxLayers = 3
  Calls = {r1}
  NoCall = NoCall
  Configs <- MCConfigs
  Settings <- MCSettings
  EarlyRequests = FALSE
  PageSizes = {0, 1, 3}
  DefaultPageSize = 1
  MaxPageSize = 1
  MaxFaults = 1
INVARIANTS
  TypeOK
  RefsLive
  NeverPlain
  ListComplete
PROPERTIES
  ConfigApplied
  BootsWithoutSecrets
