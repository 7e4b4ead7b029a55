\* One call at a time, with UpdateVolume.
SPECIFICATION Spec
CONSTANTS
  Servers = {s1}
  Clients = {c1}
  Transports = {"ISCSI"}
  StagingPaths = {g1}
  MountPaths = {p1}
  NoHost = NoHost
  NoPath = NoPath
  Calls = {k1}
  NoCall = NoCall
  Requests <- AllOps
  CreateModes = {"FILESYSTEM"}
  CreateOutputs <- Filled
  MaxFaults = 0
  MaxDepth = 2
PROPERTIES
  UpdateKeepsTransport
