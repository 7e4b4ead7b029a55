\* Two overlapping calls, nothing is lost, under the fairness of the handlers.
SPECIFICATION FairSpec
CONSTANTS
  Servers = {s1}
  Clients = {c1}
  Transports = {"ISCSI"}
  StagingPaths = {g1}
  MountPaths = {p1}
  NoHost = NoHost
  NoPath = NoPath
  Calls = {k1, k2}
  NoCall = NoCall
  Requests <- OverlapOps
  CreateModes = {"FILESYSTEM"}
  CreateOutputs <- Filled
  MaxFaults = 0
  MaxDepth = 1
INVARIANTS
  NoOverwrite
  TeardownColumns
PROPERTIES
  Answered
