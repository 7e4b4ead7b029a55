\* One call at a time, with lost commands, lost answers and crashes.
SPECIFICATION Spec
CONSTANTS
  Servers = {s1}
  Clients = {c1, c2}
  Transports = {"ISCSI", "NVMEOF_TCP"}
  StagingPaths = {g1}
  MountPaths = {p1, p2}
  NoHost = NoHost
  NoPath = NoPath
  Calls = {k1}
  NoCall = NoCall
  Requests <- AllOps
  CreateModes = {"FILESYSTEM"}
  CreateOutputs <- Pathless
  MaxFaults = 2
  MaxDepth = 2
SYMMETRY ClientSymmetry
INVARIANTS
  TypeOK
  RowShape
  WriterIsClient
  RowMatchesHosts
PROPERTIES
  ImplementsLifecycle
