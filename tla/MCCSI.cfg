\* A legal orchestrator, two nodes, failing RPCs and lost answers.
SPECIFICATION FairSpec
CONSTANTS
  Servers = {s1}
  Clients = {c1, c2}
  Transports = {"ISCSI", "NVMEOF_TCP"}
  StagingPaths = {g1}
  MountPaths = {p1, p2}
  NoHost = NoHost
  NoPath = NoPath
  StorageHost = s1
  Classes <- MCClasses
  VolumeId = v1
  MaxFaults = 3
INVARIANTS
  TypeOK
  ToldIsThere
  ToldIsGone
  ReadsAgree
PROPERTIES
  Resolved
