\* The same, up to the first DeleteVolume that deletes nothing.
SPECIFICATION Spec
CONSTANTS
  Servers = {s1}
  Clients = {c1, c2}
  Transports = {"ISCSI", "NVMEOF_TCP"}
  StagingPaths = {g1}
  MountPaths = {p1}
  NoHost = NoHost
  NoPath = NoPath
  StorageHost = s1
  Classes <- OneClass
  VolumeId = v1
  MaxFaults = 1
INVARIANTS
  DeletedIsGone
