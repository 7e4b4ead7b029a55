\* A sync or a call at a time, over NVMe, on a remote server and a local one; a host restarts and a command, a look or an answer is lost.
SPECIFICATION FairSyncSpec
CONSTANTS
  Servers = {s1, s2}
  LocalServers = {s2}
  Clients = {c1, c2}
  Transports = {"NVMEOF_TCP"}
  StagingPaths = {g1}
  MountPaths = {p1}
  NoHost = NoHost
  NoPath = NoPath
  Calls = {k1}
  NoCall = NoCall
  Requests <- NoUpdateOps
  CreateModes = {"FILESYSTEM"}
  CreateOutputs <- HostsOnly
  MaxFaults = 1
  MaxDepth = 1
  MaxRestarts = 1
INVARIANTS
  SyncTypeOK
  SyncSettles
  SyncBindsVolume
  WriterIsClient
PROPERTIES
  SyncSucceeds
