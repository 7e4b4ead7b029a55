\* One call at a time; commands are lost and the control plane crashes.
SPECIFICATION Spec
CONSTANTS
  MaxSize = 2
  Options = {o1}
  NoOption = NoOption
  Calls = {k1}
  NoCall = NoCall
  Handlers = {"Publish", "Connect", "Stage", "Unstage", "Disconnect", "Unpublish"}
  MaxFaults = 2
INVARIANTS
  TypeOK
  RowCovers
  HostsFollow
  NodeSizeIsReal
PROPERTIES
  NeverShrinks
