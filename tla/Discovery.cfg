SPECIFICATION DiscoverySpec
CONSTANTS
  pf = pf
  nic = nic
  vf0 = vf0
  vf1 = vf1
  old = old
  g1 = g1
  g2 = g2
  g3 = g3
  None = None
  Addresses <- MCAddresses
  IntelGpus <- MCIntelGpus
  KnownModels <- MCKnown
  VfsOf <- MCVfsOf
  AutoProbe <- MCAutoProbe
  GaudiAddresses <- MCGaudis
  ModuleOf <- MCModuleOf
  UverbsOf <- MCUverbsOf
  MaxChanges = 3
INVARIANTS
  FoundRight
  NodesWereTheirs
  GaudiNodesWereTheirs
CHECK_DEADLOCK FALSE
