CONSTANTS
  d1 = d1
  d2 = d2
  vm = vm
  pod = pod
  monitor = monitor
  NoClaim = NoClaim
  Devices = {d1}
  Claims = {vm, pod}
  Allocation <- SingleAllocation
  ManageBinding = TRUE
  Healthcare = TRUE
  ExternalChanges = TRUE
  Reboots = TRUE
  KernelFaults = FALSE
  WriteFaults = FALSE
  MaxEvents = 3
SPECIFICATION Spec
INVARIANTS
  TaintOnlyInUse
  PublishedWhenIdle
  CacheFollowsKernel
  NoRebindUnderGrant
