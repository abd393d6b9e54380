CONSTANTS
  d1 = d1
  d2 = d2
  vm = vm
  pod = pod
  monitor = monitor
  NoClaim = NoClaim
  Devices = {d1, d2}
  Claims = {vm, pod}
  Allocation <- PairAllocation
  ManageBinding = TRUE
  Healthcare = TRUE
  ExternalChanges = FALSE
  Reboots = TRUE
  KernelFaults = FALSE
  WriteFaults = TRUE
  MaxEvents = 4
SPECIFICATION Spec
INVARIANTS
  PreparedOnRequestedDriver
  OwnChangesNeverTaint
PROPERTY
  PreparedWithFreshEdits
