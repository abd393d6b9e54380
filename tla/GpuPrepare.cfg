CONSTANTS
  d1 = d1
  d2 = d2
  vm = vm
  pod = pod
  monitor = monitor
  NoClaim = NoClaim
  Devices = {d1, d2}
  Claims = {vm, pod, monitor}
  Allocation <- SharedAllocation
  ManageBinding = TRUE
  Healthcare = FALSE
  ExternalChanges = FALSE
  Reboots = TRUE
  KernelFaults = TRUE
  WriteFaults = FALSE
  MaxEvents = 0
SPECIFICATION Spec
INVARIANTS
  TypeOK
  ExclusiveUse
  GrantedExclusive
  GrantedRecorded
PROPERTY
  ImplementsLedger
