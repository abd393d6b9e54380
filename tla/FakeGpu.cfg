SPECIFICATION FairSpec
CONSTANTS
  d1 = d1
  d2 = d2
  xe = xe
  xeVfio = xeVfio
  None = None
  Devices = {d1, d2}
  DrmDrivers = {xe}
  VfioDrivers = {xeVfio}
  Slot <- MCSlot
  Home <- MCHome
  Vfio <- MCVfio
  MaxCalls = 4
CHECK_DEADLOCK FALSE
INVARIANTS
  FilesSound
  PluginUpToDate
PROPERTY
  ChangeDone
