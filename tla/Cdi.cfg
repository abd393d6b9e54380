SPECIFICATION Spec
CONSTANTS
  one = one
  two = two
  c1 = c1
  c2 = c2
  Hosts <- MCHosts
  Devices <- MCDevices
  Installed <- MCInstalled
  Claims = {c1, c2}
  Old = {"gpu"}
  WriteFaults = TRUE
  MaxUpdates <- MCMaxUpdates
  MaxStops = 1
INVARIANTS
  DevicesDescribed
  BlankKept
PROPERTIES
  GeneratedReadable
SYMMETRY ClaimSymmetry
CHECK_DEADLOCK FALSE
