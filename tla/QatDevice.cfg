CONSTANTS
  one = one
  two = two
  Nobody = Nobody
  TotalVFs = 3
  Requesters = {one, two}
  Services = {"sym", "asym"}
  Default <- MCDefault
  Supported <- MCSupported
  Reconfigurable = TRUE
  MaxCrashes = 2
SPECIFICATION FairSpec
INVARIANTS
  ReadyWhenUp
PROPERTIES
  ImplementsPool
  UpAgain
