CONSTANTS
  pfA = pfA
  pfB = pfB
  a1 = a1
  a2 = a2
  b1 = b1
  one = one
  two = two
  other = other
  NoClaim = NoClaim
  PFs = {pfA, pfB}
  VFs = {a1, a2, b1}
  PFOf <- TwoPFs
  Claims = {one, two, other}
  Allocation <- MCAllocation
  Configured = {pfB}
  SysfsFaults = TRUE
  WriteFaults = TRUE
SPECIFICATION Spec
INVARIANTS
  HeldWhilePrepared
  NoLeak
PROPERTY
  ImplementsPool
