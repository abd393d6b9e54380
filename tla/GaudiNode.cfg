CONSTANTS
  own1 = own1
  own2 = own2
  other = other
  NoClaim = NoClaim
  Claims = {own1, own2, other}
  OwnClaims = {own1, own2}
  WriteFaults = TRUE
  CdiFaults = TRUE
SPECIFICATION Spec
SYMMETRY OwnSymmetry
INVARIANTS
  BlanksMatch
  GrantedRecorded
