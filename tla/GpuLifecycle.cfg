SPECIFICATION FairSpec
CONSTANTS
  Threshold = 2
  MaxFaults = 3
INVARIANTS
  NotServingOnlyWhenDead
PROPERTIES
  SignalEnds
  Recovers
