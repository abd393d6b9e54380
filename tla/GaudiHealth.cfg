CONSTANTS
  gaudi1 = gaudi1
  gaudi2 = gaudi2
  Devices = {gaudi1, gaudi2}
  HlmlFaults = TRUE
  ApiFaults = TRUE
SPECIFICATION HealthSpec
INVARIANTS
  UnhealthyIsTainted
PROPERTIES
  ErrorPublished
  WatcherStops
