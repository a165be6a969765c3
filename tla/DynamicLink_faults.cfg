SPECIFICATION Spec
CONSTANTS MaxDials = 1 MaxFaults = 1 Timers = {TRUE}
INVARIANTS
  TypeOK
  InterfacesOwned
  TransmitAfterReady
CHECK_DEADLOCK FALSE
