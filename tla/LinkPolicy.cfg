SPECIFICATION Spec
CONSTANTS
  Addrs = {a1, a2}
  None = None
  MaxRevision = 3
  MaxStops = 2
  MaxFaults = 1
INVARIANTS
  PublishedIsDurable
  OneLoopback
PROPERTIES
  ImplementsRegister
  PolicyConverges
