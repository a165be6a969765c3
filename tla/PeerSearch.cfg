SPECIFICATION Spec
CONSTANTS
  Endpoint <- MCEndpoint
  Environments <- MCEnvironments
  MaxIterations = 2
  MaxFaults = 1
INVARIANTS
  TypeOK
  OneVerdict
  InStep
  PathsSound
PROPERTIES
  SearchEnds
CHECK_DEADLOCK FALSE
