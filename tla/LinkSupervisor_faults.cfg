SPECIFICATION LiveSpec
CONSTANTS
  MaxProposal = 2
  MaxFaults = 2
INVARIANTS
  TypeOK
  HealthyMeansLinked
  AdjacencyBacked
PROPERTIES
  ForwardingKept
  LinkRecovers
