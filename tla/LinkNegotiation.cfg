SPECIFICATION Spec
CONSTANTS
  p1 = p1
  p2 = p2
  p3 = p3
  None = None
  Proposals <- MCProposals
  Settings <- MCSettings
  MaxCounterproposals = 3
INVARIANTS
  AcceptAfterInstall
  OffersAlternateWithoutRepeat
  ConvergesOnFirstJoint
PROPERTIES
  LinkSessionEnds
  ImplementsAgreement
