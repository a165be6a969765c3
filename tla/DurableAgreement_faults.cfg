SPECIFICATION Spec
CONSTANTS
  Qualifiers = {"low", "high"}
  Full = {}
  Others = {}
  Passive = {}
  MaxId = 2
  MaxAddr = 2
  MaxFaults = 2
INVARIANTS
  PeerStored
  TermsAgreed
