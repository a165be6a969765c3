SPECIFICATION LiveSpec
CONSTANTS
  Qualifiers = {"low", "high"}
  Full = {}
  Others = {}
  Passive = {}
  MaxId = 6
  MaxAddr = 1
  MaxFaults = 1
PROPERTIES
  PromotionConverges
  AgreementRecovers
