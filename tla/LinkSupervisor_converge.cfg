SPECIFICATION LiveSpec
CONSTANTS
  MaxProposal = 2
  MaxFaults = 2
PROPERTIES
  StateConverges
