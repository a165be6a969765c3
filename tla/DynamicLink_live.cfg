SPECIFICATION LiveSpec
CONSTANTS MaxDials = 1 MaxFaults = 0 Timers = {TRUE, FALSE}
PROPERTIES
  SettlesTogether
  CalmLinkForms
CHECK_DEADLOCK FALSE
