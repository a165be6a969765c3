SPECIFICATION LiveSpec
CONSTANTS
  Configs = {{1}, {2}}
  Namespaces = {"host", "other"}
  Window = 3
  Stable = 2
  MaxReloads = 1
INVARIANTS
  UpTablesRecorded
  ReadyMeansInstalled
PROPERTIES
  DeadlineNotExtended
  RetireNeedsWindow
  CompletedStopRetains
  DeadDaemonRetired
