SPECIFICATION Spec
CONSTANTS
  Links = {"a"}
  Plans <- MCPlans
  Pids = {1, 2}
  MaxChanges = 2
  MaxFaults = 3
INVARIANTS
  TypeOK
  IdleIsUpToDate
  DaemonAccounted
  OnlyDaemonSignalled
PROPERTIES
  RoutingFollows
CHECK_DEADLOCK FALSE
