SPECIFICATION Spec
CONSTANTS
  Configs = {{1}, {2}}
  Namespaces = {"host"}
  Window = 2
  Stable = 1
  MaxReloads = 1
PROPERTY StopNeverRetires
