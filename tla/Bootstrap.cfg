SPECIFICATION Spec
CONSTANTS
  xpu = xpu
  cpu = cpu
  nano = nano
  vad = vad
  unit = unit
  legacyUnit = legacyUnit
  None = None
  Backends <- MCBackends
  Keys <- MCKeys
  Policy <- MCPolicy
  Files <- MCFiles
  LegacyUnit = legacyUnit
  CandidateLists <- MCCandidateLists
  Deployments <- MCDeployments
  MaxRuns = 3
  MaxFaults = 2
INVARIANTS
  TypeOK
  SelectionIsWhole
  CleanExit
PROPERTIES
  QuietSwap
  AtomicSwitch
  RecoveryCompletes
CHECK_DEADLOCK FALSE
