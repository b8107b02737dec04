SPECIFICATION Spec
CONSTANTS
  MEASURE_CYCLES = 6
  VERIFY_SETTLE_CYCLES = 12
  READY_STABLE_CYCLES = 2
  ALIVE_TIMEOUT = 2
  COUNTER_MOD = 8
  DEN = 2
  Targets <- MCTargets
  Speed <- MCSpeed
  MinCount <- MCMinCount
  MaxCount <- MCMaxCount
  MaxSwitches = 1
INVARIANT TypeOK
PROPERTIES
  AcceptedIsRunning
  RunningIsAccepted
  StoppedIsNoticed
