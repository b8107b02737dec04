SPECIFICATION Spec
CONSTANTS
  Indices = {0, 255}
  Requests <- MCRequests
  GtStates <- MCGtStates
  UartCases <- MCUartCases
  CoreCases <- MCCoreCases
  Pattern <- MCPattern
  ULONG_MAX = 70000
  MAX_TOKENS = 14
  CONFIG_WAIT_ITERATIONS = 2
  MaxBoots = 2
  MaxLosses = 1
INVARIANTS TypeOK OkMeansStored EnabledIsChecked ColdVerdict AnswersAreTrue
PROPERTY ImplementsPort
CHECK_DEADLOCK FALSE
