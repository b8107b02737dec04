SPECIFICATION Spec
CONSTANTS
  WORD = 3
  POS_MOD = 64
  Configs <- FixedLoops
INVARIANTS
  PhasePatternAtOffset
