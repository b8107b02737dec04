SPECIFICATION Spec
CONSTANTS
  WORD = 4
  POS_MOD = 64
  Configs <- StreamConfigs
INVARIANTS
  TypeOK
  PositionInPhase
  IdleMeansSent
PROPERTIES
  ImplementsStream
