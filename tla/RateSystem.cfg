SPECIFICATION Spec
CONSTANT MaxRestarts = 1
INVARIANTS
  TypeOK
  SequenceUndisturbed
PROPERTIES
  OkMeansInForce
  CommandsDoNotOverlap
  CommandsAnswered
