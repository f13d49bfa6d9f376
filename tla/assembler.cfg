SPECIFICATION Spec
CONSTANTS
  Sources <- SomeSources
  Names <- SomeNames
  References <- SomeReferences
  ImageSize = 8
  MaxSyms = 4
  MaxPasses = 4
INVARIANTS
  TypeOK
  WrittenIsConsistent
  RefusedWithReason
PROPERTY EmissionMovesNothing
CHECK_DEADLOCK FALSE
