SPECIFICATION Spec
CONSTANTS
  DIGITS = 2
  SEGMENTS = 2
  ENERGY_SCALE = 3
  DecayDivisor = 4
  StepSize = 10
  Word = 200
  Durations = {4, 9}
  Selections <- TwoSelections
  Masks <- TwoMasks
  MaxCycles = 48
INVARIANTS
  TypeOK
  EnergyOrdered
  CleanDigitIsExact
  TotalBounded
