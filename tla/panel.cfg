SPECIFICATION PanelSpec
CONSTANTS
  RamBase = 64
  RamMax = 16
  RamSizes = {8}
  Programs <- AllPrograms
  Keys <- OneKey
  Slices = {1, 25}
  MaxCycles = 80
  MaxResets = 1
INVARIANTS
  SequenceInProgress
  ShownUnlessInterrupted
PROPERTY PressIsAllOrNothing
