SPECIFICATION CliSpec
CONSTANTS
  RamBase = 64
  RamMax = 16
  RamSizes = {8, 16}
  Programs <- AllPrograms
  Keys <- OneKey
  Slices = {1}
  MaxCycles = 60
  MaxResets = 1
  Sessions <- AllSessions
  MAX_BP = 2
  Breakpoints = {3, 12}
  Budgets = {0, 30}
  KEY_HOLD = 40
  Targets = {0, 4}
  Pokes <- SomePokes
  HexFiles <- SomeFiles
  Ranges <- SomeRanges
  RecordSize = 4
  SaveCycles = {10, 20}
INVARIANTS
  TypeOK
  DisplayInSync
  DryRunFits
  ShownUnlessEdited
  RomUnlessRev1Follows
PROPERTIES
  ImplementsInterrupts
  BreakpointsHonoured
  RunEnds
  HexRestores
  BadFileStopsAtRecord
  KeyIsTapOrNothing
CHECK_DEADLOCK FALSE
