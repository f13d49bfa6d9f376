SPECIFICATION MCSpec
CONSTANTS
  Keys = {}
  Buttons = {}
  Switches = {"KM"}
  HostKeys = {"F10"}
  Legend <- TenthLegend
  SystemKeys = {"F10"}
  EVQ_SIZE = 3
  MaxWaiting = 2
  NONE = NONE
INVARIANT KeysOfTheTableWork
CHECK_DEADLOCK FALSE
