SPECIFICATION MCSpec
CONSTANTS
  Keys = {"K0"}
  Buttons = {"SHG"}
  Switches = {"RB"}
  HostKeys = {"0", "F9"}
  Legend <- PanelLegend
  SystemKeys = {}
  EVQ_SIZE = 3
  MaxWaiting = 2
  NONE = NONE
INVARIANTS
  TypeOK
  StuckOnlyAfterLoss
  OncePerPress
PROPERTY Released
CHECK_DEADLOCK FALSE
