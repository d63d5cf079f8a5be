SPECIFICATION Spec
CONSTANTS
  Proc = {p1, p2}
  NoProc = NoProc
  Messages <- Short_And_Long
  PID_Digits <- Ten_Digits
  Size_Maxes = {}
  Files_Maxes = {}
  Size_Default = 50
  Files_Default = 2
  May_Unlimit = FALSE
  Natural_Last <- Wide_Natural
  Faults <- No_Faults
  Torn = {10}
  Clock_Steps <- Steady_Clock
  Grain = 4
  MaxWrites = 1
  MaxKills = 0
INVARIANT SavedFilesAreTheLatest
