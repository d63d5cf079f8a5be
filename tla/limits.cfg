SPECIFICATION Spec
CONSTANTS
  Proc = {p1, p2}
  NoProc = NoProc
  Messages <- Short_And_Long
  PID_Digits <- Ten_Digits
  Size_Maxes = {90}
  Files_Maxes = {2}
  Size_Default = 50
  Files_Default = 3
  May_Unlimit = FALSE
  Natural_Last <- Wide_Natural
  Faults <- Delete_Fault
  Torn = {}
  Clock_Steps <- Steady_Clock
  Grain = 1
  MaxWrites = 2
  MaxKills = 0
SYMMETRY Symmetry
INVARIANTS
  Delivered
PROPERTIES
  SizeLimitKept
  RemovedAreOld
  RotationKeepsFilesMax
  ChunkProgress
