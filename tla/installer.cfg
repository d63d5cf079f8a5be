SPECIFICATION FairSpec
CONSTANTS
  Table <- A_Table
  Users = {"root", "user"}
  Root = "root"
  Bits <- All_Bits
  Checked <- Mode_755
  Creat <- Creat_Mode
  Write = "uw"
  Umasks <- Some_Umasks
  Trees <- Some_Trees
  Bytes <- Sizes
  Stranger = "stranger"
  MaxRuns = 3
  MaxEvents = 2
INVARIANTS
  TypeOK
  FinalNamesAreWhole
  InstalledAsListed
  RetrySucceeds
  CheckFindsDamage
  InstalledItemsPass
  DeinstallLeavesOnlyForeign
PROPERTIES
  ForeignSurvives
  RunsEnd
CHECK_DEADLOCK FALSE
