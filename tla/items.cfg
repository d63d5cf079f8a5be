SPECIFICATION Spec
CONSTANTS
  Systems = {"posix", "win32"}
  Tables <- One_Or_Two
  Suffix_Files <- Some_Suffixes
  Libraries <- Some_Libraries
  Worlds <- Some_Worlds
  Accounts = {"root", "bin", "Administrator", "None"}
  Checked <- Mode_755
  Max_PathLen = 9
  Max_Suffix = 1
  MaxFaults = 2
INVARIANTS
  TypeOK
  OperandsAsListed
  AcceptedMatches
  IdsAreLive
  IdsAreGivenBack
CHECK_DEADLOCK FALSE
