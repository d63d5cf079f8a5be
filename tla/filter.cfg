SPECIFICATION Spec
CONSTANTS
  Alphabet = {10, 31, 92, 120, 127, 250}
  MaxLength = 4
  Max_Lengths = {5, 6, 9}
  No_Limit = No_Limit
INVARIANTS
  LinesArePrintable
  LinesAreReadable
  LinesFit
PROPERTIES
  StopsAsModelled
