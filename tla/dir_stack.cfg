SPECIFICATION Spec
CONSTANTS
  Dir = {a, b, c}
  Closed = Closed
  FD_Last = 4
  Length = 3
SYMMETRY Symmetry
INVARIANTS
  TypeOK
  SavedAreOpen
  NothingElseOpen
PROPERTIES
  ImplementsDirectoryStack
