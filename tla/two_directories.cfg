SPECIFICATION Spec
CONSTANTS
  Dir = {a, b}
  Closed = Closed
  FD_Last = 4
  Length = 2
INVARIANT TwoFit
