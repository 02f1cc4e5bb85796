CONSTANTS
  a = a
  b = b
  x = x
  y = y
  z = z
  Column = {a, b}
  Value = {x, y}
  Index = {1, 2}
  IndexCols <- TwoIndexes
  KeyPart <- WholeValues
  Trim <- NoPadding
  Where <- Clauses
  Assignment <- Assignments
  MaxRows = 2
  MayCrash = FALSE
SPECIFICATION Spec
INVARIANT TypeOK IndexExact
