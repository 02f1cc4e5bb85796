CONSTANTS
  a = a
  b = b
  x = x
  y = y
  z = z
  Column = {a, b}
  Value = {x, y}
  Index = {1}
  IndexCols <- OneIndex
  KeyPart <- WholeValues
  Trim <- NoPadding
  Where <- Clauses
  Assignment <- Assignments
  MaxRows = 4
  MayCrash = FALSE
SPECIFICATION Spec
INVARIANT IndexExact NoSpuriousDuplicate OthersUntouched
