CONSTANTS
  a = a
  b = b
  x = x
  y = y
  z = z
  Column = {a}
  Value = {x, y}
  Index = {1}
  IndexCols <- OneIndex
  KeyPart <- WholeValues
  Trim <- NoPadding
  Where <- Clauses
  Assignment <- Assignments
  MaxRows = 3
  MayCrash = TRUE
SPECIFICATION FairSpec
INVARIANT EntriesPointHome KeysUnique SelectExact TableInv RelationInv
PROPERTY AppendOnly StatementEnds IsRelation
