CONSTANTS
  Table = {t, u, v}
  Index = {i}
  Long = {}
  Odd = {}
  DropLast = FALSE
  MayCrash = TRUE
SPECIFICATION Spec
INVARIANT FilesAgree AlwaysOpens OpenAgrees
PROPERTY IsRegistry
