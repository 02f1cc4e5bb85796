CONSTANTS
  Line = {u, v, w}
  Capacity = 3
SPECIFICATION Spec
INVARIANT FileCurrent
PROPERTY KeepsRecent
