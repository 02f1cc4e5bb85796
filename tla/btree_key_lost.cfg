CONSTANTS
  Key = {1, 2, 3, 4, 5, 6, 7, 8}
  Offset = {1}
  MaxKeys = 3
  Least = 0
SPECIFICATION Spec
PROPERTY OthersStay
