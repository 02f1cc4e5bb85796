CONSTANTS
  Key = {1, 2, 3, 4, 5, 6, 7}
  Offset = {1, 2}
  MaxKeys = 4
  Least = 0
SPECIFICATION SoundSpec
INVARIANT StreamExact
