CONSTANTS
  Key = {1, 2, 3, 4, 5, 6, 7, 8, 9, 10, 11}
  Offset = {1}
  MaxKeys = 3
  Seed <- Nine
  Least = 8
SPECIFICATION SeededSpec
INVARIANT Balanced Ordered ParentsRight SearchExact IsDictionary
