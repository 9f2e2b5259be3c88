CONSTANTS
  Commands = {c1, c2}
  Stores = {"a1", "a2", "b"}
  HomeOf <- MCHome
  Owners = {"b"}
  Sessions = {s1, s2}
  At <- MCAt
  Aged = "P"
  Windows = {2}
  Files = {"f"}
  MaxLive = 1
  MaxScan = 3
  Mixes <- MCMixes
SPECIFICATION ProjectionSpec
SYMMETRY Symmetry
CHECK_DEADLOCK FALSE
INVARIANT RetractionSticks
