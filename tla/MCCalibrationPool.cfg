SPECIFICATION CalSpec
CONSTANTS
  REACHES = 3
  OCTANTS = 2
  DISTANCE_RATIO = 3
  FAST_REACHES = 1
  Sessions = {"m1", "m2", "m3"}
  Mice = {10, 12}
  Owners <- Pair
  Crossing_ <- Crossings
  MaxFilings = 3
INVARIANT MismatchedIsNotPooled
CHECK_DEADLOCK FALSE
