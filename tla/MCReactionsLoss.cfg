\* Two enemies and four ticks, in which one can appear twice; a person of
\* two orders and a Reactor of two delays.  Fewer pairs than the code asks
\* for make a score.
SPECIFICATION RSpec
CONSTANTS
  Enemies = {"a", "b"}
  Reflexes = {{0, 1}}
  HOLD_TICKS = 2
  MAX_PENDING = 2
  FLOOR_MINIMUM_PAIRS = 2
  DISPERSION_MINIMUM_PAIRS = 2
  CENTITICKS = 2
  MaxTicks = 4
  MaxOrders = 2
INVARIANT LatencyIsUnderestimated
CHECK_DEADLOCK FALSE
