\* A champion that walks to one place or stops, and five ticks: enough for
\* a view to be missed between two that are in step.
SPECIFICATION PredictionSpec
CONSTANTS
  PLAYER_COUNT = 1
  ExpectedPlayers = 1
  MAX_INPUTS_PER_TICK = 2
  REFUSED_MAX = 1
  MaxSeq = 3
  MaxTicks = 5
  Half = 2
  Spawn = 0
  Foe = 2
  Reach = 1
  Points = {2}
  Kinds = {"Idle", "Move"}
INVARIANT
  InStepIsExact
CHECK_DEADLOCK FALSE
