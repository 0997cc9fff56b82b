SPECIFICATION MCSpec
CONSTANTS
  PLAYER_COUNT = 1
  ExpectedPlayers = 1
  MAX_INPUTS_PER_TICK = 2
  REFUSED_MAX = 1
  MaxSeq = 3
  MaxTicks = 5
  Half = 2
  Spawn = 0
  Foe = 2
  Reach = 1
  Points <- Grounds
  Kinds = {"Idle", "Move", "Cast", "Attack"}
  PROJECTILE_ID_BASE = 10
  ID_MAX = 14
  MAX_PROJECTILES = 4
  Lifetime = 2
  PerTick = 2
  MaxCasts = 6
  MAX_EVENTS = 4
  MAX_EVENTS_PER_VIEW = 2
  DROPPED_MAX = 4
  MaxEmitted = 5
  MaxTellings = 3
  LIMIT = 100
  Stations <- Buttons_
  DUMMY_STATIONS <- Dummies
  BUTTON_RADIUS = 11
  DUMMY_RADIUS = 6
  MIN_REACH = 8
  Landings <- Hands
  MaxMotions = 5
INVARIANTS
  NothingForgotten
  ShadowOfTheOrder
  ExactInStep
  HandlesAreNames
  HiddenCastsAreNotTold
  EveryEventIsAccountedFor
  CrossingIsMeasured
CHECK_DEADLOCK FALSE
