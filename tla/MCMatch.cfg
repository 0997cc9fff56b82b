SPECIFICATION MCSpec
CONSTANTS
  PLAYER_COUNT = 2
  ExpectedPlayers = 1
  MAX_INPUTS_PER_TICK = 2
  REFUSED_MAX = 1
  MaxSeq = 2
  MaxTicks = 2
  SeatTeam <- Players
  SpawnAt <- Spawns
  TowerTeam <- Owners
  TowerAt <- Lanes
  Teams <- ThreeTeams
  Rules <- Battlefield
  TOWER_ID_BASE = 10
  PROJECTILE_ID_BASE = 100
  ID_MAX = 102
  MAX_PROJECTILES = 4
  MAX_EVENTS = 28
  Vocabulary <- Said
  PerSlice = 2
  MaxSteps = 4
  WIDTH = 8
  ONE = 16
  LIMIT_RAW = 40
  Speeds = {3, 5}
  Coordinates <- Walkers
  Operands <- Numbers
  RNG_BITS = 8
  Seeds = {1}
INVARIANTS
  LogCanonical
  AppliedExactlyOnce
  RecordingReproduces
  NoAdvantage
  FogHolds
PROPERTIES
  ImplementsContract
  EventsExplainTheStep
  NumbersAreExact
CHECK_DEADLOCK FALSE
