SPECIFICATION MCSpec
CONSTANTS
  PLAYER_COUNT = 2
  ExpectedPlayers = 1
  MAX_INPUTS_PER_TICK = 1
  REFUSED_MAX = 0
  MaxSeq = 0
  MaxTicks = 2
  Conns = {a, b}
  CHANNEL = 1
  STREAM = 1
  Hostile = {}
  NoConn = NoConn
  NoSeat = NoSeat
  SeatNumbers = {0, 1}
  OUTBOX = 1
  MAX_SAMPLES = 5
  MaxPresses = 5
  MaxViews = 2
  SERVER_SHARDS = 2
  COUNTER_MAX = 1
  MaxFrames = 3
  MaxAck = 0
INVARIANTS
  FramesReachTheirOwner
  ReplayFindsItsCompanion
  EveryIntentionIsAnchored
  HoldsTheNewest
  AckBelongsToTheWorld
  ReadUnlessOvertaken
PROPERTIES
  ImplementsRegister
  SeatSpeaksForItsOwner
  BegunMatchEnds
  AcceptedIsRecorded
  WaitEnds
  LoopLearnsOfTheEnd
CHECK_DEADLOCK FALSE
