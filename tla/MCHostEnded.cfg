\* Two connections to two seats, a match that starts with one of them:
\* enough for a seat to change hands in the lobby while the frames and the
\* closure of its first session are still on the way, for a late arrival,
\* and for a match that everybody leaves.  The channel and the streams
\* hold one event each, so that every producer meets a full one.
SPECIFICATION HostSpec
CONSTANTS
  PLAYER_COUNT = 2
  ExpectedPlayers = 1
  MAX_INPUTS_PER_TICK = 1
  REFUSED_MAX = 0
  MaxSeq = 0
  MaxTicks = 2
  Conns = {a, b}
  CHANNEL = 2
  STREAM = 2
  Hostile = {a}
  NoConn = NoConn
  NoSeat = NoSeat
INVARIANTS
  EndedSessionIsOver
CHECK_DEADLOCK FALSE
