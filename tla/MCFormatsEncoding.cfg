SPECIFICATION FSpec
CONSTANTS
  Q = 6
  SEATS = 2
  NAME_MAX = 2
  MAX_VISIBLE = 2
  MAX_SHOWN_EVENTS = 1
  FormatValues <- ValuesOf
  MaxDamage <- DamageTo
INVARIANT OneEncoding
CHECK_DEADLOCK FALSE
