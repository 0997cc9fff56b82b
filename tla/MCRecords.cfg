SPECIFICATION MCSpec
CONSTANTS
  p1 = p1
  p10 = p10
  m1 = m1
  m2 = m2
  People = {p1, p10}
  Matches = {m1, m2}
  Players <- Played
  Committed = {m2}
  Within <- Prefixed
  Purposes <- Separable
  Grants <- AllOrNone
  MaxDocument = 2
  MaxCommands = 4
  Nine = {m1}
  HeldOut = {m2}
  Mortal = {"enrol", "store", "withdraw", "revoke", "conclude", "publish"}
  MortalAgain = {"store", "withdraw", "conclude"}
  Q = 6
  SEATS = 2
  NAME_MAX = 2
  MAX_VISIBLE = 2
  MAX_SHOWN_EVENTS = 1
  FormatValues <- ValuesOf
  MaxDamage <- DamageTo
  ESeats = {0, 1}
  Hosted_ = {"m1", "m2", "m3"}
  Recording_ <- RecordingOf
  Named_ <- NamesIn
  Streams_ <- StreamsOf
  Parts_ <- PartsFor
  MaxChanges = 3
  BLOCK = 8
  Base <- Originals
  Edits <- EditsOf
  MaxEdits <- TwoAndOne
  REACHES = 3
  OCTANTS = 2
  DISTANCE_RATIO = 3
  FAST_REACHES = 1
  Sessions = {"m1", "m2", "m3"}
  Mice = {10, 12}
  Owners <- Pair
  Crossing_ <- Crossings
  MaxFilings = 3
  Enemies = {"a", "b"}
  Reflexes = {{0, 1}}
  HOLD_TICKS = 2
  MAX_PENDING = 2
  FLOOR_MINIMUM_PAIRS = 2
  DISPERSION_MINIMUM_PAIRS = 2
  CENTITICKS = 2
  MaxTicks = 4
  MaxOrders = 2
  PARTS = 2
  Rates <- Speeds
  Offsets = {0, 1000}
  Gaps = {0, 1, 3, 8}
  Delays = {0, 1, 5}
  MaxInputs = 4
  Recorded <- Several
  MINIMUM_PEOPLE = 3
  MaxFiled = 3
INVARIANTS
  HeldUnderConsent
  WithdrawnIsForgotten
  NothingIsHeldSilently
  RevokedIsNotUsed
  ReportsAgree
  FormatsAreFaithful
  EvidenceIsVerified
  DigestsTellApart
  ProfilesAreSound
  DetectorReadsTheMatch
  RateIsRead
  BasisIsOneOfPeople
PROPERTY SecondTimeDestroysNothing
CHECK_DEADLOCK FALSE
