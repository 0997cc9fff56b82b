SPECIFICATION Spec
CONSTANTS
    p1 = p1
    p10 = p10
    m1 = m1
    m2 = m2
    People = {p1, p10}
    Matches = {m1, m2}
    Players <- Played
    Committed = {m2}
    Within <- Prefixed
    Purposes <- Separable
    Grants <- AllOrNone
    MaxDocument = 1
    MaxCommands = 4
    Nine = {m1}
    HeldOut = {m2}
    Mortal = {"withdraw"}
    MortalAgain = {}
INVARIANT NextRunRepairs
CHECK_DEADLOCK FALSE
