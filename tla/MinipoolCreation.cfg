SPECIFICATION FairSpec
CONSTANTS
    s1 = s1
    s2 = s2
    r1 = r1
    r2 = r2
    Salts = {s1, s2}
    Requests = {r1, r2}
    PrelaunchValue = 1
    Locks = {1, 2}
    MaxLimit = 2
    Skips <- MCSkips
    MaxSpare = 0
    MaxTrouble = 1
INVARIANTS TypeOK OfferAccepted KeyNotReused
PROPERTIES FillsUp
CHECK_DEADLOCK FALSE
