SPECIFICATION Spec
CONSTANTS
    m1 = m1
    m2 = m2
    Minipools = {m1, m2}
    ScrubPeriod = 1
    LaunchTimeout = 13
    Interval = 1
    Inclusion = 1
    MaxFaults = 1
    MaxTime = 14
    MaxSkew = 1
    KeysFirst = TRUE
INVARIANTS TypeOK ScrubRespected NeverDissolvable
CHECK_DEADLOCK FALSE
