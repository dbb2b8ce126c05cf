SPECIFICATION FairSpec
CONSTANTS
    m1 = m1
    m2 = m2
    c1 = c1
    c2 = c2
    Minipools = {m1, m2}
    Clients = {c1, c2}
    ShardCommitteePeriod = 1
    MaxEpoch = 1
    MaxFaults = 1
INVARIANTS TypeOK NoneRefused
PROPERTIES AllLeave
CHECK_DEADLOCK FALSE
