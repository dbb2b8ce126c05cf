SPECIFICATION Spec
CONSTANTS
    r1 = r1
    r2 = r2
    Requests = {r1, r2}
    MaxAccount = 2
    Ten = 2
    Overlap = "creates"
    SaveFirst = TRUE
INVARIANTS TypeOK DeployedSignable
PROPERTIES WalletPromise
CHECK_DEADLOCK FALSE
