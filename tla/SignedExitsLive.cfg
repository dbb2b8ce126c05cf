SPECIFICATION FairSpec
CONSTANTS
    v1 = v1
    v2 = v2
    c1 = c1
    Validators = {v1, v2}
    Established = {v1}
    Clients = {c1}
    NodeAddress = me
    OtherAddress = other
    NoAddress = none
    MaxFaults = 1
    MaxReassign = 2
PROPERTIES Delivery CacheCatchesUp RunEnds
