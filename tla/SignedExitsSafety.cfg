SPECIFICATION Spec
CONSTANTS
    v1 = v1
    v2 = v2
    v3 = v3
    c1 = c1
    Validators = {v1, v2, v3}
    Established = {v1, v2}
    Clients = {c1}
    NodeAddress = me
    OtherAddress = other
    NoAddress = none
    MaxFaults = 1
    MaxReassign = 2
SYMMETRY Symmetry
INVARIANTS TypeOK SuccessVerified NoResend
PROPERTIES DeliveryPromise RetryShrinks
