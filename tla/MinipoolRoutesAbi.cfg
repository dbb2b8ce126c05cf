SPECIFICATION Spec
CONSTANTS
    Minipools = {m1, m2}
    Nodes = {n1, n2}
    Declared = {"getMinipools", "maxValidators", "minipoolData", "closeDissolvedMinipool"}
    MaxBlocks = 3
SYMMETRY Symmetry
CHECK_DEADLOCK FALSE
INVARIANT RefusedForCause
