SPECIFICATION Spec
CONSTANTS
    Minipools = {m1, m2}
    Nodes = {n1, n2}
    Declared = {"getMinipools", "maxValidators", "minipoolData", "subNodeOperatorHasMinipool", "close"}
    MaxBlocks = 3
SYMMETRY Symmetry
CHECK_DEADLOCK FALSE
INVARIANTS TypeOK OneBlock NoExitForgotten NoneOverlooked CountsSound
