SPECIFICATION Spec
CONSTANTS
    u1 = u1
    u2 = u2
    c1 = c1
    c2 = c2
    b1 = b1
    b2 = b2
    Users = {u1, u2}
    Contracts = {c1, c2}
    Bindings = {b1, b2}
    None = None
    MaxVersion = 2
    MaxDirectory = 2
    StoresInOrder = TRUE
INVARIANTS TypeOK UsesCurrentContracts UsesLoadedBindings
PROPERTIES NeverOlder
