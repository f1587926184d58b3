SPECIFICATION Spec
CONSTANTS
    c1 = c1
    c2 = c2
    a1 = a1
    a2 = a2
    None = None
    Callers <- TwoCallers
    Ops <- UpdateOps
    Addrs <- OneAddr
    Ids = {i1, i2}
    Servers = {s1}
    Port80MayFail = TRUE
    Settled = FALSE
INVARIANTS
    HeldSendIsHeard
SYMMETRY IdsSymmetry
