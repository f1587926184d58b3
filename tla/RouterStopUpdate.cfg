SPECIFICATION Spec
CONSTANTS
    c1 = c1
    c2 = c2
    a1 = a1
    a2 = a2
    None = None
    Callers <- TwoCallers
    Ops <- StopUpdateOps
    Addrs <- OneAddr
    Ids = {1, 2}
    Servers = {s1, s2}
    Port80MayFail = FALSE
    Settled = FALSE
INVARIANTS
    HeldSendIsHeard
CHECK_DEADLOCK FALSE
