SPECIFICATION Spec
CONSTANTS
    r1 = r1
    r2 = r2
    Rules = {r1}
    Modes <- AnyModes
    Ops <- AllOps
    Callers = {admin}
    Main = main
    Ids = {1}
    Fails <- BothFail
    Settled = TRUE
    SavesFail = FALSE
    Empty = empty
    Torn = torn
    None = none
INVARIANT
    EveryStopIsHeard
