SPECIFICATION FairSpec
CONSTANTS
    r1 = r1
    r2 = r2
    Rules = {r1, r2}
    Modes <- TwoRuleModes
    Ops <- AllOps
    Callers = {admin}
    Main = main
    Ids = {1}
    Fails <- BothFail
    Settled = TRUE
    SavesFail = TRUE
    Empty = empty
    Torn = torn
    None = none
INVARIANTS
    TypeOK
    ListenersOwned
    StoppedServesNobody
    TcpFieldIsCurrent
    SoundStopIsHeard
    ListedHaveFiles
PROPERTIES
    SoundRequestReturns
