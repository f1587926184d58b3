SPECIFICATION FairSpec
CONSTANTS
    c1 = c1
    c2 = c2
    a1 = a1
    a2 = a2
    None = None
    Callers <- OneCaller
    Ops <- SerialOps
    Addrs <- TwoAddrs
    Ids = {1}
    Servers = {s1}
    Port80MayFail = FALSE
    Settled = TRUE
INVARIANTS
    TypeOK
    ListenersOwned
    RedirectOwned
    SendsAreHeard
    ListensAsRead
    StopLeavesNothing
    MainOwned
    RunningHasServer
    SettingsApplied
PROPERTIES
    RequestReturns
