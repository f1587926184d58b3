SPECIFICATION FairSpec
CONSTANTS
    Clients = {c1, c2}
    Sockets = {s1, s2, s3}
    Listeners = 2
    Settled = TRUE
    None = None
INVARIANTS
    TypeOK
    NoLeak
    NoDeadEntry
    OneSession
PROPERTIES
    Drains
CHECK_DEADLOCK FALSE
