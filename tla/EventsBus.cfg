SPECIFICATION EventSpec
CONSTANTS
    t1 = t1
    t2 = t2
    c1 = c1
    c2 = c2
    Procs = {t1, t2, c1, c2}
    Threads = {t1, t2}
    CleanupOf <- Cleanups
    NoProc = noproc
    NoOne = noone
    Listeners = {p1, p2}
    Events = {blacklisted}
PROPERTIES
    BusSpec
CHECK_DEADLOCK FALSE
