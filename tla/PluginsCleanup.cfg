SPECIFICATION Spec
CONSTANTS
    admin = admin
    request = request
    cleanup1 = cleanup1
    cleanup2 = cleanup2
    Procs = {admin, request, cleanup1, cleanup2}
    Threads = {admin, request}
    CleanupOf <- Cleanups
    NoProc = noproc
    NoOne = noone
    Listeners = {p1}
    Events = {blacklisted}
    Admin = admin
    Emitters = {request}
    UI = {p1}
    Keyed = {p1}
    Subscribes <- AllEvents
    MaxRuns = 2
INVARIANTS
    StartedIsSubscribed
CHECK_DEADLOCK FALSE
