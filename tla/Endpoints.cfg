SPECIFICATION Spec
CONSTANTS
    Callers = {c1, c2}
    Hosts = {h1, h2}
    Settings = {plain, other}
    Upstreams = {u1, u2}
    Vdirs = {d1}
    Objects = {o1, o2, o3}
    Unparsable = {u2, d1}
    Exclusive = TRUE
    SavesFail = TRUE
    None = none
    Torn = torn
SYMMETRY Symmetry
INVARIANTS
    TypeOK
    NamesMatch
    Durable
PROPERTY StoreSpec
CHECK_DEADLOCK FALSE
