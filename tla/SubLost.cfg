\* An event pushed after the buffer was drained is never sent.
SPECIFICATION Spec
CONSTANTS
    c1 = c1  i1 = i1
    r1 = r1  r2 = r2
    e1 = e1  a1 = a1  n1 = n1
    Conns = {c1}
    Ids = {i1}
    Reqs = {r1}
    Closes = {}
    Events = {e1}
    Addrs = {a1}
    ConnOf <- OneConnOf
    IdOf <- OneIdOf
    OneShot = {}
    Paging = {}
    Wants <- WantsAll
    Addr <- OneAddr
    Keys = {n1}
    FilterKeys <- FilterKey
    EventKeys <- EventKey
    ReadReplica = FALSE
CHECK_DEADLOCK FALSE
INVARIANTS AllForwarded
