\* A one-shot and a paging REQ of one ID, and a replica that lags.
SPECIFICATION FairSpec
CONSTANTS
    c1 = c1  i1 = i1
    r1 = r1  r2 = r2
    e1 = e1  a1 = a1  n1 = n1
    Conns = {c1}
    Ids = {i1}
    Reqs = {r1, r2}
    Closes = {}
    Events = {e1}
    Addrs = {a1}
    ConnOf <- OneConnOf
    IdOf <- OneIdOf
    OneShot = {r2}
    Paging = {r1}
    Wants <- WantsAll
    Addr <- OneAddr
    Keys = {n1}
    FilterKeys <- FilterKey
    EventKeys <- EventKey
    ReadReplica = TRUE
CHECK_DEADLOCK FALSE
PROPERTY ReqAnswered
