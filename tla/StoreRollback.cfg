\* Posts, replies and a circle of references; a batch that deletes them all.
SPECIFICATION FairSpec
CONSTANTS
    p = p  r = r  d = d  q = q  q2 = q2  s = s  y = y  A = A  D = D  L = L
    b1 = b1  b2 = b2  b3 = b3
    Events = {p, r, d, q, q2, s, y}
    Batches = {b1, b2, b3}
    Replaceable = {q, q2, s, d}
    Reposts = {y}
    Soft = {q2}
    Origin <- MCOrigin
    Seen <- MCSeen
    Addr <- MCAddr
    SysId <- MCSysId
    Refs <- MCRefs
    Class <- MCClass
    Save <- MCSave
    Kill <- MCKill
    Replayed = {b1}
    Faulty = {b2, b3}
    MaxTries <- MCTries
CHECK_DEADLOCK FALSE
INVARIANTS UndoComplete NoOrphans RollbackRestores
PROPERTIES CallsEnd
