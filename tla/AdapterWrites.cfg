\* Two handlers and a broadcast compete for a channel of two.
SPECIFICATION FairSpec
CONSTANTS
    m1 = m1  m2 = m2  m3 = m3
    Calls = {m1, m2, m3}
    Cancellable = {m1, m2}
    Capacity = 2
    Ping = Ping
    Reader = Reader
CHECK_DEADLOCK FALSE
INVARIANTS CloseHarmless
PROPERTIES WritesReturn AcceptedIsWritten
