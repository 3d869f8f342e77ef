CONSTANTS
    Regs = {"r1", "r2"}
    Reg <- MCReg
    Posts = {"p", "f"}
    Post <- MCPost
    Dels = {"d"}
    Del <- MCDel
    Elsewhere = {"bob"}
    PoolSize = 2
    MaxOpen = 2
    MaxAttempts = 2
    MaxRestarts = 1
SPECIFICATION Spec
INVARIANT CacheCurrent
CHECK_DEADLOCK FALSE
PROPERTY CallsEnd
