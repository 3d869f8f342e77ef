\* The attestations of one device; the roles in one community.
SPECIFICATION AccessSpec
CONSTANTS
    Conns = {"c"}
    Master = "m"
    Devices = {"d"}
    Kinds = {"note", "like"}
    Embeddable = {"like"}
    KindLists = {{}, {"note"}}
    MaxTime = 3
    MaxTags = 3
    MaxHandlers = 2
    Users = {"o", "a", "m"}
    Times = {1, 2, 3}
    Definitions <- MCDefinitions
    Changes <- MCChanges
    Joins <- MCJoins
    Slow = {"m"}
    MaxStored = 3
    MaxInflight = 1
INVARIANTS AccessFollowsHistory DefinitionConsistent
PROPERTIES StoredAllowed KeyKept RolesRespected
CHECK_DEADLOCK FALSE
