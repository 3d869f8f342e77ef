\* Every filter of the bounded domain against every event; pages of gift wraps;
\* writers of one hash and of another, removals and lookups of the index.
SPECIFICATION RequestSpec
CONSTANTS
    Wild = Wild
    Empty = ""
    GenericRepost = 16
    RepostKind <- MCRepostKind
    CartesianLimit = 2
    FilterSets <- MCFilterSets
    Users <- MCUsers
    EventSet <- MCEvents
    DeviceKey = "dev"
    MasterKey = "mas"
    GiftWrap = 1059
    CommunityProtected = {1, 16}
    Admitting = {"x"}
    Excluded <- MCExcluded
    CommunityPosts = {1}
    MaxTagValues = 5
    LangISO = "iso"
    Gifts <- MCGifts
    Timings <- MCTimings
    Sinces = {1, 2}
    PageLimit = 2
    BatchSize = 2
    MaxChanges = 2
    v1 = v1  v2 = v2  v3 = v3  w1 = w1
    d1 = d1  d2 = d2  l1 = l1
    h1 = h1  h2 = h2  k1 = k1  k2 = k2  k3 = k3
    Values = {v1, v2, v3, w1}
    Removals = {d1, d2}
    Lookups = {l1}
    Hashes = {h1, h2}
    Keys = {k1, k2, k3}
    HashOf <- MCHashOf
    KeysOf <- MCKeysOf
CHECK_DEADLOCK FALSE
INVARIANTS MatchingIsForwarded StoredMatchesLive AnswerVisible PagesComplete
           IndexesAgree LookupFindsAll
PROPERTY PagesEnd
