SPECIFICATION FairSpec
CONSTANTS
    Group = {g1, g2}
    Host = {h1, h2}
    MAX_MFCT_ENTRY = 2
    MAX_MBR_ENTRY = 2
    MaxJoin = 1
    LAST_MEMBER_QUERY_INTERVAL = 1
    LAST_MEMBER_QUERY_COUNT = 2
    MEMBER_QUERY_INTERVAL = 2
    MEMBER_QUERY_COUNT = 3
    Interval <- MCInterval
    Times <- MCTimes
    RetryMod = 16
    MaxBack = 1
    MaxEvent = 5
INVARIANTS TypeOK RoutesFollowGroups Watched
PROPERTIES AskedTwice NoSlotLost Quiesces
