SPECIFICATION FairSpec
CONSTANTS
    None = None
    s = s
    i = i
    p = p
    sta = sta
    Node = {s, i, p}
    Link <- TriangleLink
    LinkCost <- TriangleCost
    Portal = {p}
    Sta = {sta}
    StaOf <- PortalSta
    Wants <- MixedWants
    RREQ_TTL = 3
    HEADER_TTL = 3
    pathSwitchThreshold = 1
    MESH_DEMO = FALSE
    Faults = {"loss", "repeat", "restart"}
    QueueMax = 6
    MaxSeq = 7
    MaxEvent = 3
INVARIANTS TypeOK LoopFree NoBlackHole PathShape
PROPERTIES Answered
CHECK_DEADLOCK FALSE
