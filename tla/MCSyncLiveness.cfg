CONSTANTS
    m1 = m1
    m2 = m2
    y1 = y1
    e1 = e1
    e2 = e2
    t1 = t1
    t2 = t2
    t3 = t3
    None = None
    Ids = {m1, y1}
    Mine = {y1}
    Polls = {e1, e2}
    Transfers = {t1}
    Contents = {"draft"}
    MaxTransfers = 1
    Pieces = 1
    MaxRevision = 4
    MaxFaults = 1
    MaxRefreshes = 0
SPECIFICATION FairSpec
INVARIANT FullSyncApplies
PROPERTY CatchesUp
CHECK_DEADLOCK FALSE
