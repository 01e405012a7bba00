CONSTANTS
    m1 = m1
    m2 = m2
    y1 = y1
    e1 = e1
    e2 = e2
    t1 = t1
    t2 = t2
    t3 = t3
    None = None
    Ids = {m1, y1}
    Mine = {y1}
    Polls = {e1, e2}
    Transfers = {}
    Contents = {"text", "draft"}
    MaxTransfers = 1
    Pieces = 2
    MaxRevision = 4
    MaxFaults = 0
    MaxRefreshes = 0
SYMMETRY Symmetry
SPECIFICATION Spec
INVARIANT PolledIsTheHosts
CHECK_DEADLOCK FALSE
