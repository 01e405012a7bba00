CONSTANTS
    m1 = m1
    m2 = m2
    y1 = y1
    e1 = e1
    e2 = e2
    t1 = t1
    t2 = t2
    t3 = t3
    None = None
    Ids = {m1}
    Mine = {}
    Polls = {e1, e2}
    Transfers = {t1, t2, t3}
    Contents = {"text", "more"}
    MaxTransfers = 1
    Pieces = 2
    MaxRevision = 3
    MaxFaults = 1
    MaxRefreshes = 1
SYMMETRY Symmetry
SPECIFICATION Spec
INVARIANTS TypeOK ViewIsAVersion DeltasApply
PROPERTY NeverGoesBack
CHECK_DEADLOCK FALSE
