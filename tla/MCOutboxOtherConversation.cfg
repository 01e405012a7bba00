CONSTANTS
    None = None
    t1 = t1
    m1 = m1
    m2 = m2
    k1 = k1
    k2 = k2
    old1 = old1
    Tabs = {t1}
    Messages = {m1, m2}
    Creates = {k1, k2}
    OldSessions = {old1}
    MaxLosses = 1
    MaxSwitches = 1
    MaxRestarts = 1
    MaxOthers = 1
SPECIFICATION OutboxSpec
INVARIANT StaysInItsConversation
SYMMETRY OutboxSymmetry
CHECK_DEADLOCK FALSE
