CONSTANTS
    None = None
    t1 = t1
    t2 = t2
    m1 = m1
    k1 = k1
    k2 = k2
    old1 = old1
    Tabs = {t1, t2}
    Messages = {m1}
    Creates = {k1, k2}
    OldSessions = {old1}
    MaxLosses = 2
    MaxSwitches = 3
    MaxRestarts = 0
    MaxOthers = 0
SPECIFICATION OutboxSpec
INVARIANT OneConversation
SYMMETRY OutboxSymmetry
CHECK_DEADLOCK FALSE
