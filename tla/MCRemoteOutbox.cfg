CONSTANTS
    None = None
    t1 = t1
    m1 = m1
    m2 = m2
    k1 = k1
    k2 = k2
    old1 = old1
    Tabs = {t1}
    Messages = {m1, m2}
    Creates = {k1, k2}
    OldSessions = {old1}
    MaxLosses = 2
    MaxSwitches = 1
    MaxRestarts = 1
    MaxOthers = 1
SPECIFICATION OutboxSpec
INVARIANTS OutboxConsistent PromptedOnce OneConversation
PROPERTY OnlyItsAnswerErases
SYMMETRY OutboxSymmetry
CHECK_DEADLOCK FALSE
