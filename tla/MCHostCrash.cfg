CONSTANTS
    s1 = s1
    s2 = s2
    p1 = p1
    c1 = c1
    c2 = c2
    c3 = c3
    None = None
    Sessions = {s1, s2}
    Existing = {s1}
    Projects = {p1}
    Commands = {c1, c2}
    CommandTypes = {"create", "send", "cancel"}
    EventKinds = {"approval"}
    OtherSteps = {"delete", "close"}
    MaxEvents = 1
    MaxFaults = 2
    MaxCrashes = 2
    MaxRenames = 0
SPECIFICATION FairSpec
INVARIANTS AtMostOneDispatch ReceiptIsDurable
PROPERTIES SettledIsFinal TurnsAreServed StoppedTurnSettles
CHECK_DEADLOCK FALSE
