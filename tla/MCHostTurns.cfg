CONSTANTS
    s1 = s1
    s2 = s2
    p1 = p1
    c1 = c1
    c2 = c2
    c3 = c3
    None = None
    Sessions = {s1, s2}
    Existing = {s1}
    Projects = {p1}
    Commands = {c1, c2, c3}
    CommandTypes = {"create", "send", "cancel"}
    EventKinds = {"text"}
    OtherSteps = {"switch", "delete"}
    MaxEvents = 1
    MaxFaults = 1
    MaxCrashes = 0
    MaxRenames = 0
SYMMETRY Symmetry
SPECIFICATION Spec
INVARIANTS TypeOK RunningHasOwner OutputIsKept OutputStaysInItsTurn NoTurnDuringSwitch
CHECK_DEADLOCK FALSE
