CONSTANTS
    s1 = s1
    p1 = p1
    c1 = c1
    c2 = c2
    c3 = c3
    None = None
    Sessions = {s1}
    Existing = {s1}
    Projects = {p1}
    Commands = {c1, c2, c3}
    CommandTypes = {"send", "approve"}
    EventKinds = {"approval"}
    OtherSteps = {}
    MaxEvents = 1
    MaxFaults = 0
    MaxCrashes = 0
    MaxRenames = 0
SYMMETRY Symmetry
SPECIFICATION Spec
PROPERTY DecisionIsFinal
CHECK_DEADLOCK FALSE
