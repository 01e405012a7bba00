CONSTANTS
    s1 = s1
    p1 = p1
    c1 = c1
    None = None
    Sessions = {s1}
    Existing = {s1}
    Projects = {p1}
    Commands = {c1}
    CommandTypes = {"send"}
    EventKinds = {"approval"}
    OtherSteps = {}
    MaxEvents = 1
    MaxFaults = 1
    MaxCrashes = 0
    MaxRenames = 0
SYMMETRY Symmetry
SPECIFICATION Spec
INVARIANT SettledMeansStopped
CHECK_DEADLOCK FALSE
