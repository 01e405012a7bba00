CONSTANTS
    s1 = s1
    p1 = p1
    c1 = c1
    None = None
    Sessions = {s1}
    Existing = {s1}
    Projects = {p1}
    Commands = {c1}
    CommandTypes = {"send"}
    EventKinds = {}
    OtherSteps = {"close"}
    MaxEvents = 0
    MaxFaults = 0
    MaxCrashes = 0
    MaxRenames = 0
SYMMETRY Symmetry
SPECIFICATION Spec
PROPERTY NoPromptOnceClosing
CHECK_DEADLOCK FALSE
