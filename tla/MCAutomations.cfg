CONSTANTS
    None = None
    w1 = w1
    w2 = w2
    auto1 = auto1
    i1 = i1
    AutoWindows = {w1, w2}
    Autos = {auto1}
    Items = {i1}
    Grace = 0
    MaxTime = 2
    MaxRuns = 2
    MaxHappenings = 1
    MaxStarts = 1
SPECIFICATION AutomationsSpec
INVARIANTS RunsOnce NothingForgotten
SYMMETRY AutomationsSymmetry
CHECK_DEADLOCK FALSE
