CONSTANTS
    None = None
    w1 = w1
    w2 = w2
    chat1 = chat1
    AppWindows = {w1, w2}
    Main = w1
    Chats = {chat1}
    MaxHappenings = 3
SPECIFICATION QuitFairSpec
INVARIANTS QuitConsistent ExitIsSafe ReopensWhatWasCut
PROPERTY QuitSettles
CHECK_DEADLOCK FALSE
