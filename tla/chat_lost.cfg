SPECIFICATION TitleSpec
CONSTANTS
    c1 = c1
    c2 = c2
    c3 = c3
    Chats = {c1, c2}
    Faults = {}
    MaxCrashes = 0
SYMMETRY Alike
CHECK_DEADLOCK FALSE
INVARIANTS QuestionSaved
