SPECIFICATION TitleSpec
CONSTANTS
    c1 = c1
    c2 = c2
    c3 = c3
    Chats = {c1, c2, c3}
    Faults = {"error", "lost"}
    MaxCrashes = 1
SYMMETRY Alike
CHECK_DEADLOCK FALSE
INVARIANTS TypeOK TranscriptPaired TurnsKept
PROPERTIES OwnerTitleKept
