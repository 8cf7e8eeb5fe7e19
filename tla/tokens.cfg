SPECIFICATION Spec
CONSTANTS
    r1 = r1
    r2 = r2
    r3 = r3
    r4 = r4
    n1 = n1
    n2 = n2
    Names = {n1, n2}
    Requests = {r1, r2, r3, r4}
    Faults = {"error", "lost"}
SYMMETRY Alike
CHECK_DEADLOCK FALSE
INVARIANTS TypeOK NamesUnique WritesKept
