SPECIFICATION StoreSpec
CONSTANTS
    s1 = s1
    s2 = s2
    r1 = r1
    r2 = r2
    k1 = k1
    d1 = d1
    d2 = d2
    d3 = d3
    None = None
    Servers = {s1, s2}
    Requests = {r1}
    Bases = {k1}
    Documents = {d1, d2}
    BaseOf <- InOneBase
    ShaOf <- AllDistinct
    Dimensions = {1, 2}
    Faults = {"error", "lost", "unlink"}
    MaxCrashes = 0
    MaxRetries = 1
CHECK_DEADLOCK FALSE
INVARIANTS IndexSound
