SPECIFICATION StoreSpec
CONSTANTS
    s1 = s1
    s2 = s2
    r1 = r1
    r2 = r2
    k1 = k1
    d1 = d1
    d2 = d2
    d3 = d3
    None = None
    Servers = {s1}
    Requests = {r1, r2}
    Bases = {k1}
    Documents = {d1, d2, d3}
    BaseOf <- InOneBase
    ShaOf <- TwoAlike
    Dimensions = {1, 2}
    Faults = {"error"}
    MaxCrashes = 1
    MaxRetries = 1
CHECK_DEADLOCK FALSE
SYMMETRY SlotsAndCopies
INVARIANTS TypeOK IndexSound SourceRetained OrphansAccounted SourcesWhole TemporariesAccounted
PROPERTIES KeepsLifecycle AbandonedOnlyByError
