SPECIFICATION SearchFairSpec
CONSTANTS
    s1 = s1
    s2 = s2
    d1 = d1
    d2 = d2
    None = None
    Workers = {s1, s2}
    Documents = {d1, d2}
    Pages <- TwoDocuments
    Lengths = {1, 2}
    BatchSize = 2
    MaxTakes = 3
CHECK_DEADLOCK FALSE
INVARIANTS TypeOK MismatchOnlyAtFirst
PROPERTIES ImplementsIndex WorkersReturn
