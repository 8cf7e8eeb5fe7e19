SPECIFICATION ViewSpec
CONSTANTS
    ConfiguredSteps <- Configured
    MaxBatch = 2
    MaxFaults = 2
CHECK_DEADLOCK FALSE
INVARIANTS TypeOK ShownWhole StreamBacked StreamInOrder StepsInBudget SettledWhenReturned
PROPERTIES Ends
