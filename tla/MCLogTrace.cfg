CONSTANTS
    MaxSize = 3
    Archives = 3
    Lengths = {1, 2}
    Traces = {0, 2}
    MaxRecords = 9
    MaxFaults = 1
    MaxCrashes = 1
SPECIFICATION MCSpec
INVARIANT PresentUntilEviction
