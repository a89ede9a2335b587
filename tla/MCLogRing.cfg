CONSTANTS
    MaxSize = 3
    Archives = 3
    Lengths = {1, 2, 4}
    Traces = {0, 2}
    MaxRecords = 6
    MaxFaults = 1
    MaxCrashes = 2
SPECIFICATION MCSpec
INVARIANT RecordsInOrder
INVARIANT RecordsAreWhole
INVARIANT BoundHolds
PROPERTY EvictsOldestOnly
