CONSTANTS
    v1 = v1
    v2 = v2
    v3 = v3
    Versions = {v1, v2, v3}
    Working = {v1, v2}
    First = v1
    None = None
    Torn = Torn
    Failing = {"store"}
    MaxFaults = 1
    MaxReleases = 2
SPECIFICATION Spec
INVARIANT ReplacementHasRollback
