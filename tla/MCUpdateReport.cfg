CONSTANTS
    v1 = v1
    v2 = v2
    v3 = v3
    Versions = {v1, v2, v3}
    Working = {v1, v2}
    First = v1
    None = None
    Torn = Torn
    Failing = {"fetch", "install", "cut"}
    MaxFaults = 3
    MaxReleases = 4
SPECIFICATION ReportSpec
INVARIANT CacheIsWhatItSays
INVARIANT ReplacementHasRollback
INVARIANT ReportIsTrue
