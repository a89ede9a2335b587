CONSTANTS
    v1 = v1
    v2 = v2
    v3 = v3
    Versions = {v1, v2, v3}
    Working = {v1, v2}
    First = v1
    None = None
    Torn = Torn
    Failing = {"fetch", "install", "store", "cut"}
    MaxFaults = 3
    MaxReleases = 4
SPECIFICATION FairSpec
INVARIANT PublishedQuarantine
INVARIANT ProvenBetweenRuns
PROPERTY OutcomesAreTrue
PROPERTY QuarantineHolds
PROPERTY FailedUpdatesEnd
PROPERTY FollowsTheManifest
