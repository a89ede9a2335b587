CONSTANTS
    Requests = {r1, r2}
    NoRequest = NoRequest
    Queues = {q1, q2}
    NoQueue = NoQueue
    MaxStops = 1
SPECIFICATION MCFairSpec
INVARIANT TypeOK
INVARIANT ExclusiveSubmission
INVARIANT RestoreFollowsPage
INVARIANT InheritedSettingsAreReported
INVARIANT AnswersAreTrue
INVARIANT LandsAtMostOnce
PROPERTY EveryRequestEnds
PROPERTY ImplementsPromise
