CONSTANTS
    Requests = {r1, r2}
    NoRequest = NoRequest
    Queues = {q1}
    NoQueue = NoQueue
    MaxStops = 0
SPECIFICATION MCSpec
INVARIANT AcceptedPageIsRestored
