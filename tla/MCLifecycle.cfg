CONSTANTS
    Requests = {r1, r2, r3}
    NoRequest = NoRequest
    MaxEnds = 2
SPECIFICATION FairSpec
INVARIANT TypeOK
PROPERTY GateServesAll
PROPERTY ShutdownEnds
PROPERTY SeveredOnlyByGrace
PROPERTY HalfServedEnds
