CONSTANTS
    Callers = {c1, c2}
    Facets <- HealthFacets
    TTL = 3
    ProbeLimit = 1
    Horizon = 6
SPECIFICATION Spec
SYMMETRY Symmetry
INVARIANT PositiveIsRecent
INVARIANT NegativeHasCause
