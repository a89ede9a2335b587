SPECIFICATION Spec
CONSTANTS
    Certs = {c1, c2, c3, c4}
    None = None
    Torn = Torn
    Failing = {"command", "launchd", "untrust", "cut"}
    MaxFaults = 1
SYMMETRY Alike
INVARIANT TrustIsAccounted
INVARIANT SuccessIsReal
INVARIANT FailureHasCause
INVARIANT UninstallLeavesNothing
