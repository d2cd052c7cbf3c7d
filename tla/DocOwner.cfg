SPECIFICATION Spec
CONSTANTS
    Namespace = {n1}
    Reservation = {r1, r2}
    NoNamespace = NoNamespace
    NoKey = NoKey
    Durations = {1}
    RestoredFinalizer = FALSE
    CapiUsers = {}
    Excess = {}
    PopulateMayFail = FALSE
    ClowderPool = FALSE
    SecretsMayFail = FALSE
    MaxUid = 2
    MaxTime = 1
    MaxVersion = 0
    MaxFaults = 0
INVARIANTS ActiveOwnsNamespace
CHECK_DEADLOCK FALSE
