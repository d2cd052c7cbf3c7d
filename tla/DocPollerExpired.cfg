SPECIFICATION Spec
CONSTANTS
    Namespace = {n1}
    Reservation = {r1}
    NoNamespace = NoNamespace
    NoKey = NoKey
    Durations = {1}
    RestoredFinalizer = FALSE
    CapiUsers = {}
    Excess = {}
    PopulateMayFail = FALSE
    ClowderPool = FALSE
    SecretsMayFail = FALSE
    MaxUid = 2
    MaxTime = 2
    MaxVersion = 0
    MaxFaults = 0
PROPERTIES PollerDeletesOnlyExpired
CHECK_DEADLOCK FALSE
