SPECIFICATION FairSpec
CONSTANTS
    Namespace = {n1}
    Reservation = {r1}
    NoNamespace = NoNamespace
    NoKey = NoKey
    Durations = {1, 2}
    RestoredFinalizer = FALSE
    CapiUsers = {}
    Excess = {}
    PopulateMayFail = FALSE
    ClowderPool = FALSE
    SecretsMayFail = FALSE
    MaxUid = 1
    MaxTime = 2
    MaxVersion = 0
    MaxFaults = 1
PROPERTIES ExpiredReclaimed ReadyServed
CHECK_DEADLOCK FALSE
