SPECIFICATION Spec
CONSTANTS
    Namespace = {n1}
    Reservation = {r1}
    NoNamespace = NoNamespace
    NoKey = NoKey
    Durations <- WithBadValues
    RestoredFinalizer = TRUE
    CapiUsers = {n1}
    Excess = {n1}
    PopulateMayFail = FALSE
    ClowderPool = TRUE
    SecretsMayFail = TRUE
    MaxUid = 1
    MaxTime = 1
    MaxVersion = 3
    MaxFaults = 1
PROPERTIES ImplementsCheckOuts NeverBackToPool DrainCompleted
CHECK_DEADLOCK FALSE
