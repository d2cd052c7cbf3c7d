SPECIFICATION Spec
CONSTANTS
    Namespace = {n1, n2, n3}
    Reservation = {}
    NoNamespace = NoNamespace
    NoKey = NoKey
    Durations = {}
    RestoredFinalizer = FALSE
    CapiUsers = {}
    MaxUid = 1
    PromptCheckOuts = TRUE
    MaxTime = 1
    MaxFaults = 0
    MaxEnvEvents = 1
    NoLimit = NoLimit
    Sizes = {2}
    SizeLimit = 2
    ClowderPool = TRUE
    SyncedReconciles = FALSE
INVARIANTS SizeLimitRespected
CHECK_DEADLOCK FALSE
