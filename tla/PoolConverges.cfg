SPECIFICATION FairSpec
CONSTANTS
    Namespace = {n1, n2}
    Reservation = {}
    NoNamespace = NoNamespace
    NoKey = NoKey
    Durations = {}
    RestoredFinalizer = FALSE
    CapiUsers = {}
    MaxUid = 1
    PromptCheckOuts = TRUE
    MaxTime = 1
    MaxFaults = 0
    MaxEnvEvents = 0
    NoLimit = NoLimit
    Sizes = {0, 2}
    SizeLimit = NoLimit
    ClowderPool = FALSE
    SyncedReconciles = TRUE
PROPERTIES ErrorNamespacesDeleted PoolSizeReached
CHECK_DEADLOCK FALSE
