SPECIFICATION FairSpec
CONSTANTS
    Namespace = {n1}
    Reservation = {}
    NoNamespace = NoNamespace
    NoKey = NoKey
    Durations = {}
    RestoredFinalizer = FALSE
    CapiUsers = {}
    MaxUid = 1
    PromptCheckOuts = FALSE
    MaxTime = 1
    MaxFaults = 0
    MaxEnvEvents = 1
    NoLimit = NoLimit
    Sizes = {0, 1}
    SizeLimit = NoLimit
    ClowderPool = TRUE
    SyncedReconciles = TRUE
INVARIANTS TypeOK
PROPERTIES FrontendBeforeReady ImplementsPool NeverBackToPool NamespacesGetReady
CHECK_DEADLOCK FALSE
