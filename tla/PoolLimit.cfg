SPECIFICATION Spec
CONSTANTS
    Namespace = {n1, n2, n3}
    Reservation = {}
    NoNamespace = NoNamespace
    NoKey = NoKey
    Durations = {}
    RestoredFinalizer = FALSE
    CapiUsers = {}
    MaxUid = 1
    PromptCheckOuts = FALSE
    MaxTime = 1
    MaxFaults = 1
    MaxEnvEvents = 0
    NoLimit = NoLimit
    Sizes = {0, 1}
    SizeLimit = 1
    ClowderPool = FALSE
    SyncedReconciles = TRUE
SYMMETRY Symmetry
INVARIANTS ExcessOnlyByFailures ReadyIsProvisioned
CHECK_DEADLOCK FALSE
