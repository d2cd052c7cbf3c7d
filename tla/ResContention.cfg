SPECIFICATION Spec
CONSTANTS
    Namespace = {n1}
    Reservation = {r1, r2}
    NoNamespace = NoNamespace
    NoKey = NoKey
    Durations = {1}
    RestoredFinalizer = FALSE
    CapiUsers = {}
    Excess = {}
    PopulateMayFail = FALSE
    ClowderPool = FALSE
    SecretsMayFail = TRUE
    MaxUid = 2
    MaxTime = 1
    MaxVersion = 0
    MaxFaults = 1
SYMMETRY Symmetry
INVARIANTS TypeOK ExclusiveAssignment AssignmentInv FinalizerHasNamespace
PROPERTIES AssignmentStable ImplementsCheckout
CHECK_DEADLOCK FALSE
