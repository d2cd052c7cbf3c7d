SPECIFICATION Spec
CONSTANTS
    NoLimit = NoLimit
    Limit = 4
    Sizes = {0, 2, 3, 6}
    MaxReserved = 4
INVARIANTS IdealTypeOK WithinLimit
PROPERTIES IncreaseSettles
