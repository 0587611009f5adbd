SPECIFICATION Spec
CONSTANTS
    h1 = h1
    h2 = h2
    j1 = j1
    j2 = j2
    NoOwner = NoOwner
    Handles <- MCHandles
    Jobs <- MCJobs
    MaxWrites = 2
    LateBegin = TRUE
SYMMETRY Callers
INVARIANT ReceiptIsDurable
CHECK_DEADLOCK FALSE
