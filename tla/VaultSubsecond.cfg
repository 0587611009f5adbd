SPECIFICATION AccountsSpec
CONSTANTS
    Foci = {"vault"}
    account = account
    tenant = tenant
    model = model
    FailureThreshold = 2
    RecoverySuccesses = 2
    RecoveryWindow = 1
    ProbeLease = 2
    MaxProbes = 2
    MaxTime = 4
    MaxCircuitGeneration = 3
    MaxLeaseId = 5
    r1 = r1
    r2 = r2
    Scopes <- MCScopes
    ReservationIds = {r1, r2}
    BudgetRequests <- MCBudgetRequests
    MaxUnits = 4
    MaxReservations = 2
    PolicySets <- MCPolicySets
    MaxGeneration = 1
    Time = {0, 1, 2}
    LimitKeys <- MCKeys
    RateCapacity <- MCCapacity
    RateWindow <- MCWindow
    ConcurrencyLimit <- MCLimit
    LeaseDuration <- MCDuration
    RateRequests <- MCRateRequests
    MaxInstant = 5
    MaxIdentity = 5
    Plans <- MCPlans
    Instants = {0, 1, 2}
    Registry <- MCRegistry
    MaxClaimLease = 2
    MaxMutations = 6
    MaxMoves = 2
    Absent = Absent
    References <- MCReferences
    Windows = {1, 2}
    MaxVaultTime = 2
    MaxSetbacks = 1
    MaxVaultLog = 3
    MaxRotations = 2
    MaxRotationLog = 5
INVARIANTS MutationsReplay
CHECK_DEADLOCK FALSE
