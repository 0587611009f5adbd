SPECIFICATION RoutingSpec
CONSTANTS
    account = account
    Scopes <- MCKeys
    ReservationIds = {r1, r2}
    r1 = r1
    r2 = r2
    BudgetRequests <- MCBudgetRequests
    MaxUnits = 4
    MaxReservations = 2
    LimitKeys <- MCKeys
    RateCapacity <- Two
    RateWindow <- Two
    ConcurrencyLimit <- Two
    LeaseDuration <- Three
    RateRequests <- MCRateRequests
    MaxInstant = 4
    MaxIdentity = 6
    Handles = {h1, h2}
    h1 = h1
    h2 = h2
    RoutingRequests <- MCRoutingRequests
    Policies <- MCPolicies
    Utc = {0, 1, 2}
    Requests = {q1, q2}
    long = q1
    q1 = q1
    q2 = q2
    Candidates = {1, 2}
    Worlds <- MCWorlds
    PermitsOf <- MCPermits
    MaxAttempts = 3
    Slots <- MCSlots
    Failures = {"Transport", "Authentication"}
    MaxGeneration = 2
INVARIANTS BothStoresAgree AttemptsAreSettled RetriesAreSafe
PROPERTIES UsesTheController 
SYMMETRY Symmetry
CHECK_DEADLOCK FALSE
