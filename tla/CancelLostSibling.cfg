SPECIFICATION FairSpec
CONSTANTS
    root = root  left = left  right = right
    t1 = t1  t2 = t2  t3 = t3
    Tokens = {root, left, right}
    NoToken = NoToken
    Parent <- MCParent
    Chain <- MCChain
    Tasks = {t1, t2}
    TokenOf <- Siblings
    Cancellers = {c1}
    Held = {root}
    MaxWaiters = 2
PROPERTIES CancellationIsDelivered
CHECK_DEADLOCK FALSE
