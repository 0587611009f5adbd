SPECIFICATION FairSpec
CONSTANTS
    root = root  left = left  right = right
    t1 = t1  t2 = t2  t3 = t3
    Tokens = {root, left, right}
    NoToken = NoToken
    Parent <- MCParent
    Chain <- MCChain
    Tasks = {t1, t2, t3}
    TokenOf <- Siblings
    Cancellers = {c1}
    Held = {root, left}
    MaxWaiters = 2
INVARIANTS RegistrationCoversChain NoStaleWaiters
PROPERTIES DeliveredUnlessOthersRegister
CHECK_DEADLOCK FALSE
