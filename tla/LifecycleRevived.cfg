SPECIFICATION LifecyclesSpec
CONSTANTS
    Foci = {"modules"}
    base = base  mid = mid  leaf = leaf
    x = x  y = y
    Modules = {base, mid, leaf}
    Capabilities = {x, y}
    Descriptors <- ChainOnly
    StaticOk = {base, mid, leaf}
    BadVersion = {}
    Before <- MCBefore
    Leaves = {l1, l2, l3}
    Times = {0, 1, 2}
    MaxIdle = 2
    MaxAbsolute = 2
    MaxRotated = 2
    admin = admin
    Owner = owner
    Actors <- MCActors
    Requests = {r1, r2}
    Lifetimes = {2}
    MaxRequests = 4
    Clocks = {0, 1}
    NoFamily = NoFamily
    NoPlan = NoPlan
INVARIANT WorkingIsUncancelled
