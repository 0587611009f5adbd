SPECIFICATION StorageSpec
CONSTANTS
    h1 = h1
    h2 = h2
    j1 = j1
    j2 = j2
    NoOwner = NoOwner
    Handles <- MCHandles
    Jobs <- MCJobs
    MaxWrites = 2
    LateBegin = FALSE
    c1 = c1
    c2 = c2
    k1 = k1
    k2 = k2
    Messages <- TwoMessages
    Clients <- MCClients
    NoClient = NoClient
    NoToken = NoToken
    Times <- MCTimes
    Limit = 2
    LeaseDuration = 1
    MaxAttempt = 2
    MaxClaims = 3
    kA = kA
    kB = kB
    dg = dg
    u1 = u1
    u2 = u2
    AssetTokens = {t1, t2}
    AssetKeys <- MCAssetKeys
    AssetDigests <- MCAssetDigests
    AssetReasons = {"abandoned"}
    AssetDescriptors <- MCAssetDescriptors
    AssetDigestOf <- MCAssetDigestOf
    MaxAssetFaults = 1
    MaxAssetCrashes = 1
    FileRequests <- MCFileRequests
    FileDigests = {"d1", "d2"}
    DeleteKeys = {"x1", "x2"}
    Uploads = {u1, u2}
    Deleters = {b1, b2}
    PageLimit = 1
    MaxReferences = 3
    MaxUploads = 3
    MaxDeletes = 2
    MaxKeyVersion = 2
SYMMETRY Symmetric
INVARIANTS AnswersAreTrue TransactionsHaveOneOwner DeliveredOnce
     CatalogIsTrue
PROPERTY NothingAfterDoubt
CHECK_DEADLOCK FALSE
