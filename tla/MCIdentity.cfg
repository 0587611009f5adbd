SPECIFICATION IdentitySpec
CONSTANTS
    Users = {u1, u2, u3}
    Teams = {team}
    Principals = {p1, p2}
    Secrets = {u1, u2, u3}
    Seconds = {0, 1, 2}
    MaxKeyLife = 2
    MaxOverlap = 1
    MaxRetired = 2
    Never = Never
    None = None
    MaxMemberships = 3
    MaxTeams = 1
    MaxAssignments = 1
    MaxReauthAge = 2
    MaxTransferLife = 2
    MaxHistory = 6
    MaxInvitationLife = 2
    MaxLineage <- MCMaxLineage
    Callers = {c1, c2}
    MaxAttempts <- MCMaxAttempts
    NoAttempt = NoAttempt
INVARIANT HistoriesStaySound
PROPERTIES StoreFollowsTheDomain SecretsStayRetired
SYMMETRY Symmetric
CHECK_DEADLOCK FALSE
