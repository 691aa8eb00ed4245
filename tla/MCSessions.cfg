CONSTANTS
    Requests = {q1, q2}
    Logins <- MCLogins
    Rand = {1}
    Lifetime = 1
    MaxTime = 2
    MaxTokens = 2
    Collection = "col"
    Profiles <- MCProfiles
    AccessLists <- MCAccessLists
SPECIFICATION Spec
SYMMETRY RequestSymmetry
INVARIANT
    SessionsTypeOK
PROPERTIES
    AdmitsOpenSessions
    WithinEveryLimit
    RevokedByOwnerOrAdmin
