SPECIFICATION FairSpec
CONSTANTS
    Roles <- CreatorRoles
    Enrolled = TRUE
    Tokens = {t1, t2, t3, t4}
    Queries = {q1, q2}
    None = None
    MaxEvents = 1
INVARIANTS
    SessionKept
    HeldIsRefreshed
PROPERTIES
    QuerySettles
CHECK_DEADLOCK FALSE
