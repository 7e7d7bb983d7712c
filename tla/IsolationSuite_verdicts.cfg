\* Every world that differs from a correct one in one table, one declaration, one
\* role or one rollback.
SPECIFICATION Spec
CONSTANTS
    pets = pets
    applications = applications
    events = events
    users = users
    stray = stray
    Goose = goose
    Absent = Absent
    Names <- TheNames
    HeadVersion = 3
    Order <- TheOrder
    CaseKind <- TheKinds
    Parents <- TheParents
    RoleOrder <- TheRoles
    Worlds <- TheWorlds
    Starts <- TheStarts
INVARIANTS
    GreenMeansIsolated
    NoFalseAlarm
    WalkMeansGuarded
    NothingLeaks
PROPERTIES
    ProbesLeaveNothing
CHECK_DEADLOCK FALSE
