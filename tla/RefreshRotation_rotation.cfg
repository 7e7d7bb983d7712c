\* Two handlers over one session, whose cookie may claim another user; three ids:
\* a login and two rotations, or a rotation, a reuse and a rival of both.
SPECIFICATION OrderedSpec
CONSTANTS
    Procs = {p1, p2}
    u1 = u1
    Users = {u1, u2}
    t1 = t1
    t2 = t2
    t3 = t3
    Tokens <- TheTokens
    Families = {f1}
    LockKey <- DistinctKeys
    Lifetime = 1
    MaxClock = 1
    NoToken = NoToken
    NoProc = NoProc
    NoRow = NoRow
INVARIANTS
    SessionNeverStranded
    ChainIsLinear
    BurnedFamilyIsDead
PROPERTIES
    RowsOnlyAge
    ScopeIsolation
    ImplementsSessionFamily
    EveryTransactionEnds
    SpentTokenKillsFamily
