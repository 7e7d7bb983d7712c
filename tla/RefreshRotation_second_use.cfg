\* Two handlers present the same live token at once.
SPECIFICATION Spec
CONSTANTS
    Procs = {p1, p2}
    u1 = u1
    Users = {u1}
    t1 = t1
    t2 = t2
    t3 = t3
    Tokens <- TheTokens
    Families = {f1}
    LockKey <- DistinctKeys
    Lifetime = 1
    MaxClock = 1
    NoToken = NoToken
    NoProc = NoProc
    NoRow = NoRow
INVARIANTS
    SecondUseKillsFamily
