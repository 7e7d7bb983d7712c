\* Two calls of any wrapper that need the same connection: every call after the
\* first runs on a connection another has used.
SPECIFICATION FairSpec
CONSTANTS
    Calls = {r1, r2}
    Slots = {s1}
    Owners = {o1}
    Nil = Nil
    Null = Null
    Empty = Empty
    NoConn = NoConn
INVARIANTS
    ScopeIsolation
    IdleIsClean
    AllOrNothing
PROPERTIES
    EveryCallEnds
