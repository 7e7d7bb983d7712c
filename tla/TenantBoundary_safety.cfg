\* Two requests, one tenant connection between them; two tokens of one user for
\* either of two shelters or none, a second long, in half seconds.
SPECIFICATION BoundarySpec
CONSTANTS
    Calls = {r1, r2}
    Slots = {s1}
    Owners = {o1, o2}
    Users = {u1}
    Nil = Nil
    Null = Null
    Empty = Empty
    NoConn = NoConn
    NoShelter = NoShelter
    Malformed = Malformed
    ErrInvalidToken = ErrInvalidToken
    NoToken = NoToken
    NoClaims = NoClaims
    SecondTicks = 2
    Lifetime = 1
    MaxClock = 3
    MaxTokens = 2
SYMMETRY Symmetry
INVARIANTS
    TenantIsolation
PROPERTIES
    TokensExpire
