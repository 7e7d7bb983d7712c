\* Three handlers, two accounts, two codes to a set, two sets.
SPECIFICATION Spec
CONSTANTS
    Procs = {p1, p2, p3}
    Users = {u1, u2}
    Codes = {c1, c2, c3, c4}
    SetSize = 2
    NoCode = NoCode
    NoUser = NoUser
    NoRow = NoRow
    Untouched = Untouched
SYMMETRY Symmetry
INVARIANTS
    OldCodesDie
    SetNeverShort
    SingleUse
