\* Two regenerations of one account at once.
SPECIFICATION Spec
CONSTANTS
    Procs = {p1, p2}
    Users = {u1}
    Codes = {c1, c2, c3, c4}
    SetSize = 2
    NoCode = NoCode
    NoUser = NoUser
    NoRow = NoRow
    Untouched = Untouched
SYMMETRY Symmetry
INVARIANTS
    WholeSetReplaced
