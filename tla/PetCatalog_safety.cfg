\* Two handlers of two shelters, a pet and two files beside one line of the trail
\* and one health record; a transaction writes one row, or photos.
SPECIFICATION Spec
CONSTANTS
    x1 = x1
    x2 = x2
    a = a
    b = b
    p1 = p1
    m1 = m1
    m2 = m2
    h1 = h1
    r1 = r1
    Procs = {x1, x2}
    Shelters = {a, b}
    Pets = {p1}
    Media = {m1, m2}
    Trail = {h1}
    Records = {r1}
    MaxDirty = 1
    NoShelter = NoShelter
    NoRow = NoRow
    Untouched = Untouched
SYMMETRY Symmetry
INVARIANTS
    NothingIsBorrowed
    OneCover
PROPERTIES
    TrailStays
    OnlyItsShelterPublishes
