\* Two handlers, two shelters, one user who may belong to both, one case with all
\* that can hang off it.
SPECIFICATION Spec
CONSTANTS
    Procs = {p1, p2}
    Shelters = {s1, s2}
    Users = {u1}
    Cases = {c1}
    Events = {e1}
    Notes = {n1}
    Submissions = {a1}
    Statuses = {st1, st2}
    Nobody = Nobody
    NoShelter = NoShelter
    NoRow = NoRow
    Untouched = Untouched
SYMMETRY Symmetry
INVARIANTS
    AssigneeWasActive
    NothingOutlivesItsCase
PROPERTIES
    TimelineIsKept
