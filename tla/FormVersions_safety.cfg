\* Two handlers, two shelters, each with a template; two versions, two numbers.
SPECIFICATION Spec
CONSTANTS
    Procs = {p1, p2}
    Shelters = {s1, s2}
    Templates = {t1, t2}
    Versions = {v1, v2}
    Submissions = {a1}
    Definitions = {d1, d2}
    MaxNumber = 2
    NoShelter = NoShelter
    NoRow = NoRow
    Untouched = Untouched
SYMMETRY Symmetry
INVARIANTS
    PublishedAnswersStayReadable
    OneShelterThroughout
PROPERTIES
    LatestOnlyAdvances
