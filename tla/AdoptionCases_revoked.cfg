\* An assignment beside a revocation.
SPECIFICATION Spec
CONSTANTS
    Procs = {p1, p2}
    Shelters = {s1}
    Users = {u1}
    Cases = {c1}
    Events = {}
    Notes = {}
    Submissions = {}
    Statuses = {st1}
    Nobody = Nobody
    NoShelter = NoShelter
    NoRow = NoRow
    Untouched = Untouched
PROPERTIES
    AssignedToActiveMember
