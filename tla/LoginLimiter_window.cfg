SPECIFICATION Spec
CONSTANTS
    r1 = r1
    r2 = r2
    r3 = r3
    a1 = a1
    a2 = a2
    a3 = a3
    Requests = {r1, r2, r3}
    Remotes = {a1, a2, a3}
    MaxFailures = 2
    MaxEntries = 2
    Window = 2
    MaxNow = 4
SYMMETRY Symmetry
INVARIANTS
    OvershootBounded
PROPERTIES
    LockedForWindow
