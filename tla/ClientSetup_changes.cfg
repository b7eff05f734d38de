SPECIFICATION Spec
CONSTANTS
    r1 = r1
    r2 = r2
    e1 = e1
    e2 = e2
    d1 = d1
    d2 = d2
    None = None
    Requests = {r1, r2}
    Endpoints = {e1, e2}
    Dirs = {d1, d2}
    Default = e1
    Root = d1
SYMMETRY Symmetry
INVARIANTS
    CredentialsStayHome
    KeyFits
    DirectoryAsSaved
PROPERTIES
    OwnPartOnly
