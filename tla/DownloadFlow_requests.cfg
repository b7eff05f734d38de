SPECIFICATION FairSpec
CONSTANTS
    r1 = r1
    d1 = d1
    d2 = d2
    u1 = u1
    u2 = u2
    f1 = f1
    None = None
    Requests = {r1}
    Devices = {d1, d2}
    Users = {u1, u2}
    Files = {f1}
    Torrents = {f1}
    Lifetime = 1
    MaxTickets = 1
    MaxNow = 1
    MaxTasks = 1
INVARIANTS
    OnlyOwnCopies
    TorrentsRecorded
PROPERTIES
    GrantsInForce
    EveryRequestEnds
