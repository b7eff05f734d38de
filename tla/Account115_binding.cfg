SPECIFICATION FairSpec
CONSTANTS
    c1 = c1
    c2 = c2
    a1 = a1
    a2 = a2
    u1 = u1
    u2 = u2
    Calls = {c1, c2}
    Apps = {a1, a2}
    Users = {u1, u2}
INVARIANTS
    UserMatchesTokens
PROPERTIES
    UnbindingHolds
    EveryCallEnds
