SPECIFICATION Spec
CONSTANTS
    r1 = r1
    r2 = r2
    u1 = u1
    u2 = u2
    p1 = p1
    p2 = p2
    Requests = {r1, r2}
    Users = {u1, u2}
    Passwords = {p1, p2}
    Bootstrap <- MCTwoBootstraps
    TTL = 2
    MaxSessions = 2
    MaxTokens = 3
    MaxChanges = 2
    MaxNow = 2
SYMMETRY Symmetry
INVARIANTS
    SessionsCurrent
PROPERTIES
    CurrentPasswordProved
    ImplementsContract
