SPECIFICATION Spec
CONSTANTS
    l1 = l1
    l2 = l2
    c1 = c1
    c2 = c2
    i1 = i1
    i2 = i2
    k1 = k1
    k2 = k2
    Licenses = {l1, l2}
    Codes = {c1, c2}
    Installations = {i1, i2}
    Keys = {k1, k2}
    Lease = 2
    Limits = {1, 2}
    MaxTokens = 2
    MaxNow = 3
SYMMETRY Symmetry
INVARIANTS
    WithinLimit
    LeaseWithinExpiry
    OneKeyPerInstallation
    RestartSucceeds
PROPERTIES
    CodeSpentOnce
    ImplementsContract
