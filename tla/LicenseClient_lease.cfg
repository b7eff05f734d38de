SPECIFICATION FairClientSpec
CONSTANTS
    l1 = l1
    l2 = l2
    c1 = c1
    c2 = c2
    i1 = i1
    i2 = i2
    k1 = k1
    k2 = k2
    Licenses = {l1}
    Codes = {c1, c2}
    Installations = {i1}
    Keys = {k1}
    KeyFor <- MCKeyFor
    Lease = 2
    Limits = {1}
    MaxTokens = 2
    MaxNow = 2
    MaxFaults = 1
INVARIANTS
    StaleForOneLease
    CredentialWasWritten
PROPERTIES
    RevocationNoticed
    ProlongationNoticed
