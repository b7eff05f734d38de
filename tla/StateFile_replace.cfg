SPECIFICATION Spec
CONSTANTS
    v1 = v1
    v2 = v2
    v3 = v3
    None = None
    Values = {v1, v2, v3}
    Recovers = TRUE
    MaxFaults = 2
PROPERTIES
    SavesAtomically
