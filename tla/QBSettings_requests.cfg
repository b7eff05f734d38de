SPECIFICATION SettingsSpec
CONSTANTS
    r1 = r1
    r2 = r2
    e1 = e1
    e2 = e2
    v1 = v1
    None = None
    Requests = {r1, r2}
    Endpoints = {e1, e2}
    Versions = {v1}
    Values <- Configs
    Recovers = FALSE
    MaxFaults = 2
SYMMETRY Symmetry
INVARIANTS
    SecretsStayHome
    SavedWasTested
    SettingsKept
    DeletedForgotten
