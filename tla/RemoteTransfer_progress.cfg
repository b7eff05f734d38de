SPECIFICATION FairSpec
CONSTANTS
    MaxTasks = 2
    Slots = 1
    MaxRemembered = 1
    s1 = s1
    s2 = s2
    Starters = {s1}
    Names = {"film"}
    Paths = {"film"}
    Candidates <- MCCandidates
    DeclaredSizes <- MCDeclaredSizes
    ContentLengths <- MCContentLengths
    MaxBytes = 2
INVARIANTS
    PublishedWhole
    ActiveIsVisible
PROPERTIES
    EveryDownloadSettles
    ShutdownCompletes
