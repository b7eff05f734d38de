SPECIFICATION Spec
CONSTANTS
    MaxTasks = 2
    Slots = 2
    MaxRemembered = 3
    s1 = s1
    s2 = s2
    Starters = {s1, s2}
    Names = {"film", "film1"}
    Paths = {"film", "film (1)"}
    Candidates <- MCCandidates
    DeclaredSizes <- Undeclared
    ContentLengths = {0}
    MaxBytes = 0
SYMMETRY StarterSymmetry
INVARIANTS
    SlotAccounting
    DrainedMeansIdle
PROPERTIES
    NoDownloadReplaced
    NothingPublishedAfterCancelAll
    ImplementsContract
