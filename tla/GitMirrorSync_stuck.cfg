SPECIFICATION FairSpec
CONSTANTS
    Repo = {r1}
    MaxCommit = 2
    MaxStrays = 1
    MaxBad = 1
    HalfMade = TRUE
PROPERTIES
    CatchesUp
