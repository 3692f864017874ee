SPECIFICATION FairSpec
CONSTANTS
    Repo = {r1, r2}
    MaxCommit = 2
    MaxStrays = 1
    MaxBad = 1
    HalfMade = FALSE
INVARIANTS
    TypeOK
PROPERTIES
    FollowsGitHub
    QuietMeansCopied
    DivergedIsReported
    CatchesUp
