SPECIFICATION Spec
CONSTANTS
    Version <- Releases
    Installed <- Oldest
    Entry <- Ledger
    Slots = 2
    MayRemove = TRUE
    MaxCuts = 2
INVARIANTS
    TypeOK
    RollbackImageKept
    SkewNeedsACut
PROPERTIES
    BackedUpBeforeMigrated
    LossIsReported
