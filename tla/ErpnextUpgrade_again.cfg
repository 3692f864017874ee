SPECIFICATION Spec
CONSTANTS
    Version <- Releases
    Installed <- Oldest
    Entry <- Ledger
    Slots = 2
    MayRemove = FALSE
    MaxCuts = 1
INVARIANTS
    RunAgainCompletes
