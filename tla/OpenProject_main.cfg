SPECIFICATION FairSpec
CONSTANTS
    Standard = {"by category", "bugs"}
    Category = "by category"
    Own = "mine"
    Milestone = {"phase 2"}
    Item <- Items
    PageSize = 4
    GridPage = 2
    MaxGrids = 3
    MaxViews = 6
    MaxEdits = 1
    MaxBad = 2
INVARIANTS
    TypeOK
    OneEpic
PROPERTIES
    RunLaysOut
    OthersKept
    EditsKept
    Repaired
