SPECIFICATION FairSpec
CONSTANTS
    h1 = h1  h2 = h2  r1 = r1  r2 = r2
    Host = {h1}
    Role = {r1}
    RolesOf <- Everywhere
    Initial = {r1}
    Habit = {"edit", "back", "branch"}
    MaxCommits = 2
INVARIANTS
    DirtyIsReported
    BehindIsReal
PROPERTIES
    LateIsReported
