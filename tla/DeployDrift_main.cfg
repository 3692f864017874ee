SPECIFICATION Spec
CONSTANTS
    h1 = h1  h2 = h2  r1 = r1  r2 = r2
    Host = {h1, h2}
    Role = {r1, r2}
    RolesOf <- Apart
    Initial = {r1, r2}
    Habit = {"fail"}
    MaxCommits = 2
INVARIANTS
    TypeOK
    MissedChangeIsReported
    NothingLeftOut
