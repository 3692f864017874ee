SPECIFICATION Spec
CONSTANTS
    h1 = h1  h2 = h2  r1 = r1  r2 = r2
    Host = {h1}
    Role = {r1, r2}
    RolesOf <- Everywhere
    Initial = {r1}
    Habit = {}
    MaxCommits = 2
INVARIANTS
    NewRoleIsReported
