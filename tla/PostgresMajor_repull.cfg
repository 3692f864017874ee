SPECIFICATION Spec
CONSTANTS
    s1 = s1  s2 = s2  old = old  new = new  anon = anon  schema = schema
    Operator = {o1}
    Service = {s1, s2}
    App = {web}
    StopList = {web}
    Major <- BumpMajors
    Loc = {old, new}
    Anonymous = {}
    Row = {r1}
    Schema = schema
    Checkout <- BumpCheckouts
    Installed <- Before
    Leftover <- NewestBump
    Main <- Bump
    Crowded = {s2}
    Incident = {"abort", "db_down", "container_removed"}
    MaxIncidents = 1
INVARIANTS
    WayBackExists
    ServedIsCurrent
