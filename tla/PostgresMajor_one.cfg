SPECIFICATION FairSpec
CONSTANTS
    s1 = s1  s2 = s2  old = old  new = new  anon = anon  schema = schema
    Operator = {o1}
    Service = {s1}
    App = {web, worker}
    StopList = {web, worker}
    Major <- Majors
    Loc = {old, new}
    Anonymous = {}
    Row = {r1, r2}
    Schema = schema
    Checkout <- TwoCheckouts
    Installed <- Before
    Leftover <- Newest
    Main <- After
    Crowded = {}
    Incident = {"abort", "db_down"}
    MaxIncidents = 2
INVARIANTS
    TypeOK
    UntrustedIsMarked
    ServedIsCurrent
    MarkerNamesWholeDump
    WayBackExists
    IInv
PROPERTIES
    OldLocationUntouched
    KeepsPromise
    ServiceReturns
