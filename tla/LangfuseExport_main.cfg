SPECIFICATION FairSpec
CONSTANTS
    c = c  a = a  known = known  other = other
    Codex = {c}
    Antigravity = {a}
    Model = {known, other}
    Known = {known}
    NewPrice = {other}
    Counter = {"output", "thinking"}
    ReportKey = {"output"}
    Amount <- Amounts
    Use <- Uses
    MaxLines <- Lines
    Batch = 2
    MaxBad = 1
    MaxAll = 1
INVARIANTS
    TypeOK
    SentIsHeld
    SkippedIsSent
    IdsAreStable
    ReadingIsExact
PROPERTIES
    TwiceHasACause
    Delivered
