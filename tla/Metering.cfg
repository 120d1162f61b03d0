\* Two spenders under one cap, a day or a month change, events of two seconds;
\* two callers signing in to one account.
CONSTANTS
    Spenders = {p1, p2}
    Estimates = {1, 2}
    DefaultCap <- SmallCap
    CapValues <- OtherCaps
    MaxDays = 1
    NoCap = NoCap
    NoCheck = NoCheck
    Reports = {0, 3}
    EventIds = {1, 2}
    Seconds = {1, 2}
    Callers = {c1, c2}
    Addresses = {k1}
    MaxRequests = 2
    WindowTicks = 2
    MaxFailedAttempts = 2
    LockoutTicks = 3
    FailureWindowTicks = 3
    MaxWait = 1
    MaxTime = 3
    NoBucket = NoBucket
    Never = Never
    NoAccount = NoAccount
    NoAddress = NoAddress
SPECIFICATION Spec
CHECK_DEADLOCK FALSE
INVARIANTS
    TypeOK
    OpenIsExplained
    NewestEventDecides
    RequestBudget
    GuessBudget
PROPERTIES
    SpendFitsTheCap
    TurnEnds
