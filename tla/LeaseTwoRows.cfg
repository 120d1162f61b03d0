\* Two assignments, one claim token and a worker with two slots that may renew
\* for ever.
CONSTANTS
    Assignments = {a1, a2}
    Workers = {w1}
    Tokens = {t1}
    NoWorker = NoWorker
    NoToken = NoToken
    LeaseSeconds = 1
    MaxLeaseSeconds = 2
    OfflineAfter = 1
    MaxAttempts = 2
    MaxDispatchAttempt = 1
    MaxConcurrency = 2
    ProviderLimit = 2
SPECIFICATION Spec
CONSTRAINT NobodyDrained
INVARIANTS
    TenureBounded
    TokenNamesOneRow
PROPERTIES
    TerminalIsFinal
    LiveLeaseKept
    TenureEnds
