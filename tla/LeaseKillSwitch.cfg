\* The smallest instance of the kill switch: one worker, one assignment.
CONSTANTS
    Assignments = {a1}
    Workers = {w1}
    Tokens = {}
    NoWorker = NoWorker
    NoToken = NoToken
    LeaseSeconds = 1
    MaxLeaseSeconds = 2
    OfflineAfter = 1
    MaxAttempts = 2
    MaxDispatchAttempt = 1
    MaxConcurrency = 1
    ProviderLimit = 1
INIT Init
NEXT Next
INVARIANT RevokedNotSelectable
