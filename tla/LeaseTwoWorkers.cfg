\* One assignment contended for by two workers.
CONSTANTS
    Assignments = {a1}
    Workers = {w1, w2}
    Tokens = {}
    NoWorker = NoWorker
    NoToken = NoToken
    LeaseSeconds = 1
    MaxLeaseSeconds = 2
    OfflineAfter = 1
    MaxAttempts = 2
    MaxDispatchAttempt = 3
    MaxConcurrency = 1
    ProviderLimit = 1
SYMMETRY WorkerSymmetry
INIT Init
NEXT Next
INVARIANTS
    TypeOK
    LeaseOwnership
    OfflineHoldsNoLease
    OneOwnerPerAttempt
    StartsBounded
PROPERTY
    ImplementsStageAttempt
