\* An event whose delivery failed is overtaken by the next one.
CONSTANTS
    Replicas = {r1, r2}
    MaxEvents = 2
    BatchSize = 2
    MaxDeliveryAttempts = 2
    MaxFailures = 2
    MaxFaults = 0
    NoOwner = NoOwner
    Gone = Gone
    Workers = {w1, w2}
    Pinned = {w1}
    Assignments = {a1}
    MaxConcurrency = 1
    MaxAttempts = 2
    MaxClaimTries = 2
    MaxMishaps = 0
    Nobody = Nobody
    NoWork = NoWork
    NoBeat = NoBeat
    high = high
    low = low
    j1 = j1
    j2 = j2
    j3 = j3
    j4 = j4
    Workspaces = {high, low}
    JobsOf <- SmallJobs
    Tier <- SmallTiers
    SchedulerBatch = 1
    PerTick = 1
    SoftLimit = 1
    HardLimit = 2
    MaxConcurrent = 1
    NoWorkerMaxRetries = 2
SPECIFICATION Spec
CHECK_DEADLOCK FALSE
INVARIANT
    DispatchedWasApplied
