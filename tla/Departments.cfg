\* Research repeated, packages replaced, one line of production, compliance and
\* chief audit; two people at the gates of two items.
CONSTANTS
    Topics = {t1}
    Urls = {u1, u2}
    Digests = {d1, d2}
    MaxScoutRuns = 2
    Variants = {v1}
    MaxStrategyRuns = 1
    Scripts = {s1, s2}
    Auditors = {"fact"}
    MaxContentRuns = 1
    MaxPackages = 2
    Hashes = {h1}
    MaxJobs = 1
    Platforms = {q1}
    Items = {i1, i2}
    People = {e1, e2}
    Texts = {x1}
    SupportedPlatforms = {youtube}
    MaxVersions = 3
    NoItem = NoItem
    NoRow = NoRow
    NoText = NoText
SPECIFICATION Spec
SYMMETRY Interchangeable
CONSTRAINT OneLineOfProduction
CHECK_DEADLOCK FALSE
INVARIANTS
    TypeOK
    ChainReachesEvidence
    HandoffFollowsAudit
    PublishableIsReviewed
    NoEditLost
