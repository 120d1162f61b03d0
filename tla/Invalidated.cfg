\* A package that is audited, replaced and audited again by one of two auditors.
CONSTANTS
    Topics = {t1}
    Urls = {u1, u2}
    Digests = {d1, d2}
    MaxScoutRuns = 1
    Variants = {v1}
    MaxStrategyRuns = 1
    Scripts = {s1, s2}
    Auditors = {"fact", "originality"}
    MaxContentRuns = 0
    MaxPackages = 2
    Hashes = {h1}
    MaxJobs = 1
    Platforms = {q1}
    Items = {}
    People = {e1, e2}
    Texts = {x1}
    SupportedPlatforms = {youtube}
    MaxVersions = 3
    NoItem = NoItem
    NoRow = NoRow
    NoText = NoText
SPECIFICATION Spec
SYMMETRY Interchangeable
CHECK_DEADLOCK FALSE
PROPERTY
    InvalidatedCountsForNothing
