\* A timeout that overlaps a decision.
CONSTANTS
    script = script
    review = review
    render = render
    published = published
    WorkStages = {script}
    ReviewStages = {review}
    Finals = {published}
    First = script
    OnSuccess <- DeskSuccess
    OnApproved <- DeskApproved
    OnRejected <- NoRejected
    Released = {published}
    MaxAttempts = 1
    NoWorkerMaxRetries = 1
    GateIds = {1}
    MaxClicks = 0
    BadKey = BadKey
SPECIFICATION Spec
CHECK_DEADLOCK FALSE
PROPERTY
    DecisionStands
