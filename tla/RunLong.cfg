\* A worker stage behind the gate, dispatches put off, and two uses of a
\* dead-letter button.
CONSTANTS
    script = script
    review = review
    render = render
    published = published
    WorkStages = {script, render}
    ReviewStages = {review}
    Finals = {published}
    First = script
    OnSuccess <- LongSuccess
    OnApproved <- LongApproved
    OnRejected <- NoRejected
    Released = {render, published}
    MaxAttempts = 2
    NoWorkerMaxRetries = 3
    GateIds = {1, 2}
    MaxClicks = 2
    BadKey = BadKey
SPECIFICATION Spec
CONSTRAINT ButtonsBeforeApproval
CHECK_DEADLOCK FALSE
INVARIANTS
    TypeOK
    NothingReleasedUnapproved
    OneToken
    RunningRunMoves
    ReservedIffInFlight
    OneGateAwaiting
    StageStartsBounded
PROPERTIES
    NoRestart
    OnlyRetriesAddWork
    RunSettles
