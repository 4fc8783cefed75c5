CONSTANTS
    web = web
    db = db
    poll = poll
    Pods <- OnePod
    NumInit = 1
    NumMain = 1
    Pollers <- OnePoller
    FaultKinds <- NoFaults
    MaxFaults = 0
SPECIFICATION Spec
INVARIANT
    NoPanic
