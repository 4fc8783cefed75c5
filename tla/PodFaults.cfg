CONSTANTS
    web = web
    db = db
    poll = poll
    Pods <- OnePod
    NumInit = 1
    NumMain = 1
    Pollers <- OnePoller
    FaultKinds <- AllButStop
    MaxFaults = 2
SPECIFICATION Spec
INVARIANTS
    TypeOK
    FilesOnlyOfKnownPods
    DeletedIsGone
