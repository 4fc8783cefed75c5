CONSTANTS
    web = web
    db = db
    poll = poll
    Pods <- TwoPods
    NumInit = 0
    NumMain = 1
    Pollers <- NoPoller
    FaultKinds <- AllButList
    MaxFaults = 1
SPECIFICATION FairSpec
PROPERTIES
    DeletionCompletes
INVARIANT
    FilesOnlyOfKnownPods
