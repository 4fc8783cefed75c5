CONSTANTS
    web = web
    db = db
    poll = poll
    Pods <- OnePod
    NumInit = 2
    NumMain = 1
    Pollers <- NoPoller
    FaultKinds <- OrderFaults
    MaxFaults = 2
SPECIFICATION FairSpec
PROPERTIES
    MainWaitsForInit
    NoRewriteOfLiveUnit
    CreationCompletes
