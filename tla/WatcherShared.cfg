CONSTANTS
    web = web
    db = db
    tls = tls
    conf = conf
    Pods <- ThePods
    Maps <- OneMap
    Refs <- TlsRefs
    MaxVersion = 2
    MaxLife = 2
    MaxRestarts = 1
SPECIFICATION Spec
INVARIANTS
    TypeOK
    WatchesOnlyPodsThatRun
PROPERTY
    NoStaleOverwrite
