CONSTANTS
    web = web
    db = db
    tls = tls
    conf = conf
    Pods <- ThePods
    Maps <- TwoMaps
    Refs <- OwnRefs
    MaxVersion = 2
    MaxLife = 1
    MaxRestarts = 0
SPECIFICATION FairSpec
PROPERTIES
    ImplementsRegistry
    VolumesGetFresh
