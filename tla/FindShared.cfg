CONSTANTS
    web = web
    db = db
    tls = tls
    conf = conf
    Pods <- ThePods
    Maps <- OneMap
    Refs <- TlsRefs
    MaxVersion = 1
    MaxLife = 1
    MaxRestarts = 0
SPECIFICATION Spec
PROPERTY
    ImplementsRegistry
