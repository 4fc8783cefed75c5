CONSTANTS
    conf = conf
    token = token
    extra = extra
    a = a
    b = b
    ConfigMaps <- OneConfigMap
    Secrets <- TwoSecrets
    Keys <- TheKeys
    Vols <- TheVols
    Mounts <- TheMounts
    MaxFaults = 1
SPECIFICATION FairSpec
INVARIANTS
    TypeOK
    FilesAreWhole
    MountsReady
PROPERTIES
    
    UpdatesArrive
CHECK_DEADLOCK FALSE
