CONSTANTS
    w1 = w1
    w2 = w2
    starter = starter
    r1 = r1
    Machines <- TheMachines
    Portless = {"localhost"}
    Workers <- TwoWorkers
    Starter = starter
    Images <- TheImages
    Policyrcd = "policyrcd"
    Before <- TheBefore
    MaxErrors = 1
    Requests <- OneRequest
    MaxEntries = 2
    MaxLives = 2
SPECIFICATION FairSpec
CHECK_DEADLOCK FALSE
INVARIANTS
    TypeOK
    OfficialServicesStayDown
    MasksOnlyOurs
    OptionsAsGiven
    
    NothingBeforeSync
    ReadsOpenJournal
PROPERTIES
    InstalledGetsMasked
    SignalEnds
    FollowersEnd
