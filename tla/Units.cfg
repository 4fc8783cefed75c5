CONSTANTS
    NumInit = 1
    NumMain = 1
    Files <- SomeFiles
    Specs <- SomeSpecs
    Uids <- Users
    Known <- KnownUsers
    PrimaryGroup <- Groups
    Overrides <- AnyOverride
    DefaultEnv <- Hostname
SPECIFICATION Spec
INVARIANTS
    TypeOK
    NoRootUnderOverride
    ContextWins
    ExecStartAsDocumented
    ContainerEnvWins
PROPERTY
    SameFilesAgain
