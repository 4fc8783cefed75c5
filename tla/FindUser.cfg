CONSTANTS
    NumInit = 1
    NumMain = 1
    Files <- SomeFiles
    Specs <- FewSpecs
    Uids <- Users
    Known <- KnownUsers
    PrimaryGroup <- Groups
    Overrides <- AnyOverride
    DefaultEnv <- Hostname
SPECIFICATION Spec
INVARIANT
    PackageUserKept
