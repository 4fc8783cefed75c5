CONSTANTS
    Containers <- TwoContainers
    ExitCodes <- Codes
    Namespaces <- TwoNamespaces
    PodNames <- ApartNames
    Mine <- WebInWeb
    MaxOthers = 1
SPECIFICATION Spec
INVARIANTS
    TypesOK
    SucceededMeansEnded
    FinishedPhase
    GetPodSeesItsUnits
    NamesParse
    NamesDistinct
