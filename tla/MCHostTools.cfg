SPECIFICATION Spec
CONSTANTS
    Word = 32
    HeaderSums <- MCHeaderSums
    Ids = 7
    Selections <- MCSelections
    N = 2
    None = None
    ListenCount = 3
    SendCount = 5
    MaxFaults = 2
    DataVersions <- MCDataVersions
    Groups <- MCGroups
    Templates <- MCTemplates
    MaxUpdates = 3
    Numbered <- MCNumbered
    McsNames <- MCMcsNames
    A72Named <- MCA72Named
    A53Named <- MCA53Named
    R5Named <- MCR5Named
    LocalMems <- MCLocalMems
    DdrMems <- MCDdrMems
    Install <- MCInstall
    Patches <- MCPatches
    ArchPatches <- MCArchPatches
    Configs <- MCConfigs
    Domains <- MCDomains
    Scripts0 <- MCScripts
    MaxApps = 2

INVARIANTS ChecksumRight VectorsMatch PassMeansClean FilesAgree DriversWhole BootIsNew PlacedToRun
CHECK_DEADLOCK FALSE
