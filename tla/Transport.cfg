SPECIFICATION Spec
CONSTANTS
    MaxSlots = 1
    MaxConns = 3
    CAs = {ca1}
    CamNums = {cam1}
    NoHndl = NoHndl
    WriteMayFail = TRUE
    CamPolite = FALSE
    MaxQueue = 2
    MaxTpdus = 2
INVARIANTS
    TypeOK
    NoChainLeftBehind
    UnregisteredIsClean
    DeleteIsLast
    OpenIsAnnounced
PROPERTY
    ServiceSpec
