SPECIFICATION Spec
CONSTANTS
    MaxSlots = 2
    MaxConns = 2
    CAs = {ca1}
    CamNums = {cam1, cam2}
    NoHndl = NoHndl
    WriteMayFail = FALSE
    CamPolite = FALSE
    MaxQueue = 1
    MaxTpdus = 1
SYMMETRY CamSymmetry
INVARIANT
    UnregisteredIsClean
PROPERTY
    ServiceSpec
