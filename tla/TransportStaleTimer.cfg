SPECIFICATION Spec
CONSTANTS
    MaxSlots = 1
    MaxConns = 2
    CAs = {ca1}
    CamNums = {cam1}
    NoHndl = NoHndl
    WriteMayFail = FALSE
    CamPolite = TRUE
    MaxQueue = 2
    MaxTpdus = 1
PROPERTY
    GivenUpAfterSending
