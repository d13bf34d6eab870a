SPECIFICATION FairSpec
CONSTANTS
    MaxSlots = 1
    MaxConns = 3
    CAs = {ca1}
    CamNums = {cam1}
    NoHndl = NoHndl
    WriteMayFail = FALSE
    CamPolite = TRUE
    MaxQueue = 2
    MaxTpdus = 1
INVARIANT
    HandshakeIsDriven
PROPERTY
    HandshakeCompletes
