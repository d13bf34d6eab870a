SPECIFICATION Spec
CONSTANTS
    Payload = 5
    Modulus = 3
    MaxSection = 6
    Sections = 6
    Faults = 3
    Size <- SizeOf
    Version <- VersionOf
    Number <- NumberOf
    LastNumber <- LastOf
INVARIANTS
    BufferBounded
    InStep
    TableComplete
    PayloadUsedUp
CHECK_DEADLOCK FALSE
