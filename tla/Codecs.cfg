SPECIFICATION FairSpec
CONSTANTS
    Lengths = {0, 1, 2, 5, 8}
    MaxLen <- AllLengths
    SizeModulus = 17
INVARIANTS
    TypeOK
    FieldsInHostOrder
    StaysInside
    IteratorsTile
PROPERTY
    DecodingEnds
CHECK_DEADLOCK FALSE
