SPECIFICATION FairSpec
CONSTANTS
    Resources = {"rm", "ca", "mmi"}
    Versions = {1, 2}
    MaxSession = 2
    Options = {"channel", "menu"}
    MaxPieces = 2
INVARIANTS
    TypeOK
    HeldIsOpen
    MenusAreWhole
    FreedIsUnused
PROPERTIES
    AnsweredOnce
    PmtGetsThrough
CHECK_DEADLOCK FALSE
