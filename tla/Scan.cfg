SPECIFICATION FairSpec
CONSTANTS
    MaxRunning = 2
    Bandwidth = 2
    Frequencies = {10, 11, 20, 30, 40}
    Initial <- MCInitial
    TypeOf <- MCTypeOf
    Pat <- MCPat
    Nit <- MCNit
    Vct <- MCVct
    LastSection <- MCLastSection
    Versions <- MCVersions
    Networks = {7}
    NoPsip = FALSE
    AtscType = 3
    OpenFailures = 2
INVARIANTS
    TypeOK
    PollsWhatRuns
    FiltersOfCurrent
    KnownStaysKnown
    EachScannedOnce
PROPERTY
    ScanEnds
CHECK_DEADLOCK FALSE
