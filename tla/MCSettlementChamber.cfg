SPECIFICATION FairSpec
CONSTANTS
    Calls = {c1, c2}
    Cohort = 2
    Fickle = {2}
INVARIANTS
    TypeOK
    FlagsTellWhoRuns
    PictureOfOneCall
    ReplayNeverLive
    PairFromOneRead
PROPERTIES
    AllowedIsFresh
    CallsEnd
    DueIsRead
