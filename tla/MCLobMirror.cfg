SPECIFICATION FairSpec
CONSTANTS
    Slots = {best}
    Values = {p1, p2}
    Seed = Seed
    Blank = Blank
    k_max_seqlock_retries = 1
    MaxUpdates = 2
CHECK_DEADLOCK FALSE
INVARIANTS
    FreshWhenCurrent
PROPERTIES
    ImplementsBookMirror
    StagingTerminates
    MirrorCatchesUp
