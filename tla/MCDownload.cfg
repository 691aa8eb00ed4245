CONSTANTS
    Clients = {r1, r2, r3, r4}
    Readers = {d1}
    Collection = col
    Ids = {col}
    DbMayFail = FALSE
    Specs <- KeepTwo
    Sizes = {2, 3}
    Faults = {"timeout", "close", "dbDelete"}
    HeedsContext = FALSE
SPECIFICATION DownloadSpec
SYMMETRY RequestSymmetry
INVARIANTS
    DownloadTypeOK
    NewestAreIntact
    AnsweredCopiesAreKept
    QuotaIsHeld
    NoOrphanObjects
PROPERTIES
    IsRetention
    SendsWhatWasUploaded
    MissesOnlySuperseded
