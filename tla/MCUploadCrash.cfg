CONSTANTS
    Clients = {r1, r2, r3, r4}
    Collection = col
    Ids = {col}
    DbMayFail = TRUE
    Specs <- KeepTwoOrThree
    Sizes = {2, 3}
    Faults = {"crash", "blobDelete", "examine"}
    HeedsContext = TRUE
SPECIFICATION Spec
SYMMETRY RequestSymmetry
INVARIANTS
    UploadTypeOK
    NoParallelUploads
    NewestAreIntact
    AnsweredCopiesAreKept
    NeverCorrupted
    RotationCatchesUp
PROPERTY
    IsRetention
