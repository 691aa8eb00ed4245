CONSTANTS
    Clients = {r1, r2, r3}
    Collection = col
    Ids = {col}
    DbMayFail = FALSE
    Specs <- KeepTwo
    Sizes = {2, 3}
    Faults = {"dbCreate"}
    HeedsContext = TRUE
SPECIFICATION Spec
PROPERTY
    RotatesOnlyForStoredCopy
