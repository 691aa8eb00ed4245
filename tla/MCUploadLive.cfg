CONSTANTS
    Clients = {r1, r2}
    Collection = col
    Ids = {col}
    DbMayFail = FALSE
    Specs <- NoneOrTwo
    Sizes = {2, 4}
    Faults = {"timeout", "cancel", "overrun", "close", "dbCreate", "examine"}
    HeedsContext = TRUE
SPECIFICATION FairSpec
PROPERTY
    LockComesFree
