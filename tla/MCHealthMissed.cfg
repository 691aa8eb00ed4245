CONSTANTS
    Second = 2
    Minute = 3
    Retries = 3
    Windows <- WithoutGaps
    Limits <- KeepTwo
    Sizes = {2}
    ZeroTime <- BeforeAll
    MaxTime = 10
    MaxVersions = 1
SPECIFICATION HealthSpec
PROPERTY
    MissedSlotsAreReported
