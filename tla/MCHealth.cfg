CONSTANTS
    Second = 2
    Minute = 3
    Retries = 3
    Windows <- TwoWindows
    Limits <- KeepTwo
    Sizes = {2, 3}
    ZeroTime <- BeforeAll
    MaxTime = 10
    MaxVersions = 3
SPECIFICATION HealthSpec
INVARIANTS
    HealthTypeOK
    SlotsAreFound
    SumAlarmMeansRotationPending
PROPERTIES
    QuietOnlyOverFreshCopies
    NoFalseAlarm
