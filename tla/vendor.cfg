CONSTANTS
    Config = {"pseudo"}
    FullySupported = {}
    MaxFrameRate <- MCTwoRates
    ValidRefreshRates <- MCValidRates
    PowerMode = {"Off","Normal"}
    EnableValue = {TRUE, FALSE}
    ControllerType = {}
    MinimumRate = {10}
    LockTime = {0}
    ReportedRate = {30}
    PresentOffset = {0}
    TimeoutOverride <- MCOverrides
    HandlerTimeout = 1
    HandlerEvents <- MCTwoEvents
    DefaultTaskSpace = 2
    NotifyTimeout = 1
    DefaultTimeout = 2
    WakeUpPeriod = 1
    AheadOfTime = 1
    TransitionDelay = 1
    MeasurePeriod = 1
    Uptime = 2
    FrameRateReporter = FALSE
    WriteMayFail = TRUE
    DupMayFail = TRUE
    MayStop = FALSE
    NotifyWhileOff = FALSE
    MaxPosts = 0
    MaxLag = 1
    Horizon = 2
SPECIFICATION Spec
INVARIANTS TypeOK VendorTasksInBounds FencesConserved
