CONSTANTS
    Config = {"pseudo"}
    FullySupported = {}
    MaxFrameRate <- MCTwoRates
    ValidRefreshRates <- MCValidRates
    PowerMode = {"Normal"}
    EnableValue = {TRUE}
    ControllerType = {}
    MinimumRate = {1,10}
    LockTime = {0,1}
    ReportedRate = {}
    PresentOffset = {0}
    TimeoutOverride <- MCNoOverrides
    HandlerTimeout = 1
    HandlerEvents <- MCTwoEvents
    DefaultTaskSpace = 2
    NotifyTimeout = 2
    DefaultTimeout = 2
    WakeUpPeriod = 1
    AheadOfTime = 1
    TransitionDelay = 1
    MeasurePeriod = 2
    Uptime = 0
    FrameRateReporter = FALSE
    WriteMayFail = FALSE
    DupMayFail = FALSE
    MayStop = TRUE
    NotifyWhileOff = FALSE
    MaxPosts = 0
    MaxLag = 1
    Horizon = 2
SPECIFICATION FairSpec
PROPERTIES PeakRateReleased FrameInsertionEnds ThreadStops
