CONSTANTS
    DelayMayOverlap = FALSE
    DozeMayFail = FALSE
    Config = {"pseudo"}
    FullySupported = {}
    MaxFrameRate <- MCRates
    ValidRefreshRates <- MCValidRates
    PowerMode = {"Off","Normal"}
    EnableValue = {TRUE}
    ControllerType = {}
    MinimumRate = {0,10}
    LockTime = {0}
    ReportedRate = {}
    PresentOffset = {0}
    TimeoutOverride = {}
    HandlerTimeout = 1
    HandlerEvents <- MCOneEvent
    DefaultTaskSpace = 2
    NotifyTimeout = 1
    DefaultTimeout = 2
    WakeUpPeriod = 1
    AheadOfTime = 1
    TransitionDelay = 1
    MeasurePeriod = 1
    Uptime = 0
    FrameRateReporter = FALSE
    WriteMayFail = FALSE
    DupMayFail = FALSE
    MayStop = FALSE
    NotifyWhileOff = FALSE
    MaxPosts = 0
    MaxLag = 1
    Horizon = 2
SPECIFICATION DisplaySpec
INVARIANTS NoFrameInsertionAtMinimumRate
