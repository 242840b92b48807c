CONSTANTS
    Config = {"pseudo","full"}
    FullySupported = {"full"}
    MaxFrameRate <- MCTwoRates
    ValidRefreshRates <- MCValidRates
    PowerMode = {"Off","Doze","Normal"}
    EnableValue = {TRUE}
    ControllerType = {}
    MinimumRate = {1}
    LockTime = {0}
    ReportedRate = {}
    PresentOffset = {0}
    TimeoutOverride <- MCNoOverrides
    HandlerTimeout = 1
    HandlerEvents <- MCOneEvent
    DefaultTaskSpace = 2
    NotifyTimeout = 2
    DefaultTimeout = 2
    WakeUpPeriod = 1
    AheadOfTime = 1
    TransitionDelay = 1
    MeasurePeriod = 1
    Uptime = 0
    FrameRateReporter = TRUE
    WriteMayFail = FALSE
    DupMayFail = FALSE
    MayStop = FALSE
    NotifyWhileOff = FALSE
    MaxPosts = 1
    MaxLag = 1
    Horizon = 2
SPECIFICATION Spec
INVARIANTS TimelyWakeup DisabledWhileOff
