CONSTANTS
    Config = {"pseudo","full"}
    FullySupported = {"full"}
    MaxFrameRate <- MCTwoRates
    ValidRefreshRates <- MCValidRates
    PowerMode = {"Off", "Normal"}
    EnableValue = {TRUE}
    ControllerType = {"kSoftware","kHardware"}
    MinimumRate = {1,60}
    LockTime = {0,1}
    ReportedRate = {}
    PresentOffset = {0}
    TimeoutOverride = {}
    HandlerTimeout = 1
    HandlerEvents <- MCOneEvent
    DefaultTaskSpace = 2
    NotifyTimeout = 2
    DefaultTimeout = 2
    WakeUpPeriod = 1
    AheadOfTime = 1
    TransitionDelay = 1
    MeasurePeriod = 2
    Uptime = 0
    FrameRateReporter = FALSE
    WriteMayFail = FALSE
    DupMayFail = FALSE
    MayStop = FALSE
    NotifyWhileOff = FALSE
    MaxPosts = 0
    MaxLag = 1
    Horizon = 2
SPECIFICATION Spec
INVARIANTS MinLockMatchesState PanelFollowsPresentState
PROPERTIES ImplementsCycle
