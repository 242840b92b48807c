CONSTANTS
    Brightness = {1, 3}
    HbmFrom = 3
    Peak = 3
    DimmingUsage = "HBM"
    DbmSupported = TRUE
    SdrDims = {FALSE}
    InstantHbm = {FALSE, TRUE}
SPECIFICATION MCSpec
INVARIANTS PanelFollowsRequests DimmingWillEnd
CHECK_DEADLOCK FALSE
