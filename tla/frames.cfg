CONSTANTS
    p = p
    e = e
    a = a
    b = b
    c = c
    Displays = {p, e}
    Layers = {a, b, c}
    DisplayOf <- TwoDisplays
    Devices <- MCDevices
    HintRates = {60, 120}
    Targets = {1, 2}
    MaxRetries = 1
    LateObituary = FALSE
SPECIFICATION FramesSpec
INVARIANTS EveryFenceHasOneOwner PowerHalIsUpToDate
PROPERTIES FramesShowLatest
CHECK_DEADLOCK FALSE
