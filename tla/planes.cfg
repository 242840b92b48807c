CONSTANTS
    CachedLayers = {p}
    TargetWindows = {t, g}
    NoLayer = q
    Bufs = {b1, b2, b3}
    SecureBufs = {b3}
    Fbs = {f1, f2, f3}
    ClearMayFail = TRUE
    MAX_CACHED_LAYERS = 1
    MAX_CACHED_SECURE_LAYERS = 0
    MAX_CACHED_BUFFERS_PER_LAYER = 0
    MAX_CACHED_SECURE_BUFFERS_PER_LAYER = 0
    XRes = 4
    Windows = {1, 2}
    Shapes <- MCShapes
    Damages <- MCDamages
    M2mDisplays = {"p", "e"}
    M2mSources <- MCM2mSources
    M2mSecure = {"s"}
    MaxJobs = 2
    ComposeAfterLoss = FALSE
    mXres = 8
    Channel <- MCChannel
    Scaler <- MCScaler
    G2d <- MCG2d
    GeoLayers <- MCLayers
    Companions <- MCCompanions
    TargetStride = 8
    UintWrap = 256
    f1 = f1
    f2 = f2
    f3 = f3
    b1 = b1
    b2 = b2
    b3 = b3
    p = p
    q = q
    t = t
    g = g
VIEW PlanesView
SPECIFICATION PlanesSpec
SYMMETRY Interchangeable
INVARIANTS CommitsNameLiveBuffers PanelIsUpToDate ScreenShowsItsFrame WindowsAreLegal
CHECK_DEADLOCK FALSE
