CONSTANTS
    LayerCount = 4
    Kinds <- MCKinds
    Otfs = {1, 2, 3}
    G2dSources = 2
    TryCount = 12
    CountWrap = 16
    GscImages <- MCImages
    GscFaults <- MCGscFaults
    JpegImages = {"big", "small"}
    JpegQualities = {"q80", "q50"}
    JpegFaults <- MCJpegFaults
    ScImages <- MCImages
    ScFaults <- MCScFaults
VIEW CompositionView
SPECIFICATION CompositionSpec
INVARIANTS AssignmentEnds StackIsShown JobsAreAsOrdered DevicesStayUsable
CHECK_DEADLOCK FALSE
