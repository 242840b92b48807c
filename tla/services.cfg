CONSTANTS
    ComposerClients = {"c1", "c2"}
    Internals = {"int"}
    Externals = {"ext"}
    Virtuals = {"virt"}
    Names = {"n1", "n2"}
    Addresses = {"a1", "a2", "a3"}
    Unnamed = "unnamed"
    Primaries = {"p1", "p2", "p3"}
    External = "e"
    NoDisplay = "none"
    LhbmConfigs = {1, 2, 3}
    Peak = 3
    NoConfig = 0
    DozeMode = 9
    ModeSetsFail = FALSE
    Panels = {"a", "b"}
    FirstPanel = "a"
    Channels = {"c1", "c3", "c4"}
    ReservedTo <- Reservation
    NoPanel = "no panel"
    DozeFromOff = FALSE
    FramesInterrupted = FALSE
    DrDisplays = {"a"}
    MaxSettings = 2
    CallsDuringFrames = FALSE
    u = u
    v = v
    w = w
    Clients = {u, v, w}
    HistConfigs = {"c", "d"}
    Sizes = {"fhd", "qhd"}
    HistChannels = {1, 2}
    ReservedChannels = {2}
    NoChannel = 9
SPECIFICATION ServicesSpec
SYMMETRY Interchangeable
VIEW FocusView
INVARIANTS ChannelsInStep NamesAgree EventsReachTheClient CrtcsComeHome ClientConfigKept LhbmOffWithDisplay RecompositionIsSafe CallsAreCarriedOut
PROPERTY PlanesAreHandedOver
CHECK_DEADLOCK FALSE
