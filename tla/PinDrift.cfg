\* Pins while the density changes; the other jobs left out as far as may be.
SPECIFICATION Spec
CONSTANTS
    RowCases = {}
    Streams = {}
    Keys = {}
    Lcgs = {}
    Twisters = {}
    WordBytes = 2
    StateWords = 5
    TwistOffset = 3
    Matrices = {}
    Messages = {}
    Sponges = {}
    Kem <- MCKem
    Dsa <- MCDsa
    Transforms = {}
    Codecs = {}
    Seeds = {}
    Roundings = {}
    HintCodes = {}
    Signings = {}
    Ciphers = {}
    RoundScenes <- NoScenes
    LeafSizes = {}
    CanvasScenes <- NoScenes
    PointerMoves = {}
    PinnedAt <- MCPinnedAt
    MaxEntries = 1
    ChipCap = 3
    DocumentsSaved = {}
    StrayFields = {}
    LinkBytes = {}
    PageFiles = {"f", "g"}
    MaxArrivals = 4
    Specs = {"s", "t"}
    ColoredSources = {"a", "b"}
    Requests <- MCRequests
    StoredBefore <- MCStoredBefore
    PinnedHomes <- MCPinnedHomes
    MaxWrites = 3
    ColoredGraphs = {}
    CodingThresholds = {0, 1, 3}
    Paints = {}
INVARIANT PinsStayWithinAPixel
CHECK_DEADLOCK FALSE
