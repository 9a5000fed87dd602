SPECIFICATION Spec
CONSTANTS
    RowCases <- MCRowCases
    Streams <- MCStreams
    Keys <- MCKeys
    Lcgs <- MCLcgs
    Twisters <- MCTwisters
    WordBytes = 2
    StateWords = 5
    TwistOffset = 3
    Matrices <- MCMatrices
    Messages <- MCMessages
    Sponges <- MCSponges
    Kem <- MCKem
    Dsa <- MCDsa
    Transforms <- MCTransforms
    Codecs <- MCCodecs
    Seeds <- MCSeeds
    Roundings <- MCRoundings
    HintCodes <- MCHintCodes
    Signings <- MCSignings
    Ciphers <- MCCiphers
    RoundScenes <- MCRoundScenes
    LeafSizes <- MCLeafSizes
    CanvasScenes <- MCCanvasScenes
    PointerMoves <- MCPointerMoves
    PinnedAt <- MCPinnedAt
    MaxEntries = 1
    ChipCap = 3
    DocumentsSaved <- MCDocumentsSaved
    StrayFields <- MCStrayFields
    LinkBytes <- MCLinkBytes
    PageFiles = {"f", "g"}
    MaxArrivals = 4
    Specs = {"s", "t"}
    ColoredSources = {"a", "b"}
    Requests <- MCRequests
    StoredBefore <- MCStoredBefore
    PinnedHomes <- MCPinnedHomes
    MaxWrites = 3
    ColoredGraphs <- MCColoredGraphs
    CodingThresholds = {0, 1, 3}
    Paints = {"#0072B2"}
INVARIANTS
    StepsAreExact
    NumbersAreTheDefinition
    HashesAreTheDefinition
    LatticeSchemesHold
    KeyedCiphersAgree
    PicturesAreTheWiring
    DocumentsComeBack
    ChoicesAreKept
PROPERTY CanvasHolds
CHECK_DEADLOCK FALSE
