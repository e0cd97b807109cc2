SPECIFICATION MCSpec
CONSTANTS
    Arguments <- SomeArguments
    Configs <- SomeConfigs
    Rules <- SomeRules
    Hosts <- SomeHosts
    NoRule = NoRule
    Docs = {"a", "b"}
    MaxCalls = 3
    MaxEdits = 1
    Servers <- SomeServers
    Listings <- SomeListings
    MaxTools = 3
    MaxDepth = 2
    BuiltIn <- SomeBuiltIn
    Providers = {"p", "q"}
    Native = {"q"}
    MaxRetries = 1
    MaxIssued = 3
    MaxRequests = 2
    Names = {"p", "q", "s"}
    Models = {"m", "n"}
    Configured = {"p", "s"}
    Subscribing = {"s"}
    Directories <- SomeDirectories
    DirectoryTTL = 1
    LiveTTL = 2
    MaxTime = 3
    MaxDiscoveries = 2
    Addresses <- SomeAddresses
    MaxAddresses = 2
    MaxRedirects = 2
    MaxBytes = 2
    MaxBody = 3
    Chains <- SomeChains
    PromptBytes = 7
    ToolNames = {"a", "b"}
    MaxServed = 2
    ReplyCalls = 2
    SessionCalls = 3
    Framings = {"line", "header", "frame"}
    Bodies <- SomeBodies
    Noise <- SomeNoise
    FrameBytes = 4
    MaxMessages = 3
    MaxPiece = 4
    Programs <- SomePrograms
    Words <- SomeWords
    MaxWords = 2
    Half = 4
    Alphabet = {"a", "b", "cr", "nl", "esc", "["}
    Secrets <- SomeSecrets
    MaxReturn = 3
    MaxOutput = 3
    MaxSequence = 1
    MaxWritten = 4
    MaxChunk = 2
INVARIANTS
    CriticalIsIsolated
    PolicyOnlyTightens
    CallsReachTheirs
    RequestsGoHome
    RepliesAreWhole
    BytesArriveWhole
    FilesAreShown
    InstructionsAreOrdered
PROPERTIES
    CatalogIsWhole
CHECK_DEADLOCK FALSE
