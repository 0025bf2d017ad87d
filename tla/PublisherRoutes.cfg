SPECIFICATION Spec
CONSTANTS
    Platforms <- MCPlatforms
    Enabled <- MCEnabled
    Plugins <- MCPlugins
    Home <- MCHome
    PluginPriority <- MCPriority
    None = None
    Approved = Approved
    Stranger = Stranger
    MaxAttempts = 2
INVARIANTS
    CleanMeansNothing
    AtMostOneWrite
    ReceiptsAreReal
    ApprovedAccountOnly
    NothingIsPassedOver
