\* Every component around queue, session and turn, one at a time; all of them may stop.
SPECIFICATION AllSpec
CONSTANTS
    b1 = b1
    b2 = b2
    a1 = a1
    a2 = a2
    NoBot = NoBot
    AnyValue = AnyValue
    Unset = Unset
    NoValue = NoValue
    Masked = Masked
    System = System
    RoutingAccounts = {b1, b2}
    RoutingAgents = {a1, a2}
    DefaultAgent = a1
    Unowned = {}
    Configurations <- MCConfigurations
    Writable <- MCWritable
    MaxWritten = 2
    ChannelRows <- MCChannelRows
    Limit <- MCLimit
    Texts <- MCTexts
    PostKinds = {"text"}
    MaxChatPosts = 1
    MaxSaid = 2
    Users = {"u"}
    Requests = {"r1", "r2"}
    Own <- MCOwn
    Wanted <- MCWanted
    Admins = {"u"}
    Scopes <- MCScopes
    MaxBuilt = 2
    SettingUsers = {"u", "admin"}
    SettingAdmins = {"admin"}
    Updates = {"p", "q", "s"}
    By <- MCBy
    Patch <- MCPatch
    Namespaces <- MCNamespaces
    SettingAgent <- MCAgent
    Env <- MCEnv
    Default <- MCDefault
    File <- MCFile
    RowKeys = {"cu", "cv", "pu"}
    IsChannel = {"cu", "cv"}
    RowOwner <- MCRowOwner
    RowAdmins = {"admin"}
    RowCalls <- MCRowCalls
    Ending <- MCEnding
    CronPods = {"p", "q"}
    Jobs = {"j"}
    LockTTL = 1
    MaxTime = 2
    Impatient = {"tool"}
    Patient = {"router"}
    MaxId = 4
    MaxNotes = 1
    PipeCap = 1
    Servers = {"a", "b"}
    ServerTools = {"t"}
    Prefix <- MCPrefix
    Tasks = {"1", "2"}
    MaxRequests = 4
    MaxOwn = 1
    AccountUsers = {"root", "u"}
    AccountAgents = {"g1", "g2"}
    ApiKeys = {"k"}
    AccountRequests = {1, 2}
    MaxAccountRequests = 4
    RemoteCalls = {"c1", "c2"}
    MaxSandboxes = 3
    MaxExecutors = 2
    MaxEvents = 3
    ChunkCap = 1
    SkillPods = {"p", "q"}
    SkillNames = {"a", "b"}
    SkillFiles = {"md"}
    Manifest = "md"
    Bundles <- MCBundles
    SizeOf <- MCSizeOf
    MaxOps = 3
    MaxOpen = 2
    FileUsers = {"u", "v"}
    Chats = {"c", "d"}
    OwnerOf <- MCOwnerOf
    Identity = {"USER.md"}
    Artifacts = {"report"}
    Local = {"skills/x"}
    MaxWrites = 2
    Processes = {"p", "q"}
    Owned = {"a"}
    Orphans = {"o"}
    MaxDeaths = 2
    MaxPids = 4
    MaxCommands = 2
    MaxRestarts = 3
    MaxBackoff = 3
    ToolSettings <- MCToolSettings
    MaxSaves = 2
    LayerNames = {"s", "t"}
    Extra <- MCExtra
    Manifests <- MCManifests
    Machine = {"linux", "python"}
    LayerConfigs <- MCLayerConfigs
    Commands <- MCCommands
    MaxChanges = 2
INVARIANTS
    TypesOK
    TriggeredOnce
    ChannelsDeliver
    SpacesKept
    
    
    AccountDeletionIsFinal
    
    StreamsWhole
    
    
CHECK_DEADLOCK FALSE
