SPECIFICATION StorageSpec
CONSTANT
    s1 = s1
    Facts = {"a", "b"}
    By <- KgBy
    In <- KgIn
    NoGroup = "none"
    Workers = {"w1", "w2"}
    PendingSize = 2
    MaxNodes = 4
    Chats = {s1}
    Restored = {s1}
    Mem = {x, y}
    Home <- LifeHome
    MaxWorking = 1
    CacheKeys = {"x", "y", "z"}
    CacheValues = {1, 2}
    CacheSize = 2
    MaxCount = 1
    Talks = {"c1", "c2"}
    MaxSaid = 4
    Limits = {1, 2, 3}
    ConfigLimit = 2
    Documents = {"m1", "m2", "m3"}
    Dims = {1, 2}
    ImportSize = 2
    MaxCrashes = 1
    MaxBoots = 3
    Points = {n1, n2, n3}
    Kinds = {"likes", "dislikes"}
    Against <- ChecksAgainst
    Single = {"likes"}
    MaxRows = 3
    MaxRead = 3
    MaxCycle = 3
    MaxPops = 3
    MaxIssues = 1
    Extracted = {"a", "b", "c"}
    Said <- SemanticUser
    Where <- SemanticRoom
    WordsIn <- SemanticWords
    Extractions = {"j1", "j2"}
    MinSize = 1
    MaxClusters = 2
    MaxPerCluster = 2
    MaxReads = 2
    MaxMoves = 1
    CachedSessions = {"s1", "s2", "s3"}
    SessionOwner <- SesOwner
    MaxSessions = 2
    CachedMemories = {"x", "y", "z"}
    MaxMemories = 2
    Off <- StartOff
    MaxTasks = 1
    Judged = {"a", "b", "c"}
    Calls = {"c1", "c2"}
    Modes = {"rule", "llm", "hybrid"}
    BatchSize = 2
    MaxLlm = 1
    MaxCalls = 3
    MaxAccesses = 1
    First <- UpgFirst
    Traits <- UpgTraits
    HourlyAmounts = {4, 21, 60}
    PresetKeys = {"count", "cooldown"}
    Tasks = {"promotion", "flush"}
    MaxFaults = 2
    MaxJobs = 5
    SavingCommands = {"c1"}
    MaxChanges = 2
    Ids = {"a", "b"}
    Meta <- VecMeta
    Owners = {"u1", "u2"}
    Groups = {"g1", "g2"}
    Callers = {"k1", "k2"}
    MaxAccess = 1
    Parts = {
        "graph",
        "lifecycle",
        "caches",
        "chathistory",
        "migration",
        "graphchecks",
        "semantic",
        "sessioncache",
        "startup",
        "upgrade",
        "config",
        "activity",
        "jobs",
        "persistence",
        "vectors"
    }
VIEW StorageView
INVARIANTS
    LifecycleSound KnowledgeGraphSound CachesSound
PROPERTIES
    MigrationSound VectorStoreSound ConfigSound UpkeepSound
CHECK_DEADLOCK FALSE
