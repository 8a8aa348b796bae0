SPECIFICATION ServicesSpec
CONSTANT
    Facts = {"a", "b", "c"}
    By <- KgBy
    In <- KgIn
    NoGroup = "none"
    Workers = {"w1"}
    PendingSize = 2
    MaxNodes = 3
    Processors = {a1, a2}
    Detectors = {d1}
    Chain <- LlmChain
    MaxConcurrent = 1
    DailyLimit = 1
    Threshold = 2
    MaxControllers = 2
    MaxUsed = 3
    CaptureIds = {"m1", "m2", "m3"}
    Tellings <- CaptKinds
    DetectorModes = {"rule", "llm", "hybrid"}
    RuleFindings <- DetectFindings
    Namings = {"none", "relationship"}
    EntityCounts = {0, 3}
    EmotionWords <- DetectWords
    Inquiries <- ClaRequests
    WriterOf <- ClaUserOf
    WordsOf <- ClaTextOf
    Findings <- ClaRules
    AnswersMax = 1
    Sentences = {"x", "y", "z"}
    EmbedCallers = {"e1", "e2"}
    CacheMax = 2
    Analyses = {"c1", "c2"}
    AnalysisModes = {"auto", "skip"}
    MaxDescribed = 2
    RecentLimit = 1
    DailyBudget = 2
    SessionBudget = 2
    MaxAsks = 4
    Pictured <- ImgMessages
    Events = {"e1", "e2"}
    Kinds <- FlowKinds
    PersonaMessages = {"m1", "m2", "m3", "m4"}
    PersonaSessions = {"s1", "s2"}
    PersonaThreshold = 3
    PersonaBatchMax = 1
    PersonaMaxQueue = 4
    TraitWords = {"w1", "w2"}
    Top = 1
    MaxLog = 2
    MaxShown = 1
    Shortened <- ProfileCut
    Gates = {"style"}
    WindowSize = 2
    Strategy = "hybrid"
    Retrievable = {"r1", "r2"}
    Searches = {1, 2}
    TopK = 1
    MaxContext = 1
    MaxTrack = 1
    MaxAsked = 2
    Budget = 5
    Preamble = 1
    Postamble = 1
    Worths = {1, 2, 3}
    Costs = {1, 2, 3}
    Target = 3
    Mode = "hybrid"
    Persons = {"u1", "u2", "u3"}
    MaxUsers = 2
    MaxObjects = 4
    Parts = {
        "graph",
        "llmgate",
        "capture",
        "detection",
        "classifier",
        "embedding",
        "images",
        "flow",
        "personabatch",
        "personaprofile",
        "emotion",
        "retrieval",
        "ranking",
        "sharedstate"
    }
SYMMETRY Symmetry
INVARIANTS
    GraphSound PrivateFactsStayPrivate GateSound EmbeddingSound
    SharedStateSound
PROPERTIES
    PersonaSound RetrievalSound MessagesSound
CHECK_DEADLOCK FALSE
