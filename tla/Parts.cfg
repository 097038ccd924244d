\* Fourteen parts, one at a time; the bounds of each on lines of their own.
SPECIFICATION PartsSpec
CONSTANTS
    Code = {1, 2, 3}
    CodeSlot = {"s1", "s2"}
    MaxResetAttempts = 1  MaxCodesPerHour = 1  CodeTTL = 1  CodeHour = 2
    CodesMaxNow = 2  CodesMaxFaults = 1

    Secret = {1, 2}
    TotpCall = {"a", "b"}
    Skew = 1  MaxStep = 3  MaxTotpRequests = 5

    External = {"g1", "g2"}
    Name = {"github_1", "github_2", "alice"}
    NameOf <- MCNameOf
    LoginCall = {"a", "b"}
    RegisterMax = 2  RegisterWindow = 1  MaxHour = 2  MaxAccountFaults = 1

    Flow = {"f", "g"}
    OauthReplica = {"r", "q"}
    StateTTL = 2  OauthCodeTTL = 1  OauthMaxNow = 3  MaxOauthFaults = 1  MaxStarts = 3

    AppTokenTTL = 1  Day = 2  AskTime = 1  Asker = {"i"}  ServiceTTL = 3  CacheFor = 2
    Quota = {0, 1, 2}
    AppsMaxNow = 3  MaxAppRequests = 3  MaxLokiFaults = 1  MaxAppEdits = 2

    Target = {"x", "y"}
    Tenant = {0, 1, 2}

    Provider = {1, 2}
    AiCall = {"c"}
    Editor = {"e", "f"}
    Version = {1, 2}
    MaxAiFaults = 1  MaxAiEdits = 4

    PK = {"p"}
    Delivery = {1, 2}
    PkOf <- MCPk
    DocOf <- MCDoc
    RuleSets <- MCRules
    Filters <- MCFilters
    Absent = Absent
    IngestSlot = {"s", "t"}
    MaxSends = 2  MaxIngestFaults = 1  MaxAdminActs = 2

    Branch = {"main", "dev"}
    DefaultBranch = "main"
    Commit = {1, 2, 3}
    Caller = {"timer"}
    PageSize = 1  BackfillPages = 1  DeltaPages = 2  Overlap = 1
    MaxGitFaults = 1  MaxRepoEdits = 2

    Issue = {1}
    Fix = {"c", "d"}
    Person = {"p", "q"}
    MaxAnswers = 2  MaxMatchFaults = 1  MaxDeeds = 3

    Span = 3  PollGap = 1  MatchTime = 1  AnswerTime = 1
    Analyst = {"analyze"}
    ReportsMaxNow = 5  MaxCommits = 2  MaxAnalyzes = 1  MaxReportFaults = 1

    Cam = {"c"}
    Topic = {"motion"}
    Channel = {"webhook", "email", "sms"}
    Quiet = 2  Cooldown = 3  ClipTime = 1  AlertQueueCap = 1
    Guard = {"g"}
    AlarmsMaxNow = 3  MaxDeedsOnAlerts = 1  MaxAlarmFaults = 1

    Put = {1, 2}
    Handler = {"storage", "snapshot", "defaults", "alert", "server"}
    MaxPuts = 2  MaxSettingFaults = 1

    Starter = {"a", "b"}
    LastVersion = 2  MaxMigrationFaults = 2
INVARIANTS
    EnabledIsProven
    SignInHolds
    AdministrationHolds
    IngestHolds
    NothingSkipped
    AnalysisHolds
    VisionHolds
    MigratedOnce
CHECK_DEADLOCK FALSE
