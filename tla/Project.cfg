SPECIFICATION MCSpec
CONSTANTS
    srv = srv
    area = area
    tool1 = tool1
    tool2 = tool2
    NoKey = NoKey
    Server = {srv}
    Area = {area}
    Tool = {tool1, tool2}
    Log = {l1}
    Strategy = {x}
    ServerOf <- MCServerOf
    BatchSize = 1
    MaxPass = 2
    Ontologies <- MCOntologies
    MaxBoot = 2
    MaxFault = 2
    Id = {"a", "b"}
    NeedsEnv = {"a"}
    Deployed = {"b"}
    Asked = {"a"}
    MaxCommand = 3
    MaxFileFault = 1
    MaxKill = 1
    Entry = {"a", "b", "c", "d"}
    Source = {"default", "fork"}
    DefaultSource = "default"
    Offers <- MCOffers
    Filters <- MCFilters
    MaxFetch = 3
    MaxFetchFault = 2
    Request = {"r1"}
    Origin = {"o1", "o2"}
    Profiles <- MCProfiles
    EnvName = {"TOKEN", "KEY"}
    HostEnv = {"KEY"}
    MaxAttempt = 3
    MaxMishap = 4
    Command = {1, 2}
    Settings <- MCSettings
    MaxCallback = 3
    MaxKeyringFault = 2
    MaxRefresh = 2
    Jobs <- MCJobs
    MaxRetry = 2
    MaxArrival = 2
    MaxDisk = 2
    Agent = {"t1", "t2"}
    InProcess = {"w1", "w2"}
    Capacity = 1
    MaxLife = 3
    MaxKilling = 2
    Process = {p1, p2}
    AgentName = {"t1", "t2"}
    EventColumns = 1
    MaxMisread = 1
    MaxDeath = 1
INVARIANTS MigrationSound ProjectSound   TokensSound  QueuedIsWaiting StoreSound
CHECK_DEADLOCK FALSE
