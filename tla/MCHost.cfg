SPECIFICATION Spec
CONSTANTS
    v1 = v1
    v2 = v2
    u1 = u1
    p1 = p1
    p2 = p2
    j1 = j1
    j2 = j2
    None = None
    Contexts <- MCContexts
    Layouts <- MCLayouts
    Programs <- MCPrograms
    Versions = {v1, v2}
    Users = {u1}
    Pids = {1, 2}
    MaxStarts = 2
    Providers <- MCProviders
    Places = {p1, p2}
    MaxWaits = 2
    Daemons = {1, 2}
    NoFile = NoFile
    ChallengeTTL = 1
    SessionTTL = 2
    MaxChallenges = 2
    MaxSessions = 2
    MaxLag = 1
    MaxClock = 4
    MaxIssued = 4
    Jobs = {j1, j2}
    Permits = 1
    EventCapacity = 2
    Instances = {1, 2, 3, 4}
    FullPath <- MCFullPath
    Class <- MCClass
    Service <- MCService
    Below <- MCBelow
    LocalPath <- MCLocalPath
    TooDeep = {}
    Texts = {"x newline", "y"}
    Extracted <- MCExtracted
    UserText = "user"
    Gone = "gone"
    NoText = "no text"
    Unread = "unread"
    MaxEdits = 1
INVARIANTS
    HostTypeOK
    InspectionSound
    MonitorTruthful
    EndpointNamesLiveDaemon
    PairingSound
    JobsOrderly
    PullSound
PROPERTY MonitorConnects
CHECK_DEADLOCK FALSE
