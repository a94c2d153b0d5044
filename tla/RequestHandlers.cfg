\* Two owner requests with one key and one with another, competing for a single unit, and
\* one small instance of each of the other components.
CONSTANTS
    r1 = r1
    r2 = r2
    r3 = r3
    k1 = k1
    k2 = k2
    Requests = {r1, r2, r3}
    Keys = {k1, k2}
    KeyOf <- MCKeyOf
    bucket = bucket
    DefaultFraction = DefaultFraction
    Unlimited = Unlimited
    Limit = 1
    TTL = 1
    MaxTime = 1
    None = None
    SettingsRequests = {"update", "repeated", "other"}
    SettingsKeys = {"k1", "k2"}
    SettingsKeyOf <- MCSettingsKeyOf
    SettingsValues = {"old", "new", "off"}
    SettingsValueOf <- MCSettingsValueOf
    SettingsOff = {"off"}
    SettingsDeletes = {"other"}
    SettingsOld = "old"
    SettingsNoKey = "nokey"
    OAuthGatekeepers = {"google", "github", "delegated"}
    OAuthTransactions = {"t1", "t2"}
    OAuthCallbacks = {"k1", "k2"}
    OAuthReads = {"r1"}
    OAuthSubjects = {"s1"}
    OAuthLinks = {"c1", "c2"}
    OAuthTokens = 3
    QueryIds = {"q1", "q2"}
    QueryCallers = {"u1", "u2"}
    QueryDelegatedLimit = 2
    QuerySubjectLimit = 1
    QueryPublicLimit = 1
    QueryVersions = 2
    NoticeDestinations = {"guild"}
    NoticeIds = {"n1"}
    NoticeSyncs = {"s1", "s2"}
    NoticeReleases = 2
    NoticeFaults = 2
    UpkeepExports = {"e1", "e2"}
    UpkeepKeyOf <- MCUpkeepKeyOf
    UpkeepUploads = {"u1"}
    UpkeepMaxFaults = 1
    AuditEvents = {"e1", "e2"}
    AuditLate = 1
    AuditRetain = 2
    AuditMaxDay = 4
    AuditMaxFaults = 1
    AuditMaxResets = 0
    RuntimeTokens = {"t1", "t2"}
    RuntimeDeliveries = {"d1", "d2", "d3"}
    RuntimeTokenOf <- MCRuntimeTokenOf
    RuntimeConcurrency = 1
    RuntimeTokenLife = 1
    RuntimeReserveLife = 2
    RuntimePurgeAfter = 2
    RuntimeMaxTime = 3
    RegistryConversations = {"c"}
    RegistryCreations = {"p1", "p2"}
    RegistryReads = {"g"}
    RegistryDeletions = {"d"}
    RegistryMemories = {"m1", "m2", "m3"}
    RegistryOf <- MCRegistryOf
    RegistryKeys = {"k1", "k2"}
    RegistryKeyOf <- MCRegistryKeyOf
    RegistryValues = {"v"}
    RegistryValueOf <- MCRegistryValueOf
    RegistryHardLimit = 2
    RegistryObjectLimit = 3
    RegistryScenes = {{"p1", "p2", "g", "d"}, {"p1", "d", "m1", "m2", "m3"}}
SPECIFICATION HandlersSpec
INVARIANTS TypeOK SettingsStand QueriesMetered NoticesTrue UpkeepKeepsFiles InvocationsBounded ConversationsKept
PROPERTIES MeteredOnce ConnectionsHold LateEventsKept
CHECK_DEADLOCK FALSE
