\* An approval of any kind: two requests race to decide it, a gatekeeper call may be
\* delivered twice.  Of plugins one installation key and one capability, of transfers three
\* results, in Discord two users and one code; either user may be linked to begin with.
CONSTANTS
    a1 = a1
    Approvals = {a1}
    Kinds = {"provider", "discord", "model", "plugin"}
    Requests = {r1, r2}
    Subject <- TwoOnOne
    Deliveries = 2
    ApprovalTTL = 1
    LeaseTTL = 1
    MaxTime = 2
    None = None
    PluginRequests = {"p1", "p2", "p3", "p4"}
    PluginKeys = {"k1"}
    PluginCapabilities = {"c1"}
    TransferRequests = {"approve", "repeated", "change"}
    TransferKeyOf <- MCTransferKeyOf
    TransferKeys = {"k1", "k2"}
    TransferResults = {"x1", "x2", "x3"}
    TransferOriginal = "x1"
    LinkInteractions = {"i1", "i2"}
    LinkUsers = {"u1", "u2"}
    LinkCodes = {"c1"}
    LinkJobs <- MCLinkJobs
    LinkFaults = 1
    LinkGuild = "guild"
SPECIFICATION HandlersSpec
INVARIANTS TypeOK OutcomeIsTrue TransfersAsApproved CommandsAsAllowed
PROPERTIES EffectOnceApproved DecisionsStand PluginsAsApproved
CHECK_DEADLOCK FALSE
