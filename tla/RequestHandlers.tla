--------------------------- MODULE RequestHandlers ---------------------------
(***************************************************************************)
(* An instance of every component that serves requests and keeps its own   *)
(* rows: the owner's metered operations, the settings, the OAuth           *)
(* connections, the queries of other agents, the notices to Discord,       *)
(* exports with retention, the audit ledger with events that arrive late,  *)
(* the plugin runtime, and the registry of conversations.  They share no   *)
(* variable, so a behaviour is one of one of them, and the others stay as  *)
(* they begin: "part" says which.                                          *)
(***************************************************************************)
EXTENDS OwnerOperation

CONSTANTS
    None,
    SettingsRequests, SettingsKeys, SettingsKeyOf, SettingsValues, SettingsValueOf,
    SettingsOff, SettingsDeletes, SettingsOld, SettingsNoKey, OAuthGatekeepers,
    OAuthTransactions, OAuthCallbacks, OAuthReads, OAuthSubjects, OAuthLinks, OAuthTokens,
    QueryIds, QueryCallers, QueryDelegatedLimit, QuerySubjectLimit, QueryPublicLimit,
    QueryVersions, NoticeDestinations, NoticeIds, NoticeSyncs, NoticeReleases, NoticeFaults,
    UpkeepExports, UpkeepKeyOf, UpkeepUploads, UpkeepMaxFaults, AuditEvents, AuditLate,
    AuditRetain, AuditMaxDay, AuditMaxFaults, AuditMaxResets, RuntimeTokens,
    RuntimeDeliveries, RuntimeTokenOf, RuntimeConcurrency, RuntimeTokenLife,
    RuntimeReserveLife, RuntimePurgeAfter, RuntimeMaxTime, RegistryConversations,
    RegistryCreations, RegistryReads, RegistryDeletions, RegistryMemories, RegistryOf,
    RegistryKeys, RegistryKeyOf, RegistryValues, RegistryValueOf, RegistryHardLimit,
    RegistryObjectLimit, RegistryScenes

VARIABLES
    part,
    settingsKind, settingsRow, settingsQuota, settingsAt, settingsPrev, settingsAnswer,
    settingsAudited, settingsLast, oauthGatekeeper, oauthTx, oauthConn, oauthIssued, oauthLive,
    oauthCall, oauthRead, oauthLeaving, oauthCache, oauthListed, oauthExchanged,
    oauthLate, queriesSurface, queriesSource, queriesAt, queriesCaller, queriesMode,
    queriesVersion, queriesUnit, queriesAi, queriesCache, queriesStoring, queriesResult,
    queriesBilled, noticesReleased, noticesRegistered, noticesStored,
    noticesSync, noticesCut, noticesDest, noticesLeft, noticesBegun, noticesSecret, noticesShown,
    noticesOutbox, noticesFaults, upkeepExport, upkeepJob, upkeepObject, upkeepRow,
    upkeepOld, upkeepTorn, upkeepArchive, upkeepArtifact, upkeepUpload, upkeepInspection,
    upkeepVersion, upkeepOverlapped, upkeepRetention, upkeepFaults, auditLog,
    auditSequence, auditErased, auditSegs, auditR2, auditD1, auditToday, auditAlarmAt,
    auditGate, auditPending, auditRun, auditFaults, auditResets, runtimeNow,
    runtimeExpires, runtimeActive, runtimeConsumed, runtimeHeld, runtimeAt, runtimeRuns,
    runtimeProcs, runtimeLost, registryObject, registryRow, registryAt, registrySeen,
    registryAnswer, registryMarked, registryOrder

Settings == INSTANCE ControlSettings WITH
    Requests <- SettingsRequests,
    Keys <- SettingsKeys,
    KeyOf <- SettingsKeyOf,
    Values <- SettingsValues,
    ValueOf <- SettingsValueOf,
    Off <- SettingsOff,
    Deletes <- SettingsDeletes,
    Old <- SettingsOld,
    NoKey <- SettingsNoKey,
    NoRow <- None,
    kind <- settingsKind, row <- settingsRow, quota <- settingsQuota, at <- settingsAt,
    prev <- settingsPrev, answer <- settingsAnswer, audited <- settingsAudited,
    last <- settingsLast

OAuth == INSTANCE OAuthConnections WITH
    Gatekeepers <- OAuthGatekeepers,
    Transactions <- OAuthTransactions,
    Callbacks <- OAuthCallbacks,
    Reads <- OAuthReads,
    Subjects <- OAuthSubjects,
    Connections <- OAuthLinks,
    Tokens <- OAuthTokens,
    None <- None,
    gatekeeper <- oauthGatekeeper, tx <- oauthTx, conn <- oauthConn, issued <- oauthIssued,
    live <- oauthLive, call <- oauthCall, read <- oauthRead, leaving <- oauthLeaving,
    cache <- oauthCache, listed <- oauthListed, exchanged <- oauthExchanged,
    late <- oauthLate

AgentQuery == INSTANCE AgentQueries WITH
    Queries <- QueryIds,
    Callers <- QueryCallers,
    DelegatedLimit <- QueryDelegatedLimit,
    SubjectLimit <- QuerySubjectLimit,
    PublicLimit <- QueryPublicLimit,
    Versions <- QueryVersions,
    Nobody <- None,
    surface <- queriesSurface, source <- queriesSource, at <- queriesAt,
    caller <- queriesCaller, mode <- queriesMode, version <- queriesVersion,
    unit <- queriesUnit, ai <- queriesAi, cache <- queriesCache, storing <- queriesStoring,
    result <- queriesResult, billed <- queriesBilled

Notice == INSTANCE DiscordNotices WITH
    Destinations <- NoticeDestinations,
    Notices <- NoticeIds,
    Syncs <- NoticeSyncs,
    Releases <- NoticeReleases,
    Faults <- NoticeFaults,
    released <- noticesReleased, registered <- noticesRegistered, stored <- noticesStored,
    sync <- noticesSync, cut <- noticesCut, dest <- noticesDest, left <- noticesLeft,
    begun <- noticesBegun, secret <- noticesSecret, shown <- noticesShown,
    outbox <- noticesOutbox, faults <- noticesFaults

Upkeep == INSTANCE Maintenance WITH
    Exports <- UpkeepExports,
    KeyOf <- UpkeepKeyOf,
    Uploads <- UpkeepUploads,
    Faults <- UpkeepMaxFaults,
    export <- upkeepExport, job <- upkeepJob, object <- upkeepObject, row <- upkeepRow,
    old <- upkeepOld, torn <- upkeepTorn, archive <- upkeepArchive,
    artifact <- upkeepArtifact, upload <- upkeepUpload, inspection <- upkeepInspection,
    version <- upkeepVersion, overlapped <- upkeepOverlapped, retention <- upkeepRetention,
    faults <- upkeepFaults

Audit == INSTANCE AuditLedger WITH
    Events <- AuditEvents,
    None <- None,
    Late <- AuditLate,
    Retain <- AuditRetain,
    MaxDay <- AuditMaxDay,
    MaxFaults <- AuditMaxFaults,
    MaxResets <- AuditMaxResets,
    log <- auditLog, sequence <- auditSequence, erased <- auditErased,
    segs <- auditSegs, r2 <- auditR2, d1 <- auditD1, today <- auditToday,
    alarmAt <- auditAlarmAt, gate <- auditGate, pending <- auditPending, run <- auditRun,
    faults <- auditFaults, resets <- auditResets

Runtime == INSTANCE PluginRuntime WITH
    Tokens <- RuntimeTokens,
    Deliveries <- RuntimeDeliveries,
    TokenOf <- RuntimeTokenOf,
    Concurrency <- RuntimeConcurrency,
    TokenLife <- RuntimeTokenLife,
    ReserveLife <- RuntimeReserveLife,
    PurgeAfter <- RuntimePurgeAfter,
    MaxTime <- RuntimeMaxTime,
    now <- runtimeNow, expires <- runtimeExpires, active <- runtimeActive,
    consumed <- runtimeConsumed, held <- runtimeHeld, at <- runtimeAt,
    procs <- runtimeProcs, runs <- runtimeRuns, lost <- runtimeLost

Registry == INSTANCE ConversationRegistry WITH
    Conversations <- RegistryConversations,
    Creations <- RegistryCreations,
    Reads <- RegistryReads,
    Deletions <- RegistryDeletions,
    Memories <- RegistryMemories,
    Of <- RegistryOf,
    Keys <- RegistryKeys,
    KeyOf <- RegistryKeyOf,
    Values <- RegistryValues,
    ValueOf <- RegistryValueOf,
    Nothing <- None,
    NoRow <- None,
    HardLimit <- RegistryHardLimit,
    ObjectLimit <- RegistryObjectLimit,
    Scenes <- RegistryScenes,
    object <- registryObject, registry <- registryRow, at <- registryAt,
    seen <- registrySeen, answer <- registryAnswer, marked <- registryMarked,
    order <- registryOrder

ASSUME InstanceConstants ==
    /\ Settings!SettingsConstants
    /\ OAuth!ConnectionConstants
    /\ AgentQuery!QueryConstants
    /\ Notice!NoticeConstants
    /\ Upkeep!MaintenanceConstants
    /\ Audit!AuditConstants
    /\ Runtime!RuntimeConstants
    /\ Registry!RegistryConstants

-----------------------------------------------------------------------------

Parts ==
    {"owner", "settings", "oauth", "queries", "notices", "upkeep", "audit", "runtime",
     "registry"}

settingsVars ==
    <<settingsKind, settingsRow, settingsQuota, settingsAt, settingsPrev, settingsAnswer,
      settingsAudited, settingsLast>>

oauthVars ==
    <<oauthGatekeeper, oauthTx, oauthConn, oauthIssued, oauthLive, oauthCall, oauthRead,
      oauthLeaving, oauthCache, oauthListed, oauthExchanged, oauthLate>>

queriesVars ==
    <<queriesSurface, queriesSource, queriesAt, queriesCaller, queriesMode,
      queriesVersion, queriesUnit, queriesAi, queriesCache, queriesStoring, queriesResult,
      queriesBilled>>

noticesVars ==
    <<noticesReleased, noticesRegistered, noticesStored, noticesSync, noticesCut, noticesDest,
      noticesLeft, noticesBegun, noticesSecret, noticesShown, noticesOutbox,
      noticesFaults>>

upkeepVars ==
    <<upkeepExport, upkeepJob, upkeepObject, upkeepRow, upkeepOld, upkeepTorn,
      upkeepArchive, upkeepArtifact, upkeepUpload, upkeepInspection, upkeepVersion,
      upkeepOverlapped, upkeepRetention, upkeepFaults>>

auditVars ==
    <<auditLog, auditSequence, auditErased, auditSegs, auditR2, auditD1, auditToday,
      auditAlarmAt, auditGate, auditPending, auditRun, auditFaults, auditResets>>

runtimeVars ==
    <<runtimeNow, runtimeExpires, runtimeActive, runtimeConsumed, runtimeHeld, runtimeAt,
      runtimeProcs, runtimeRuns, runtimeLost>>

registryVars ==
    <<registryObject, registryRow, registryAt, registrySeen, registryAnswer,
      registryMarked, registryOrder>>

allVars ==
    <<part, vars, settingsVars, oauthVars, queriesVars, noticesVars, upkeepVars, auditVars,
      runtimeVars, registryVars>>

\* The instances with a choice of their own to begin with make it only when it is their turn.
HandlersInit ==
    /\ part \in Parts
    /\ settingsKind \in IF part = "settings" THEN Settings!Kinds ELSE {"budget"}
    /\ oauthGatekeeper \in IF part = "oauth" THEN OAuthGatekeepers ELSE {"google"}
    /\ queriesSurface \in IF part = "queries" THEN {"delegated", "public"} ELSE {"public"}
    /\ Init
    /\ Settings!Init
    /\ OAuth!Init
    /\ AgentQuery!Init
    /\ Notice!Init
    /\ Upkeep!Init
    /\ Audit!Init
    /\ Runtime!Init
    /\ IF part = "registry" THEN Registry!Init ELSE Registry!InitOf({})

Others(p) ==
    /\ IF p = "owner" THEN TRUE ELSE UNCHANGED vars
    /\ IF p = "settings" THEN TRUE ELSE UNCHANGED settingsVars
    /\ IF p = "oauth" THEN TRUE ELSE UNCHANGED oauthVars
    /\ IF p = "queries" THEN TRUE ELSE UNCHANGED queriesVars
    /\ IF p = "notices" THEN TRUE ELSE UNCHANGED noticesVars
    /\ IF p = "upkeep" THEN TRUE ELSE UNCHANGED upkeepVars
    /\ IF p = "audit" THEN TRUE ELSE UNCHANGED auditVars
    /\ IF p = "runtime" THEN TRUE ELSE UNCHANGED runtimeVars
    /\ IF p = "registry" THEN TRUE ELSE UNCHANGED registryVars

HandlersNext ==
    /\ UNCHANGED part /\ Others(part)
    /\ \/ part = "owner" /\ Next
       \/ part = "settings" /\ Settings!Next
       \/ part = "oauth" /\ OAuth!Next
       \/ part = "queries" /\ AgentQuery!Next
       \/ part = "notices" /\ Notice!Next
       \/ part = "upkeep" /\ Upkeep!Next
       \/ part = "audit" /\ Audit!Next
       \/ part = "runtime" /\ Runtime!Next
       \/ part = "registry" /\ Registry!Next

HandlersSpec == HandlersInit /\ [][HandlersNext]_allVars

-----------------------------------------------------------------------------
(***************************************************************************)
(* Properties of the instances: of each component its type, and what is    *)
(* stated one by one in its module.                                        *)
(***************************************************************************)

\* Settings: a budget that was answered with success is stored and enforced, a source
\* definition that is repeated makes one version, and the providers' last update, once it
\* is answered with success, survives the rollbacks of those before it.
SettingsStand ==
    part = "settings" =>
        /\ Settings!TypeOK
        /\ Settings!OkEnforced
        /\ Settings!OneVersionPerUpdate
        /\ Settings!LastUpdateStands

\* OAuth: a code is exchanged once, active connections have a credential and disconnected
\* ones none, no read that begins after a disconnection goes through, and a revoked
\* personal connection stays revoked, whatever callbacks and refreshes were under way.
ConnectionsHold ==
    /\ [](part = "oauth" =>
             OAuth!TypeOK /\ OAuth!ExchangedOnce /\ OAuth!CredentialFollowsStatus
             /\ OAuth!RevokedIsNotRead)
    /\ OAuth!RevokedStays

\* Queries of other agents: who is answered has paid a unit and who is not let in has not,
\* and no more are answered than the limits allow.
QueriesMetered == part = "queries" => AgentQuery!QueriesMetered

\* Discord: a synchronisation that is answered "unchanged" is right; what is in the outbox
\* was not shown, and no secret is.
NoticesTrue ==
    part = "notices" =>
        Notice!TypeOK /\ Notice!UnchangedIsRegistered /\ Notice!QueuedWasNotSent

\* Exports and retention: a repeated export is made once, one that succeeded can be
\* downloaded as a whole, no object that is still there is forgotten, and the archives
\* that are used or can be installed are kept.
UpkeepKeepsFiles ==
    part = "upkeep" =>
        /\ Upkeep!TypeOK
        /\ Upkeep!OneJobPerKey
        /\ Upkeep!SucceededIsComplete
        /\ Upkeep!ForgottenIsErased
        /\ Upkeep!InstallableHasArchive

\* Events that arrive a day late fork no chain, the rows of the segments describe their
\* events (of a segment that was closed on its own day the oldest ones), and a closed
\* segment whose day is over gains none.
LateEventsKept ==
    /\ [](part = "audit" => Audit!TypeOK /\ Audit!LogConsistent)
    /\ Audit!ClosedIsFrozen

\* Plugins: a token runs its plugin once, and no more invocations are under way at a time
\* than there are slots.
InvocationsBounded == part = "runtime" => Runtime!InvocationsBounded

\* Conversations: a deleted one is not listed again, a created one can be read and is
\* listed, and no repeated request takes a newer memory back.
ConversationsKept ==
    part = "registry" =>
        /\ Registry!TypeOK
        /\ Registry!DeletedIsNotListed
        /\ Registry!CreatedIsListed
        /\ Registry!NewestIsKept

=============================================================================
