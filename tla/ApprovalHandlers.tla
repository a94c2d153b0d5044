-------------------------- MODULE ApprovalHandlers --------------------------
(***************************************************************************)
(* What the owner has to approve or to allow, each an instance of its      *)
(* module: writes to a provider (ApprovalFlow), the versions and           *)
(* capabilities of plugins, the results a cloud model may be given, and    *)
(* the commands of Discord users.  They share no variable, so a behaviour  *)
(* is one of one of them, and the others stay as they begin: "part" says   *)
(* which.                                                                  *)
(***************************************************************************)
EXTENDS ApprovalFlow

CONSTANTS
    None, PluginRequests, PluginKeys, PluginCapabilities, TransferRequests, TransferKeyOf,
    TransferKeys, TransferResults, TransferOriginal, LinkInteractions, LinkUsers, LinkCodes,
    LinkJobs, LinkFaults, LinkGuild

VARIABLES
    part,
    pluginsInst, pluginsVersion, pluginsApproval, pluginsAt, pluginsJob, pluginsConsented,
    transferApproval, transferDecidedBy, transferResult, transferExecution, transferAi,
    transferSent, transferAnswer, transferAt, transferAbout, transferNew, linksCode,
    linksLink, linksDest, linksPolicy, linksAsked, linksInter, linksAt, linksPending,
    linksClaimed, linksFaults, linksUses, linksActed, linksWas

Plugins == INSTANCE PluginLifecycle WITH
    Requests <- PluginRequests,
    Keys <- PluginKeys,
    Capabilities <- PluginCapabilities,
    None <- None,
    inst <- pluginsInst, version <- pluginsVersion, approval <- pluginsApproval,
    at <- pluginsAt, job <- pluginsJob, consented <- pluginsConsented

Sharing == INSTANCE ConnectorTransfer WITH
    Requests <- TransferRequests,
    KeyOf <- TransferKeyOf,
    Keys <- TransferKeys,
    Results <- TransferResults,
    Original <- TransferOriginal,
    None <- None,
    approval <- transferApproval, decidedBy <- transferDecidedBy, result <- transferResult,
    execution <- transferExecution, ai <- transferAi, sent <- transferSent,
    answer <- transferAnswer, at <- transferAt, about <- transferAbout, new <- transferNew

Links == INSTANCE DiscordLinks WITH
    Interactions <- LinkInteractions,
    Users <- LinkUsers,
    Codes <- LinkCodes,
    Jobs <- LinkJobs,
    Faults <- LinkFaults,
    Guild <- LinkGuild,
    Nobody <- None,
    code <- linksCode, link <- linksLink, dest <- linksDest, policy <- linksPolicy,
    asked <- linksAsked, inter <- linksInter, at <- linksAt, pending <- linksPending,
    claimed <- linksClaimed, faults <- linksFaults, uses <- linksUses,
    acted <- linksActed, was <- linksWas

ASSUME InstanceConstants ==
    /\ Plugins!PluginConstants
    /\ Sharing!TransferConstants
    /\ Links!LinkConstants

-----------------------------------------------------------------------------

pluginsVars ==
    <<pluginsInst, pluginsVersion, pluginsApproval, pluginsAt, pluginsJob,
      pluginsConsented>>

transferVars ==
    <<transferApproval, transferDecidedBy, transferResult, transferExecution, transferAi,
      transferSent, transferAnswer, transferAt, transferAbout, transferNew>>

linksVars ==
    <<linksCode, linksLink, linksDest, linksPolicy, linksAsked, linksInter, linksAt,
      linksPending, linksClaimed, linksFaults, linksUses, linksActed, linksWas>>

allVars == <<part, vars, pluginsVars, transferVars, linksVars>>

\* In Discord there may be a link to begin with.
HandlersInit ==
    /\ part \in {"approval", "plugins", "transfer", "links"}
    /\ Init
    /\ Plugins!Init
    /\ Sharing!Init
    /\ Links!Init
    /\ linksLink.user \in IF part = "links" THEN LinkUsers \cup {None} ELSE {None}

Others(p) ==
    /\ IF p = "approval" THEN TRUE ELSE UNCHANGED vars
    /\ IF p = "plugins" THEN TRUE ELSE UNCHANGED pluginsVars
    /\ IF p = "transfer" THEN TRUE ELSE UNCHANGED transferVars
    /\ IF p = "links" THEN TRUE ELSE UNCHANGED linksVars

HandlersNext ==
    /\ UNCHANGED part /\ Others(part)
    /\ \/ part = "approval" /\ Next
       \/ part = "plugins" /\ Plugins!Next
       \/ part = "transfer" /\ Sharing!Next
       \/ part = "links" /\ Links!Next

HandlersSpec == HandlersInit /\ [][HandlersNext]_allVars

-----------------------------------------------------------------------------
(***************************************************************************)
(* Properties of the instances: of each component its type, and what is    *)
(* stated one by one in its module.                                        *)
(***************************************************************************)

\* Plugins: a version that had to ask is active only with an approval on the record, a
\* plugin has the capabilities the owner approved for it and no others, an install that is
\* repeated makes one installation, and a removed plugin is never invocable again.
PluginsAsApproved ==
    /\ [](part = "plugins" =>
             Plugins!TypeOK /\ Plugins!ActiveWasApproved /\ Plugins!GrantedWasApproved
             /\ Plugins!OneInstallationPerKey)
    /\ Plugins!RemovedStaysRemoved

\* Transfers: a cloud model is given approved results only, the recorded outcome is what
\* happened, and one question has one open transfer.
TransfersAsApproved ==
    part = "transfer" =>
        /\ Sharing!TypeOK
        /\ Sharing!SentWasApproved
        /\ Sharing!RecordedTruly
        /\ Sharing!OneOpenTransfer

\* Discord: a code makes one link, an interaction has its effect once, and has one only
\* for a linked user, in a channel the owner approved.
CommandsAsAllowed ==
    part = "links" =>
        Links!TypeOK /\ Links!CodeUsedOnce /\ Links!ActsOnce /\ Links!ActedWasAllowed

=============================================================================
