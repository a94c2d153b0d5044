--------------------------- MODULE MCFairHandlers ---------------------------
(***************************************************************************)
(* The components that promise something will happen, each on a small      *)
(* instance and under its own fairness: the audit ledger, whose events     *)
(* arrive on their day here, the bridge to Discord's gateway, the commands *)
(* of Discord users, and the slots of the plugin runtime.  They share no   *)
(* variable: a behaviour is one of one of them ("part"), the others stay   *)
(* as they begin.                                                          *)
(***************************************************************************)
EXTENDS MCAuditLedger

VARIABLES
    part, gatewayWritten, gatewayKind, gatewayExists, gatewayCurrent, gatewayOpened,
    gatewayCursor, gatewaySession, gatewayFile, gatewaySocket, gatewayChannels,
    gatewayGreet, gatewayAt, gatewayFrom, gatewayWire, gatewaySeen, gatewayHandled,
    gatewayReplied, gatewayFaults, gatewaySpared, gatewayRaced, linksCode, linksLink,
    linksDest, linksPolicy, linksAsked, linksInter, linksAt, linksPending, linksClaimed,
    linksFaults, linksUses, linksActed, linksWas, runtimeNow, runtimeExpires,
    runtimeActive, runtimeConsumed, runtimeHeld, runtimeAt, runtimeProcs, runtimeRuns,
    runtimeLost

\* Everyone links with one code, and one user asks the agent.
LinkJobs ==
    [user : {"u1", "u2"}, kind : {"link"}, where : {"dm"}, code : {"c1"}]
    \cup [user : {"u1"}, kind : {"agent"}, where : {"dm"}, code : {"c1"}]

RuntimeTokenOf == ("d1" :> "t1") @@ ("d2" :> "t2")

\* Two events (messages, the channel created or deleted), a session and the one after it.
Gateway == INSTANCE DiscordGateway WITH
    Events <- 2,
    Sessions <- 2,
    Faults <- 1,
    Undefined <- None,
    written <- gatewayWritten, kind <- gatewayKind, exists <- gatewayExists,
    current <- gatewayCurrent, opened <- gatewayOpened, cursor <- gatewayCursor,
    session <- gatewaySession, file <- gatewayFile, socket <- gatewaySocket,
    channels <- gatewayChannels, greet <- gatewayGreet, at <- gatewayAt,
    from <- gatewayFrom, wire <- gatewayWire, seen <- gatewaySeen,
    handled <- gatewayHandled, replied <- gatewayReplied, faults <- gatewayFaults,
    spared <- gatewaySpared, raced <- gatewayRaced

Links == INSTANCE DiscordLinks WITH
    Interactions <- {"i1", "i2"},
    Users <- {"u1", "u2"},
    Codes <- {"c1"},
    Jobs <- LinkJobs,
    Faults <- 1,
    Guild <- "guild",
    Nobody <- None,
    code <- linksCode, link <- linksLink, dest <- linksDest, policy <- linksPolicy,
    asked <- linksAsked, inter <- linksInter, at <- linksAt, pending <- linksPending,
    claimed <- linksClaimed, faults <- linksFaults, uses <- linksUses, acted <- linksActed,
    was <- linksWas

Runtime == INSTANCE PluginRuntime WITH
    Tokens <- {"t1", "t2"},
    Deliveries <- {"d1", "d2"},
    TokenOf <- RuntimeTokenOf,
    Concurrency <- 1,
    TokenLife <- 1,
    ReserveLife <- 2,
    PurgeAfter <- 2,
    MaxTime <- 3,
    now <- runtimeNow, expires <- runtimeExpires, active <- runtimeActive,
    consumed <- runtimeConsumed, held <- runtimeHeld, at <- runtimeAt,
    procs <- runtimeProcs, runs <- runtimeRuns, lost <- runtimeLost

gatewayVars ==
    <<gatewayWritten, gatewayKind, gatewayExists, gatewayCurrent, gatewayOpened,
      gatewayCursor, gatewaySession, gatewayFile, gatewaySocket, gatewayChannels,
      gatewayGreet, gatewayAt, gatewayFrom, gatewayWire, gatewaySeen, gatewayHandled,
      gatewayReplied, gatewayFaults, gatewaySpared, gatewayRaced>>

linksVars ==
    <<linksCode, linksLink, linksDest, linksPolicy, linksAsked, linksInter, linksAt,
      linksPending, linksClaimed, linksFaults, linksUses, linksActed, linksWas>>

runtimeVars ==
    <<runtimeNow, runtimeExpires, runtimeActive, runtimeConsumed, runtimeHeld, runtimeAt,
      runtimeProcs, runtimeRuns, runtimeLost>>

allVars == <<part, vars, gatewayVars, linksVars, runtimeVars>>

ASSUME InstanceConstants ==
    /\ Gateway!GatewayConstants
    /\ Links!LinkConstants
    /\ Runtime!RuntimeConstants

-----------------------------------------------------------------------------

Parts == {"audit", "gateway", "links", "runtime"}

\* In Discord there is no link to begin with.  (What else Init leaves open in one component
\* is fixed while another one runs.)
FairInit ==
    /\ part \in Parts
    /\ Init
    /\ Gateway!Init
    /\ part # "gateway" => gatewayExists
    /\ Links!Init
    /\ linksLink.user = None
    /\ Runtime!Init

Others(p) ==
    /\ IF p = "audit" THEN TRUE ELSE UNCHANGED vars
    /\ IF p = "gateway" THEN TRUE ELSE UNCHANGED gatewayVars
    /\ IF p = "links" THEN TRUE ELSE UNCHANGED linksVars
    /\ IF p = "runtime" THEN TRUE ELSE UNCHANGED runtimeVars

FairNext ==
    /\ UNCHANGED part /\ Others(part)
    /\ \/ part = "audit" /\ Next
       \/ part = "gateway" /\ Gateway!Next
       \/ part = "links" /\ Links!Next
       \/ part = "runtime" /\ Runtime!Next

\* What each module calls Fairness, of the one component that runs.
AuditFairness ==
    /\ WF_vars(part = "audit" /\ AppendStep)
    /\ WF_vars(part = "audit" /\ CloserStep("request"))
    /\ SF_vars(part = "audit" /\ StartAlarm)
    /\ SF_vars(part = "audit" /\ CloserStep("alarm"))
    /\ WF_vars(part = "audit" /\ Tick)

GatewayFairness ==
    /\ WF_gatewayVars(part = "gateway" /\ Gateway!Bridge)
    /\ \A n \in 1..2 : WF_gatewayVars(part = "gateway" /\ Gateway!Forward(n))
    /\ \A s \in 1..2 : WF_gatewayVars(part = "gateway" /\ Gateway!Greet(s))

LinksFairness ==
    \A i \in {"i1", "i2"} : WF_linksVars(part = "links" /\ Links!Handle(i))

RuntimeFairness ==
    \A d \in {"d1", "d2"} : WF_runtimeVars(part = "runtime" /\ Runtime!Handle(d))

FairHandlersSpec ==
    /\ FairInit /\ [][FairNext]_allVars
    /\ AuditFairness /\ GatewayFairness /\ LinksFairness /\ RuntimeFairness

-----------------------------------------------------------------------------
(***************************************************************************)
(* Properties of the instances: of each component its type, and what is    *)
(* stated one by one in its module.                                        *)
(***************************************************************************)

\* The bridge: the agent is asked about a message once, whatever Discord sends again, and
\* connections that drop and resume lose no message, except one that was received while
\* news of its channel was being saved.
MessagesForwarded ==
    /\ [](part = "gateway" => Gateway!TypeOK /\ Gateway!AskedOnce)
    /\ Gateway!ReconnectsLoseNothing

\* An interaction the adapter accepted is answered in the end, and a plugin's slot is given
\* back, unless a reply was lost or a Worker died.
AcceptedWorkEnds ==
    /\ [](part = "links" => Links!TypeOK)
    /\ [](part = "runtime" => Runtime!TypeOK)
    /\ Links!AcceptedIsAnswered
    /\ Runtime!SlotsReturned

=============================================================================
