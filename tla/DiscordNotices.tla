----------------------------- MODULE DiscordNotices -----------------------------
(***************************************************************************)
(* What the Discord gatekeeper sends of its own accord                     *)
(* (apps/discord-gatekeeper/src/index.ts): the command manifest after a    *)
(* release, and the notice of a pending approval to the destinations.      *)
(* Discord refuses, answers late or not at all; the worker dies.           *)
(*                                                                         *)
(* Releases are made and rolled back at any time, also while the owner has *)
(* one or more synchronisations under way.  A refusal of Discord is taken  *)
(* to mean that it did nothing, and a request that fails has had its       *)
(* effect by then or has none.                                             *)
(***************************************************************************)
EXTENDS Naturals, FiniteSets

CONSTANTS
    Destinations,   \* DM and guild channels
    Notices,        \* calls of deliver
    Syncs,          \* calls of syncCommands
    Releases,       \* bound of the versions of the manifest
    Faults          \* bound of the failures

NoticeConstants == Releases \in Nat \ {0} /\ Faults \in Nat

VARIABLES
    released,   \* the version of the manifest in the worker
    registered, \* the version Discord has
    stored,     \* the version of discord_command_manifests
    sync,       \* call |-> where syncCommands is, with the manifest of the worker it runs in
    cut,        \* history: Discord has taken a manifest whose digest was not stored next
    dest,       \* destination |-> none, revoked, or active with its display policy
    left,       \* notice |-> the destinations still to be served
    begun,      \* the notices whose delivery has begun
    secret,     \* the notices that are secret
    shown,      \* notice |-> what each destination was shown
    outbox,     \* the rows of discord_notification_outbox
    faults      \* how many faults there have been

vars == <<released, registered, stored, sync, cut, dest, left, begun, secret, shown, outbox,
          faults>>

manifest == <<released, registered, stored, sync, cut>>
delivery == <<left, begun, secret, shown, outbox>>

Active == {"metadata-only", "full-preview"}

Contents == {"nothing", "metadata", "preview"}

Fault == faults < Faults /\ faults' = faults + 1

-----------------------------------------------------------------------------
(***************************************************************************)
(* syncCommands.                                                           *)
(***************************************************************************)

Release(v) ==
    /\ released' = v
    /\ UNCHANGED <<registered, stored, sync, cut, dest, delivery, faults>>

\* The digest in the table is not that of the manifest; otherwise the answer is "unchanged".
Sync(s) ==
    /\ sync[s].at = "idle" /\ stored # released
    /\ sync' = [sync EXCEPT ![s] = [at |-> "put", version |-> released]]
    /\ cut' = (cut \/ \E t \in Syncs : sync[t].at # "idle" /\ sync[t].version # released)
    /\ UNCHANGED <<released, registered, stored, dest, delivery, faults>>

\* Mutant of Put: the digest is stored at once.
PutStored(s) ==
    /\ sync[s].at = "put"
    /\ stored' = sync[s].version
    /\ registered' \in {registered, sync[s].version}
    /\ sync' = [sync EXCEPT ![s].at = "store"]
    /\ UNCHANGED <<released, cut, dest, delivery, faults>>

Put(s) ==
    /\ sync[s].at = "put"
    /\ registered' = sync[s].version
    /\ sync' = [sync EXCEPT ![s].at = "store"]
    /\ UNCHANGED <<released, stored, cut, dest, delivery, faults>>

Store(s) ==
    /\ sync[s].at = "store"
    /\ stored' = sync[s].version
    /\ sync' = [sync EXCEPT ![s].at = "idle"]
    /\ UNCHANGED <<released, registered, cut, dest, delivery, faults>>

\* The request fails, with or without effect, or the worker dies before the digest is stored.
SyncFails(s) ==
    /\ sync[s].at # "idle"
    /\ \/ registered' = registered
       \/ sync[s].at = "put" /\ registered' = sync[s].version
    /\ cut' = (cut \/ sync[s].at = "store" \/ registered' # registered)
    /\ sync' = [sync EXCEPT ![s].at = "idle"]
    /\ Fault
    /\ UNCHANGED <<released, stored, dest, delivery>>

-----------------------------------------------------------------------------
(***************************************************************************)
(* createDmDestination, execute and revokeDestination.                     *)
(***************************************************************************)

\* A DM destination and a configured channel are active from now on; only the channel's
\* approval sets the policy.
Configure(d, p) ==
    /\ dest[d] # p
    /\ dest' = [dest EXCEPT ![d] = p]
    /\ UNCHANGED <<manifest, delivery, faults>>

Revoke(d) ==
    /\ dest[d] \in Active
    /\ dest' = [dest EXCEPT ![d] = "revoked"]
    /\ UNCHANGED <<manifest, delivery, faults>>

-----------------------------------------------------------------------------
(***************************************************************************)
(* deliver.                                                                *)
(***************************************************************************)

\* A secret is sent nowhere; otherwise the active destinations are read once, with their
\* policies.
Begin(n, isSecret) ==
    /\ n \notin begun
    /\ begun' = begun \cup {n}
    /\ secret' = IF isSecret THEN secret \cup {n} ELSE secret
    /\ left' = [left EXCEPT ![n] = IF isSecret THEN {}
                                   ELSE {<<d, dest[d]>> :
                                            d \in {e \in Destinations : dest[e] \in Active}}]
    /\ UNCHANGED <<manifest, dest, shown, outbox, faults>>

Content(p) == IF p = "full-preview" THEN "preview" ELSE "metadata"

Show(n, d, p) ==
    /\ left' = [left EXCEPT ![n] = @ \ {<<d, p>>}]
    /\ shown' = [shown EXCEPT ![n][d] = Content(p)]

Deliver(n, d, p) ==
    /\ <<d, p>> \in left[n]
    /\ Show(n, d, p)
    /\ UNCHANGED <<manifest, dest, begun, secret, outbox, faults>>

\* Discord refuses, or limits the rate: the message waits in the outbox, from which no code
\* takes it.
Queue(n, d, p) ==
    /\ <<d, p>> \in left[n]
    /\ left' = [left EXCEPT ![n] = @ \ {<<d, p>>}]
    /\ outbox' = outbox \cup {<<n, d>>}
    /\ Fault
    /\ UNCHANGED <<manifest, dest, begun, secret, shown>>

\* The request throws though the message was sent: it is not queued.  (Where it was not sent
\* the notice is lost, as in Die.)
Uncertain(n, d, p) ==
    /\ <<d, p>> \in left[n]
    /\ Show(n, d, p)
    /\ Fault
    /\ UNCHANGED <<manifest, dest, begun, secret, outbox>>

\* The worker dies: the destinations left get nothing.
Die(n) ==
    /\ left[n] # {}
    /\ left' = [left EXCEPT ![n] = {}]
    /\ Fault
    /\ UNCHANGED <<manifest, dest, begun, secret, shown, outbox>>

-----------------------------------------------------------------------------

Init ==
    /\ released = 1
    /\ registered = 0
    /\ stored = 0
    /\ sync = [s \in Syncs |-> [at |-> "idle", version |-> 0]]
    /\ cut = FALSE
    /\ dest = [d \in Destinations |-> "none"]
    /\ left = [n \in Notices |-> {}]
    /\ begun = {}
    /\ secret = {}
    /\ shown = [n \in Notices |-> [d \in Destinations |-> "nothing"]]
    /\ outbox = {}
    /\ faults = 0

Manifest ==
    \/ \E v \in (1 .. Releases) \ {released} : Release(v)
    \/ \E s \in Syncs : Sync(s) \/ Put(s) \/ Store(s) \/ SyncFails(s)

Notification ==
    \E n \in Notices :
        \/ \E isSecret \in BOOLEAN : Begin(n, isSecret)
        \/ \E d \in Destinations, p \in Active :
             Deliver(n, d, p) \/ Queue(n, d, p) \/ Uncertain(n, d, p)
        \/ Die(n)

Next ==
    \/ Manifest
    \/ \E d \in Destinations : Revoke(d) \/ \E p \in Active : Configure(d, p)
    \/ Notification

Spec == Init /\ [][Next]_vars

-----------------------------------------------------------------------------
(***************************************************************************)
(* Properties.                                                             *)
(***************************************************************************)

\* Also: a destination still to be served was shown nothing.
TypeOK ==
    /\ {released, registered, stored} \subseteq 0 .. Releases
    /\ sync \in [Syncs -> [at : {"idle", "put", "store"}, version : 0 .. Releases]]
    /\ cut \in BOOLEAN
    /\ dest \in [Destinations -> {"none", "revoked"} \cup Active]
    /\ left \in [Notices -> SUBSET (Destinations \X Active)]
    /\ \A n \in Notices, d \in Destinations, p \in Active :
         <<d, p>> \in left[n] => shown[n][d] = "nothing"
    /\ begun \subseteq Notices /\ secret \subseteq begun
    /\ shown \in [Notices -> [Destinations -> Contents]]
    /\ outbox \subseteq Notices \X Destinations

\* The synchronisation that answers "unchanged" is right whatever is released and rolled
\* back, if no other is about to store its digest, and as long as no digest was lost after
\* Discord had taken its manifest and no two manifests were synchronised at once.  (Where one
\* was, the answer may be wrong once the release is rolled back.)
UnchangedIsRegistered ==
    ~cut /\ stored = released /\ (\A s \in Syncs : sync[s].at # "store") => registered = released

\* A message in the outbox has not reached its channel, and no secret reaches one.
QueuedWasNotSent ==
    /\ \A n \in Notices, d \in Destinations : <<n, d>> \in outbox => shown[n][d] = "nothing"
    /\ \A n \in secret, d \in Destinations : shown[n][d] = "nothing"

=============================================================================
