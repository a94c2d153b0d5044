--------------------------- MODULE PluginLifecycle ---------------------------
(***************************************************************************)
(* The tables of dynamic plugins in the control worker                     *)
(* (apps/policy-control-worker/src/index.ts): installations, their         *)
(* versions and the approvals that grant capabilities.  The owner installs *)
(* a plugin, adds versions, decides what they may do, rolls back, enables, *)
(* disables and removes.  A handler's D1 statements are awaits of their    *)
(* own unless they are one batch, so handlers interleave between them, and *)
(* any of them may die.                                                    *)
(*                                                                         *)
(* A version and an installation are named by the request that made them.  *)
(* Audit events follow the writes of every handler and undo nothing, so    *)
(* that only the one between a decision and its grant is modelled.         *)
(***************************************************************************)
EXTENDS Naturals

CONSTANTS
    Requests,       \* the owner's requests
    Keys,           \* idempotency keys of installs
    Capabilities,   \* capability ids a manifest may request
    None            \* no row, no version

VARIABLES
    inst,       \* plugin_installations
    version,    \* plugin_versions
    approval,   \* version |-> its row of approvals, for plugin.capabilities.grant
    at,         \* where each request's handler is
    job,        \* what each handler has read
    consented   \* history: the versions the owner approved, on the record

vars == <<inst, version, approval, at, job, consented>>

Installation ==
    [status : {"active", "disabled", "removed"}, granted : SUBSET Capabilities,
     active : Requests \cup {None}, key : Keys]

Version ==
    [inst : Requests, caps : SUBSET Capabilities,
     status : {"pending-approval", "active", "superseded", "revoked"}]

\* on is the installation or the version the request names; free, that it needs no grant.
Job == [on : Requests \cup {None}, caps : SUBSET Capabilities, free : BOOLEAN,
        key : Keys \cup {None}]

Places == {"start", "install", "insert", "supersede", "request", "pending", "grant",
           "rollback", "revoke", "done"}

Installed == {i \in Requests : inst[i] # None}

Made == {v \in Requests : version[v] # None}

Kept == {i \in Installed : inst[i].status # "removed"}

PluginConstants ==
    /\ None \notin Requests \cup Keys
    /\ None \notin Installation /\ None \notin Version

-----------------------------------------------------------------------------

\* Requests are alike: the next one takes the next name.
Starts(r) == at[r] = "start" /\ r = CHOOSE q \in Requests : at[q] = "start"

Goto(r, p) == at' = [at EXCEPT ![r] = p]

Reads(r, p, on, caps, free, key) ==
    /\ Goto(r, p)
    /\ job' = [job EXCEPT ![r] = [on |-> on, caps |-> caps, free |-> free, key |-> key]]
    /\ UNCHANGED <<inst, version, approval, consented>>

Answers(r) == Goto(r, "done") /\ UNCHANGED <<inst, version, approval, job, consented>>

Uses(k) == \E i \in Installed : inst[i].key = k

\* installPlugin, up to the search for an installation under the same key.
Install(r) ==
    /\ Starts(r)
    /\ \E k \in Keys, caps \in SUBSET Capabilities :
          IF Uses(k) THEN Answers(r) ELSE Reads(r, "install", None, caps, caps = {}, k)

NewInstallation(r) ==
    [status |-> IF job[r].free THEN "active" ELSE "disabled", granted |-> {},
     active |-> IF job[r].free THEN r ELSE None, key |-> job[r].key]

NewVersion(r, i) ==
    [inst |-> i, caps |-> job[r].caps,
     status |-> IF job[r].free THEN "active" ELSE "pending-approval"]

\* The batch of both rows; the unique index on the key fails it as a whole.
InstallRows(r) ==
    /\ at[r] = "install"
    /\ IF Uses(job[r].key) THEN Answers(r)
       ELSE /\ inst' = [inst EXCEPT ![r] = NewInstallation(r)]
            /\ version' = [version EXCEPT ![r] = NewVersion(r, r)]
            /\ Goto(r, IF job[r].free THEN "done" ELSE "request")
            /\ UNCHANGED <<approval, job, consented>>

\* The INSERT INTO approvals of installPlugin and addPluginVersion.
RequestApproval(r) ==
    /\ at[r] = "request"
    /\ approval' = [approval EXCEPT ![r] = "pending"]
    /\ Goto(r, "done")
    /\ UNCHANGED <<inst, version, job, consented>>

\* addPluginVersion, up to the comparison with what is granted.
AddVersion(r) ==
    /\ Starts(r)
    /\ \E i \in Kept, caps \in SUBSET Capabilities :
          Reads(r, "insert", i, caps, caps \subseteq inst[i].granted, None)

InsertVersion(r) ==
    /\ at[r] = "insert"
    /\ version' = [version EXCEPT ![r] = NewVersion(r, job[r].on)]
    /\ Goto(r, IF job[r].free THEN "supersede" ELSE "request")
    /\ UNCHANGED <<inst, approval, job, consented>>

\* The other versions of i that are active.
Superseded(i, v) ==
    [w \in Requests |->
        IF w # v /\ w \in Made /\ version[w].inst = i /\ version[w].status = "active"
        THEN [version[w] EXCEPT !.status = "superseded"] ELSE version[w]]

\* The batch of addPluginVersion; it does not ask whether the plugin was removed.
Supersede(r) ==
    /\ at[r] = "supersede"
    /\ version' = Superseded(job[r].on, r)
    /\ inst' = [inst EXCEPT ![job[r].on].active = r]
    /\ Goto(r, "done")
    /\ UNCHANGED <<approval, job, consented>>

\* decideApproval: the guarded UPDATE and the audit event, without which nothing is granted.
Decide(r) ==
    /\ Starts(r)
    /\ \E v \in Requests, decision \in {"approved", "rejected"} :
          /\ approval[v] = "pending"
          /\ approval' = [approval EXCEPT ![v] = decision]
          /\ \E audited \in BOOLEAN :
                IF audited /\ decision = "approved"
                THEN consented' = consented \cup {v} /\ Goto(r, "pending")
                ELSE UNCHANGED consented /\ Goto(r, "done")
          /\ job' = [job EXCEPT ![r].on = v]
    /\ UNCHANGED <<inst, version>>

\* The SELECT of the pending version; a removal has revoked it.
FindPending(r) ==
    /\ at[r] = "pending"
    /\ Goto(r, IF version[job[r].on].status = "pending-approval" THEN "grant" ELSE "done")
    /\ UNCHANGED <<inst, version, approval, job, consented>>

\* Mutant of Activated: without status != 'removed'.
ActivatedAnyway(v) ==
    /\ version' = [Superseded(version[v].inst, v) EXCEPT ![v].status = "active"]
    /\ inst' = [inst EXCEPT ![version[v].inst] =
                   [@ EXCEPT !.status = "active", !.granted = version[v].caps, !.active = v]]

\* The batch of a grant and of a rollback: v is active whatever it was, and the
\* installation unless it was removed.
Activated(v) ==
    LET i == version[v].inst
    IN  /\ version' = [Superseded(i, v) EXCEPT ![v].status = "active"]
        /\ inst' = IF i \in Kept
                   THEN [inst EXCEPT ![i] =
                            [@ EXCEPT !.status = "active", !.granted = version[v].caps,
                                      !.active = v]]
                   ELSE inst

Grant(r) ==
    /\ at[r] = "grant"
    /\ Activated(job[r].on)
    /\ Goto(r, "done")
    /\ UNCHANGED <<approval, job, consented>>

\* rollbackPlugin, up to the SELECT of its target.
FindTarget(r) ==
    /\ Starts(r)
    /\ \E v \in Made :
          /\ version[v].status \in {"active", "superseded"}
          /\ Reads(r, "rollback", v, {}, FALSE, None)

RollBack(r) ==
    /\ at[r] = "rollback"
    /\ Activated(job[r].on)
    /\ Goto(r, "done")
    /\ UNCHANGED <<approval, job, consented>>

\* mutatePlugin, PATCH: it does not ask whether a version was approved.
SetEnabled(r) ==
    /\ Starts(r)
    /\ \E i \in Kept, status \in {"active", "disabled"} :
          inst' = [inst EXCEPT ![i].status = status]
    /\ Goto(r, "done")
    /\ UNCHANGED <<version, approval, job, consented>>

\* mutatePlugin, DELETE: two statements, not one batch.
Remove(r) ==
    /\ Starts(r)
    /\ \E i \in Installed :
          /\ inst' = [inst EXCEPT ![i].status = "removed"]
          /\ job' = [job EXCEPT ![r].on = i]
    /\ Goto(r, "revoke")
    /\ UNCHANGED <<version, approval, consented>>

Revoke(r) ==
    /\ at[r] = "revoke"
    /\ version' = [v \in Requests |->
                      IF v \in Made /\ version[v].inst = job[r].on
                      THEN [version[v] EXCEPT !.status = "revoked"] ELSE version[v]]
    /\ Goto(r, "done")
    /\ UNCHANGED <<inst, approval, job, consented>>

\* A statement throws or the Worker dies.
Crash(r) == at[r] \notin {"start", "done"} /\ Answers(r)

-----------------------------------------------------------------------------

Init ==
    /\ inst = [r \in Requests |-> None]
    /\ version = [r \in Requests |-> None]
    /\ approval = [r \in Requests |-> "none"]
    /\ at = [r \in Requests |-> "start"]
    /\ job = [r \in Requests |-> [on |-> None, caps |-> {}, free |-> FALSE, key |-> None]]
    /\ consented = {}

Next ==
    \E r \in Requests :
        \/ Install(r) \/ InstallRows(r) \/ RequestApproval(r)
        \/ AddVersion(r) \/ InsertVersion(r) \/ Supersede(r)
        \/ Decide(r) \/ FindPending(r) \/ Grant(r)
        \/ FindTarget(r) \/ RollBack(r)
        \/ SetEnabled(r) \/ Remove(r) \/ Revoke(r) \/ Crash(r)

Spec == Init /\ [][Next]_vars

-----------------------------------------------------------------------------
(***************************************************************************)
(* Properties.                                                             *)
(***************************************************************************)

\* Rows have the values of their columns, and every version an installation.
TypeOK ==
    /\ inst \in [Requests -> Installation \cup {None}]
    /\ version \in [Requests -> Version \cup {None}]
    /\ \A v \in Made : version[v].inst \in Installed
    /\ approval \in [Requests -> {"none", "pending", "approved", "rejected"}]
    /\ at \in [Requests -> Places]
    /\ job \in [Requests -> Job]
    /\ consented \subseteq Made

\* A plugin holds a capability only if the owner approved, on the record, a version of
\* this plugin that asked for it: neither an update compared with stale grants nor a
\* rollback to an old version adds one.
GrantedWasApproved ==
    \A i \in Installed :
        inst[i].granted \subseteq
            UNION {version[v].caps : v \in {w \in consented : version[w].inst = i}}

\* A version that had to ask is active, or was, only after an approval on the record.
ActiveWasApproved ==
    \A v \in Made :
        version[v].status \in {"active", "superseded"} /\ approval[v] # "none"
        => v \in consented

\* Whatever handlers were under way, a removed plugin is never invocable again.
RemovedStaysRemoved ==
    [][\A i \in Installed : i \notin Kept => inst'[i].status = "removed"]_vars

\* An install that is sent again, also at once, makes one installation.
OneInstallationPerKey ==
    \A i, j \in Installed : inst[i].key = inst[j].key => i = j

=============================================================================
