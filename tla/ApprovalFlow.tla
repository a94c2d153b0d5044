---------------------------- MODULE ApprovalFlow ----------------------------
(***************************************************************************)
(* The life of an approval, across four workers.                           *)
(*                                                                         *)
(* The control worker (apps/policy-control-worker) keeps the approvals     *)
(* table, audits, and issues a signed execution lease with a positive      *)
(* decision.  The assistant (apps/assistant-worker) asks for approvals,    *)
(* forwards the owner's decisions, presents the lease to a gatekeeper,     *)
(* records the outcome, and forwards the owner's reconciliation of an      *)
(* unknown one.  The gatekeepers (google, github, discord) verify the      *)
(* lease, consume its nonce and call the provider.  A transfer of          *)
(* connector results to the model ("model") is executed by the assistant   *)
(* itself and the grant of a plugin's capabilities ("plugin") by the       *)
(* control worker; for these the lease is not presented to anyone.         *)
(*                                                                         *)
(* A request is one POST of a decision by the owner, from the web or from  *)
(* Discord.  Every call between workers and to D1 is a step; replies get   *)
(* lost and handlers die between steps.  Only a positive decision issues a *)
(* lease, so a lease is named by the request it was issued to.             *)
(***************************************************************************)
EXTENDS Integers, FiniteSets

CONSTANTS
    Approvals,       \* approval ids
    Kinds,           \* of "provider" (google, github), "discord", "model", "plugin"
    Requests,        \* the owner's decision requests
    Subject,         \* request |-> the approval it decides
    Deliveries,      \* how often one call to a gatekeeper may be delivered
    ApprovalTTL,     \* life of an undecided approval (15 minutes)
    LeaseTTL,        \* life of an execution lease (300 seconds)
    MaxTime          \* bound of the clock

ASSUME ApprovalConstants ==
    /\ Kinds \subseteq {"provider", "discord", "model", "plugin"}
    /\ Subject \in [Requests -> Approvals]
    /\ Deliveries \in Nat \ {0}
    /\ ApprovalTTL \in Nat
    /\ LeaseTTL \in Nat
    /\ MaxTime \in Nat

VARIABLES
    status,      \* approvals.status; "none" before the row exists
    exec,        \* approvals.execution_status
    asked,       \* approvals.created_at
    kind,        \* approvals.capability_id, as far as its handling differs
    ledger,      \* events in the audit ledger: <<approval, event type>>
    results,     \* approvals whose connector result is stored in the conversation
    at,          \* where each request's handler is
    says,        \* the decision in each request
    lease,       \* when the lease in a request's hands was issued
    got,         \* the outcome a request has learned
    nonces,      \* execution_nonces: the leases consumed
    call,        \* where each delivery of a gatekeeper call is
    registered,  \* approvals whose Discord destination was written
    written,     \* history: effects made, per approval
    now

row == <<status, exec, asked, kind>>
handler == <<at, says, lease, got>>
gatekeeper == <<nonces, call, registered>>
vars == <<row, ledger, results, handler, gatekeeper, written, now>>

Decisions == {"approved", "rejected"}

Outcomes == {"succeeded", "failed", "unknown"}

\* The event types of an approval, each carrying its decision or outcome.
Events == {"created", "reconciled"} \cup Decisions \cup Outcomes

Places == {"idle", "deciding", "decided", "leased", "granting", "dropping", "calling",
           "consumed", "answered", "done"}

\* The replies of a gatekeeper call: its own, and "threw" for an exception in it, which
\* reaches the caller as a failed fetch.
Replies == {"ok", "refused", "uncertain", "replay", "denied", "threw"}

Stages == {"none", "arrived", "claimed", "sent", "applied"} \cup Replies

Calls == Requests \X (1 .. Deliveries)

-----------------------------------------------------------------------------

Goto(r, p) == at' = [at EXCEPT ![r] = p]

Stage(c, s) == call' = [call EXCEPT ![c] = s]

Appended(a, e) == ledger' = ledger \cup {<<a, e>>}

\* The effect of an approval: the write of the provider, the transfer, the grant.
Write(a) == written' = [written EXCEPT ![a] = @ + 1]

\* The call to the audit ledger may fail; the handlers answer 503 then and keep the row.
MaybeAppended(a, e) == Appended(a, e) \/ UNCHANGED ledger

Lapsed(a) == asked[a] + ApprovalTTL <= now

\* createApproval: the row first, the event afterwards.
Create(a, k) ==
    /\ status[a] = "none"
    /\ kind' = [kind EXCEPT ![a] = k]
    /\ status' = [status EXCEPT ![a] = "pending"]
    /\ asked' = [asked EXCEPT ![a] = now]
    /\ results' = IF k = "model" THEN results \cup {a} ELSE results
    /\ MaybeAppended(a, "created")
    /\ UNCHANGED <<exec, handler, gatekeeper, written, now>>

-----------------------------------------------------------------------------
(* decideApproval                                                          *)

\* Mutant of Decidable: the expiry is not looked at.
DecidableForever(a) == status[a] = "pending"

Decidable(a) == status[a] = "pending" /\ ~Lapsed(a)

\* The SELECT.  A row already decided answers 409, or, when the key is the same, replays
\* the decision without a lease, and the request ends there.
Read(r, d) ==
    LET a == Subject[r] IN
    /\ at[r] = "idle"
    /\ status[a] # "none"
    /\ Goto(r, IF Decidable(a) THEN "deciding" ELSE "done")
    /\ says' = [says EXCEPT ![r] = d]
    /\ UNCHANGED <<row, ledger, results, lease, got, gatekeeper, written, now>>

\* Only the replay of a rejected transfer goes on: it carries the request, with which the
\* stored result is dropped again.
Replay(r) ==
    LET a == Subject[r] IN
    /\ at[r] = "idle"
    /\ kind[a] = "model"
    /\ status[a] = "rejected"
    /\ Goto(r, "dropping")
    /\ says' = [says EXCEPT ![r] = "rejected"]
    /\ UNCHANGED <<row, ledger, results, lease, got, gatekeeper, written, now>>

Undecided(a) == status[a] = "pending"

\* The UPDATE, guarded by the status but not by the expiry.
Decide(r) ==
    LET a == Subject[r] IN
    /\ at[r] = "deciding"
    /\ IF Undecided(a)
       THEN /\ status' = [status EXCEPT ![a] = says[r]]
            /\ exec' = [exec EXCEPT ![a] = IF says[r] = "approved" THEN "pending" ELSE "none"]
            /\ Goto(r, "decided")
       ELSE Goto(r, "done") /\ UNCHANGED <<status, exec>>
    /\ UNCHANGED <<asked, kind, ledger, results, says, lease, got, gatekeeper, written, now>>

\* What follows a decision.
After(r) ==
    LET k == kind[Subject[r]] IN
    IF says[r] = "rejected" THEN IF k = "model" THEN "dropping" ELSE "done"
    ELSE IF k = "plugin" THEN "granting" ELSE "leased"

\* Mutant of AuditUnavailable: the decision takes effect although it is not audited.
AuditUnavailableGoesOn(r) ==
    /\ at[r] = "decided"
    /\ Goto(r, After(r))
    /\ lease' = [lease EXCEPT ![r] = now]
    /\ UNCHANGED <<row, ledger, results, says, got, gatekeeper, written, now>>

\* The event is not appended: 503, and no lease is issued now or later.
AuditUnavailable(r) ==
    /\ at[r] = "decided"
    /\ Goto(r, "done")
    /\ UNCHANGED <<row, ledger, results, says, lease, got, gatekeeper, written, now>>

\* The event is appended; a positive decision continues, with a lease.
AuditDecision(r) ==
    /\ at[r] = "decided"
    /\ Appended(Subject[r], says[r])
    /\ Goto(r, After(r))
    /\ lease' = [lease EXCEPT ![r] = now]
    /\ UNCHANGED <<row, results, says, got, gatekeeper, written, now>>

\* The batch that activates an approved plugin version; exec is set without a guard.
Grant(r) ==
    LET a == Subject[r] IN
    /\ at[r] = "granting"
    /\ Goto(r, "done")
    /\ Write(a)
    /\ exec' = [exec EXCEPT ![a] = "succeeded"]
    /\ UNCHANGED <<status, asked, kind, ledger, results, says, lease, got, gatekeeper, now>>

\* A rejected transfer shows the stored result to the owner instead and deletes it.
DropResult(r) ==
    /\ at[r] = "dropping"
    /\ Goto(r, "done")
    /\ results' = results \ {Subject[r]}
    /\ UNCHANGED <<row, ledger, says, lease, got, gatekeeper, written, now>>

-----------------------------------------------------------------------------
(* Execution by a gatekeeper                                               *)

Execute(r) ==
    /\ at[r] = "leased"
    /\ kind[Subject[r]] # "model"
    /\ Goto(r, "calling")
    /\ Stage(<<r, 1>>, "arrived")
    /\ UNCHANGED <<row, ledger, results, says, lease, got, nonces, registered, written, now>>

\* The call is delivered once more.
Redeliver(c) ==
    /\ at[c[1]] = "calling"
    /\ call[c] = "none"
    /\ Stage(c, "arrived")
    /\ UNCHANGED <<row, ledger, results, handler, nonces, registered, written, now>>

\* Mutant of FreshNonce: the result of INSERT OR IGNORE is not looked at.
AnyNonce(r) == TRUE

FreshNonce(r) == r \notin nonces

ValidLease(r) == now < lease[r] + LeaseTTL

\* verifyExecutionLease throws for an expired lease; INSERT OR IGNORE of the nonce
\* decides between the deliveries of a lease.
Claim(c) ==
    LET r == c[1] IN
    /\ call[c] = "arrived"
    /\ ValidLease(r)
    /\ IF FreshNonce(r)
       THEN nonces' = nonces \cup {r} /\ Stage(c, "claimed")
       ELSE Stage(c, "replay") /\ UNCHANGED nonces
    /\ UNCHANGED <<row, ledger, results, handler, registered, written, now>>

Throw(c) ==
    /\ call[c] \in {"arrived", "claimed"}
    /\ Stage(c, "threw")
    /\ UNCHANGED <<row, ledger, results, handler, nonces, registered, written, now>>

\* The connection was removed, or its credential has expired: 404.
Deny(c) ==
    /\ call[c] = "claimed"
    /\ kind[Subject[c[1]]] = "provider"
    /\ Stage(c, "denied")
    /\ UNCHANGED <<row, ledger, results, handler, nonces, registered, written, now>>

\* The request leaves for the provider; Discord's gatekeeper registers the destination
\* before it posts the confirmation to the channel.
Send(c) ==
    LET a == Subject[c[1]] IN
    /\ call[c] = "claimed"
    /\ Stage(c, "sent")
    /\ registered' = IF kind[a] = "discord" THEN registered \cup {a} ELSE registered
    /\ UNCHANGED <<row, ledger, results, handler, nonces, written, now>>

\* The provider.
Apply(c) ==
    /\ call[c] = "sent"
    /\ Stage(c, "applied")
    /\ Write(Subject[c[1]])
    /\ UNCHANGED <<row, ledger, results, handler, nonces, registered, now>>

\* The provider answers an error status, for a write it has not made: the handlers take
\* it for a failure.
Refuse(c) ==
    /\ call[c] = "sent"
    /\ Stage(c, "refused")
    /\ UNCHANGED <<row, ledger, results, handler, nonces, registered, written, now>>

\* The reply of the provider arrives and is stored.
Succeed(c) ==
    /\ call[c] = "applied"
    /\ Stage(c, "ok")
    /\ UNCHANGED <<row, ledger, results, handler, nonces, registered, written, now>>

\* fetch throws, the body cannot be read, or the outcome cannot be stored.
LoseReply(c) ==
    /\ call[c] \in {"sent", "applied"}
    /\ Stage(c, "uncertain")
    /\ UNCHANGED <<row, ledger, results, handler, nonces, registered, written, now>>

-----------------------------------------------------------------------------
(* The outcome                                                             *)

\* The assistant knows one code for an uncertain write, EXTERNAL_WRITE_UNKNOWN; Discord's
\* gatekeeper answers another one, DISCORD_WRITE_UNKNOWN.
OutcomeOf(k, reply) ==
    CASE reply = "ok" -> "succeeded"
      [] reply = "threw" -> "unknown"
      [] reply = "uncertain" /\ k # "discord" -> "unknown"
      [] OTHER -> "failed"

Learn(r, o) == Goto(r, "answered") /\ got' = [got EXCEPT ![r] = o]

Receive(r) ==
    /\ at[r] = "calling"
    /\ call[<<r, 1>>] \in Replies
    /\ Learn(r, OutcomeOf(kind[Subject[r]], call[<<r, 1>>]))
    /\ UNCHANGED <<row, ledger, results, says, lease, gatekeeper, written, now>>

\* Mutant of CallLost: a lost call is taken for a failed one.
CallLostFails(r) ==
    /\ at[r] = "calling"
    /\ Learn(r, "failed")
    /\ UNCHANGED <<row, ledger, results, says, lease, gatekeeper, written, now>>

\* The fetch of the assistant throws, whatever the gatekeeper is doing.
CallLost(r) ==
    /\ at[r] = "calling"
    /\ Learn(r, "unknown")
    /\ UNCHANGED <<row, ledger, results, says, lease, gatekeeper, written, now>>

\* The transfer to the model: the stored result is consumed first.
Consume(r) ==
    LET a == Subject[r] IN
    /\ at[r] = "leased"
    /\ kind[a] = "model"
    /\ Goto(r, IF a \in results THEN "consumed" ELSE "done")
    /\ results' = results \ {a}
    /\ UNCHANGED <<row, ledger, says, lease, got, gatekeeper, written, now>>

\* No policy, no reservation: the owner is shown the result itself.
FallBack(r) ==
    /\ at[r] = "consumed"
    /\ Learn(r, "failed")
    /\ UNCHANGED <<row, ledger, results, says, lease, gatekeeper, written, now>>

\* The result goes to the provider; if no answer comes of it, the outcome is a failure.
Transfer(r) ==
    /\ at[r] = "consumed"
    /\ Write(Subject[r])
    /\ Learn(r, "succeeded") \/ Learn(r, "failed")
    /\ UNCHANGED <<row, ledger, results, says, lease, gatekeeper, now>>

\* recordApprovalExecution.
RecordOutcome(r) ==
    LET a == Subject[r] IN
    /\ at[r] = "answered"
    /\ Goto(r, "done")
    /\ IF status[a] = "approved" /\ exec[a] = "pending"
       THEN exec' = [exec EXCEPT ![a] = got[r]] /\ MaybeAppended(a, got[r])
       ELSE UNCHANGED <<exec, ledger>>
    /\ UNCHANGED <<status, asked, kind, results, says, lease, got, gatekeeper, written, now>>

Reconcilable(a) == status[a] = "approved" /\ exec[a] = "unknown"

\* Nothing of the approval's execution is under way any more.
Settled(a) == \A c \in Calls : Subject[c[1]] = a => call[c] \in Replies \cup {"none"}

\* reconcileApprovalExecution, by an owner who has looked at the provider and says what
\* is there ("owner-external-verification"), no call being still under way.
Reconcile(a) ==
    LET o == IF written[a] > 0 THEN "succeeded" ELSE "failed" IN
    /\ Reconcilable(a)
    /\ Settled(a)
    /\ exec' = [exec EXCEPT ![a] = o]
    /\ MaybeAppended(a, "reconciled")
    /\ UNCHANGED <<status, asked, kind, results, handler, gatekeeper, written, now>>

\* The handler of a request dies, or an early return leaves the rest of it undone.
Abandon(r) ==
    /\ at[r] \notin {"idle", "done"}
    /\ Goto(r, "done")
    /\ UNCHANGED <<row, ledger, results, says, lease, got, gatekeeper, written, now>>

Tick ==
    /\ now < MaxTime
    /\ now' = now + 1
    /\ UNCHANGED <<row, ledger, results, handler, gatekeeper, written>>

-----------------------------------------------------------------------------

Init ==
    /\ status = [a \in Approvals |-> "none"]
    /\ exec = [a \in Approvals |-> "none"]
    /\ asked = [a \in Approvals |-> 0]
    /\ kind = [a \in Approvals |-> "none"]
    /\ ledger = {}
    /\ results = {}
    /\ at = [r \in Requests |-> "idle"]
    /\ says = [r \in Requests |-> "rejected"]
    /\ lease = [r \in Requests |-> 0]
    /\ got = [r \in Requests |-> "unknown"]
    /\ nonces = {}
    /\ call = [c \in Calls |-> "none"]
    /\ registered = {}
    /\ written = [a \in Approvals |-> 0]
    /\ now = 0

DecisionStep(r) ==
    \/ \E d \in Decisions : Read(r, d)
    \/ Replay(r)
    \/ Decide(r)
    \/ AuditDecision(r)
    \/ AuditUnavailable(r)
    \/ Grant(r)
    \/ DropResult(r)

AssistantStep(r) ==
    \/ Execute(r)
    \/ Receive(r)
    \/ CallLost(r)
    \/ Consume(r)
    \/ FallBack(r)
    \/ Transfer(r)
    \/ RecordOutcome(r)
    \/ Abandon(r)

GatekeeperStep(c) ==
    \/ Redeliver(c)
    \/ Claim(c)
    \/ Throw(c)
    \/ Deny(c)
    \/ Send(c)
    \/ Apply(c)
    \/ Refuse(c)
    \/ Succeed(c)
    \/ LoseReply(c)

Next ==
    \/ \E a \in Approvals, k \in Kinds : Create(a, k)
    \/ \E a \in Approvals : Reconcile(a)
    \/ \E r \in Requests : DecisionStep(r) \/ AssistantStep(r)
    \/ \E c \in Calls : GatekeeperStep(c)
    \/ Tick

Spec == Init /\ [][Next]_vars

-----------------------------------------------------------------------------
(* Properties                                                              *)

\* The variables keep their types, an execution outcome exists exactly for approved
\* rows, and no effect is made twice (written is 0 or 1).
TypeOK ==
    /\ status \in [Approvals -> {"none", "pending"} \cup Decisions]
    /\ exec \in [Approvals -> {"none", "pending"} \cup Outcomes]
    /\ \A a \in Approvals : exec[a] # "none" <=> status[a] = "approved"
    /\ asked \in [Approvals -> Nat]
    /\ kind \in [Approvals -> Kinds \cup {"none"}]
    /\ ledger \subseteq Approvals \X Events
    /\ results \subseteq Approvals
    /\ at \in [Requests -> Places]
    /\ says \in [Requests -> Decisions]
    /\ lease \in [Requests -> Nat]
    /\ got \in [Requests -> Outcomes]
    /\ nonces \subseteq Requests
    /\ call \in [Calls -> Stages]
    /\ registered \subseteq Approvals
    /\ written \in [Approvals -> 0 .. 1]
    /\ now \in Nat

\* The effect of an approval is made at most once and only after a positive, audited
\* decision, which is never revised: decideApproval, the lease and its nonce, against
\* duplicate decisions, repeated deliveries, lost replies and dying handlers.
Abstract == INSTANCE ApprovedWrite WITH
    decision <- status,
    logged <- {a \in Approvals : <<a, "approved">> \in ledger}

EffectOnceApproved == Abstract!Spec

\* A recorded outcome is what happened, of an external write: no "succeeded" without a
\* write (recordApprovalExecution, reconcileApprovalExecution).
SucceededMeansWritten ==
    \A a \in Approvals : exec[a] = "succeeded" => written[a] = 1

\* No write of an approval has been made and none is under way.
NotWritten(a) ==
    /\ written[a] = 0
    /\ \A c \in Calls : Subject[c[1]] = a => call[c] \notin {"claimed", "sent"}

\* An external write recorded as failed has not happened and will not, where its call was
\* delivered once and Discord's gatekeeper has no part in it: lost replies, dying handlers
\* and expired leases are recorded as unknown.  (A "model" transfer is no external write:
\* it is recorded as failed when no answer came of it.)
FailedMeansNotWritten ==
    \A a \in Approvals :
        /\ kind[a] \notin {"model", "discord"}
        /\ exec[a] = "failed"
        /\ \A c \in Calls : Subject[c[1]] = a /\ c[2] > 1 => call[c] = "none"
        => NotWritten(a)

\* What is recorded of an external write is what happened, either way.
OutcomeIsTrue == SucceededMeansWritten /\ FailedMeansNotWritten

\* "An indeterminate write is recorded as `unknown` and is not retried unconditionally"
\* (docs/en/operations/discord-connector.md): the same of every external write.
IndeterminateIsUnknown ==
    \A a \in Approvals : kind[a] # "model" /\ exec[a] = "failed" => NotWritten(a)

\* An outcome is final: "succeeded" and "failed" are never overwritten, and "unknown"
\* only by the owner's reconciliation, even if a late answer is recorded afterwards.
OutcomeFinal ==
    [][\A a \in Approvals :
         /\ exec[a] \in {"succeeded", "failed"} => exec'[a] = exec[a]
         /\ exec[a] = "unknown" /\ exec'[a] # "unknown" => UNCHANGED at]_vars

\* An approval whose time is over while no decision on it is under way is never decided.
LapsedStaysUndecided ==
    [][\A a \in Approvals :
         /\ status[a] = "pending"
         /\ Lapsed(a)
         /\ \A r \in Requests : Subject[r] = a => at[r] # "deciding"
         => /\ status'[a] = "pending"
            /\ \A r \in Requests : Subject[r] = a => at'[r] # "deciding"]_vars

\* What was recorded, and what ran out of time, is not revised by requests that come late.
DecisionsStand == OutcomeFinal /\ LapsedStaysUndecided

=============================================================================
