-------------------------- MODULE ConnectorTransfer --------------------------
(***************************************************************************)
(* What becomes of a connector's result after the message that asked for   *)
(* it: it waits in the conversation for the owner's approval before a      *)
(* cloud model may see it (apps/assistant-worker/src/index.ts, PATCH       *)
(* /v1/approvals/:id/tool and POST /v1/approvals/:id; the pending results  *)
(* of apps/conversation-agent/src/index.ts).  The owner approves, rejects, *)
(* or asks for another tool's result in its place.  Each step is a call to *)
(* the control worker, the conversation or the quota object, so that       *)
(* requests about one approval interleave and any of them may be lost.     *)
(*                                                                         *)
(* A result is stored before its approval is requested and is named in it: *)
(* the two share a name.                                                   *)
(***************************************************************************)
EXTENDS Naturals, FiniteSets

CONSTANTS
    Requests,   \* the owner's requests about the approvals of one question
    KeyOf,      \* request |-> its idempotency key
    Keys,       \* idempotency keys
    Results,    \* names of results and their approvals
    Original,   \* the result of the first tool
    None        \* no key, no name

TransferConstants ==
    /\ KeyOf \in [Requests -> Keys]
    /\ Original \in Results
    /\ None \notin Keys \cup Results

VARIABLES
    approval,   \* name |-> the status of its approval
    decidedBy,  \* name |-> decision_idempotency_key and whether a tool change sent it
    result,     \* name |-> pending_connector_results
    execution,  \* name |-> execution_status
    ai,         \* name |-> the AI reservation of its summary
    sent,       \* history: the results a cloud model was given
    answer,     \* name |-> the assistant's message about it
    at,         \* where each request's handler is
    about,      \* the approval each request is about
    new         \* the name a tool change has stored its result under

vars == <<approval, decidedBy, result, execution, ai, sent, answer, at, about, new>>

control == <<approval, decidedBy, execution>>

Statuses == {"none", "pending", "approved", "rejected"}

Places == {"start", "settings", "consume", "reserve", "generate", "settle", "failed",
           "append", "record", "fallback", "show", "retract", "reject",
           "read", "run", "replace", "request", "done"}

Decider == [key : Keys \cup {None}, change : BOOLEAN]

-----------------------------------------------------------------------------

Goto(r, p) == at' = [at EXCEPT ![r] = p]

Local(r, p) ==
    /\ Goto(r, p)
    /\ UNCHANGED <<approval, decidedBy, result, execution, ai, sent, answer, about, new>>

MayDecide(x) == approval[x] = "pending"

\* The control worker's decideApproval; without its audit event the caller gets a 503.
Decide(r, x, d, change, onSuccess) ==
    LET by == [key |-> KeyOf[r], change |-> change]
    IN  IF approval[x] = d /\ decidedBy[x] = by
        THEN \* a replay: no lease is issued a second time
             UNCHANGED control /\ Goto(r, IF d = "approved" THEN "done" ELSE onSuccess)
        ELSE IF ~MayDecide(x)
        THEN UNCHANGED control /\ Goto(r, "done")
        ELSE /\ approval' = [approval EXCEPT ![x] = d]
             /\ decidedBy' = [decidedBy EXCEPT ![x] = by]
             /\ execution' = [execution EXCEPT ![x] = IF d = "approved" THEN "pending" ELSE "null"]
             /\ at' \in {[at EXCEPT ![r] = onSuccess], [at EXCEPT ![r] = "done"]}

Approve(r) ==
    /\ at[r] = "start"
    /\ \E x \in Results :
          /\ approval[x] # "none"
          /\ Decide(r, x, "approved", FALSE, "settings")
          /\ about' = [about EXCEPT ![r] = x]
    /\ UNCHANGED <<result, ai, sent, answer, new>>

Reject(r) ==
    /\ at[r] = "start"
    /\ \E x \in Results :
          /\ approval[x] # "none"
          /\ Decide(r, x, "rejected", FALSE, "retract")
          /\ about' = [about EXCEPT ![r] = x]
    /\ UNCHANGED <<result, ai, sent, answer, new>>

-----------------------------------------------------------------------------
(***************************************************************************)
(* After a rejection: the list is shown without a model.                   *)
(***************************************************************************)

Take(r, p) ==
    IF result[about[r]] = "stored"
    THEN result' = [result EXCEPT ![about[r]] = "gone"] /\ Goto(r, p)
    ELSE UNCHANGED result /\ Goto(r, "done")

Retract(r) ==
    /\ at[r] = "retract"
    /\ Take(r, "show")
    /\ UNCHANGED <<approval, decidedBy, execution, ai, sent, answer, about, new>>

\* #appendAssistant, under a key of this approval; it may fail or its answer be lost.
Append(r, message, next) ==
    /\ \/ answer' = [answer EXCEPT ![about[r]] = message]
       \/ UNCHANGED answer
    /\ Goto(r, next)

Show(r) ==
    /\ at[r] = "show"
    /\ Append(r, "list", "done")
    /\ UNCHANGED <<approval, decidedBy, result, execution, ai, sent, about, new>>

-----------------------------------------------------------------------------
(***************************************************************************)
(* After an approval: the result is taken, summarised and billed.          *)
(***************************************************************************)

\* The destination may be disabled by now, or its settings out of reach.
CheckSettings(r) ==
    /\ at[r] = "settings"
    /\ \E p \in {"consume", "done"} : Local(r, p)

Consume(r) ==
    /\ at[r] = "consume"
    /\ Take(r, "reserve")
    /\ UNCHANGED <<approval, decidedBy, execution, ai, sent, answer, about, new>>

\* reserveAi: granted, refused, or without an answer.
Reserve(r) ==
    /\ at[r] = "reserve"
    /\ \/ ai' = [ai EXCEPT ![about[r]] = "active"] /\ Goto(r, "generate")
       \/ ai' \in {ai, [ai EXCEPT ![about[r]] = "active"]} /\ Goto(r, "fallback")
    /\ UNCHANGED <<approval, decidedBy, result, execution, sent, answer, about, new>>

Generate(r) ==
    /\ at[r] = "generate"
    /\ \/ sent' = sent \cup {about[r]} /\ Goto(r, "settle")
       \/ sent' \in {sent, sent \cup {about[r]}} /\ Goto(r, "failed")
    /\ UNCHANGED <<approval, decidedBy, result, execution, ai, answer, about, new>>

Settled(r) == ai[about[r]] = "active" /\ ai' = [ai EXCEPT ![about[r]] = "settled"]

\* Mutant of Settle: an answer that was not charged is shown all the same.
SettleAnyway(r) ==
    /\ at[r] = "settle"
    /\ Settled(r) \/ UNCHANGED ai
    /\ Goto(r, "append")
    /\ UNCHANGED <<approval, decidedBy, result, execution, sent, answer, about, new>>

\* settleAi with the estimate of the answer; where it fails the list is shown instead.
Settle(r) ==
    /\ at[r] = "settle"
    /\ \/ Settled(r) /\ Goto(r, "append")
       \/ (Settled(r) \/ UNCHANGED ai) /\ Goto(r, "fallback")
    /\ UNCHANGED <<approval, decidedBy, result, execution, sent, answer, about, new>>

\* The model failed: the whole reservation is charged, if that can be done.
SettleFailed(r) ==
    /\ at[r] = "failed"
    /\ Settled(r) \/ UNCHANGED ai
    /\ Goto(r, "fallback")
    /\ UNCHANGED <<approval, decidedBy, result, execution, sent, answer, about, new>>

AppendSummary(r) ==
    /\ at[r] = "append"
    /\ Append(r, "summary", "record")
    /\ UNCHANGED <<approval, decidedBy, result, execution, ai, sent, about, new>>

\* recordApprovalExecution, for an approval whose execution is still pending.
Recorded(r, outcome) ==
    \/ /\ approval[about[r]] = "approved" /\ execution[about[r]] = "pending"
       /\ execution' = [execution EXCEPT ![about[r]] = outcome]
    \/ UNCHANGED execution

Record(r) ==
    /\ at[r] = "record"
    /\ Recorded(r, "succeeded")
    /\ Goto(r, "done")
    /\ UNCHANGED <<approval, decidedBy, result, ai, sent, answer, about, new>>

\* appendFallback: the failure first, then the list.
Fallback(r) ==
    /\ at[r] = "fallback"
    /\ Recorded(r, "failed")
    /\ Goto(r, "show")
    /\ UNCHANGED <<approval, decidedBy, result, ai, sent, answer, about, new>>

-----------------------------------------------------------------------------
(***************************************************************************)
(* PATCH /v1/approvals/:id/tool.                                           *)
(***************************************************************************)

ChangeTool(r) ==
    /\ at[r] = "start"
    /\ \E x \in Results :
          /\ approval[x] = "pending"
          /\ about' = [about EXCEPT ![r] = x]
    /\ Goto(r, "read")
    /\ UNCHANGED <<approval, decidedBy, result, execution, ai, sent, answer, new>>

\* The question is read again from the result that waits.
ReadQuestion(r) ==
    /\ at[r] = "read"
    /\ Local(r, IF result[about[r]] = "stored" THEN "run" ELSE "done")

Unused == {x \in Results : result[x] = "none"}

\* The new tool runs and its result is stored under a new name; either may fail.
RunTool(r) ==
    /\ at[r] = "run"
    /\ \/ Local(r, "done")
       \/ /\ Unused # {}
          /\ LET x == CHOOSE x \in Unused : TRUE
             IN  /\ result' = [result EXCEPT ![x] = "stored"]
                 /\ new' = [new EXCEPT ![r] = x]
          /\ Goto(r, "replace")
          /\ UNCHANGED <<approval, decidedBy, execution, ai, sent, answer, about>>

RejectOld(r) ==
    /\ at[r] = "replace"
    /\ Decide(r, about[r], "rejected", TRUE, "request")
    /\ UNCHANGED <<result, ai, sent, answer, about, new>>

RequestNew(r) ==
    /\ at[r] = "request"
    /\ \/ approval' = [approval EXCEPT ![new[r]] = "pending"]
       \/ UNCHANGED approval
    /\ Goto(r, "done")
    /\ UNCHANGED <<decidedBy, result, execution, ai, sent, answer, about, new>>

-----------------------------------------------------------------------------

\* A day passes.  (An approval is open for fifteen minutes; one that lapses is one nobody
\* decides.)
ExpireResult(x) ==
    /\ result[x] = "stored" /\ approval[x] # "pending"
    /\ result' = [result EXCEPT ![x] = "gone"]
    /\ UNCHANGED <<approval, decidedBy, execution, ai, sent, answer, at, about, new>>

\* The quota object returns what nobody settled.
ExpireAi(x) ==
    /\ ai[x] = "active"
    /\ ai' = [ai EXCEPT ![x] = "expired"]
    /\ UNCHANGED <<approval, decidedBy, result, execution, sent, answer, at, about, new>>

\* A call throws or the assistant dies.
Crash(r) == at[r] \notin {"start", "done"} /\ Local(r, "done")

Init ==
    /\ approval = [x \in Results |-> IF x = Original THEN "pending" ELSE "none"]
    /\ decidedBy = [x \in Results |-> [key |-> None, change |-> FALSE]]
    /\ result = [x \in Results |-> IF x = Original THEN "stored" ELSE "none"]
    /\ execution = [x \in Results |-> "null"]
    /\ ai = [x \in Results |-> "none"]
    /\ sent = {}
    /\ answer = [x \in Results |-> "none"]
    /\ at = [r \in Requests |-> "start"]
    /\ about = [r \in Requests |-> None]
    /\ new = [r \in Requests |-> None]

Next ==
    \/ \E r \in Requests :
          \/ Approve(r) \/ CheckSettings(r) \/ Consume(r) \/ Reserve(r) \/ Generate(r)
          \/ Settle(r) \/ SettleFailed(r) \/ AppendSummary(r) \/ Record(r) \/ Fallback(r)
          \/ Reject(r) \/ Retract(r) \/ Show(r)
          \/ ChangeTool(r) \/ ReadQuestion(r) \/ RunTool(r) \/ RejectOld(r) \/ RequestNew(r)
          \/ Crash(r)
    \/ \E x \in Results : ExpireResult(x) \/ ExpireAi(x)

Spec == Init /\ [][Next]_vars

-----------------------------------------------------------------------------
(***************************************************************************)
(* Properties.                                                             *)
(***************************************************************************)

\* Statuses have the values of their columns, and only what is stored has an approval.
TypeOK ==
    /\ approval \in [Results -> Statuses]
    /\ decidedBy \in [Results -> Decider]
    /\ result \in [Results -> {"none", "stored", "gone"}]
    /\ execution \in [Results -> {"null", "pending", "succeeded", "failed"}]
    /\ ai \in [Results -> {"none", "active", "settled", "expired"}]
    /\ sent \subseteq Results
    /\ answer \in [Results -> {"none", "summary", "list"}]
    /\ at \in [Requests -> Places]
    /\ about \in [Requests -> Results \cup {None}]
    /\ new \in [Requests -> Results \cup {None}]
    /\ \A x \in Results : approval[x] # "none" => result[x] # "none"

\* A cloud model is given a result only while its approval says so, for ever: a result
\* the owner rejected, or replaced by another tool's, is never sent, whichever requests
\* were under way.
SentWasApproved == \A x \in sent : approval[x] = "approved"

\* A transfer recorded as succeeded was sent and charged, and one recorded as failed
\* shows no summary.
RecordedTruly ==
    \A x \in Results :
        /\ execution[x] = "succeeded" => x \in sent /\ ai[x] = "settled"
        /\ execution[x] = "failed" => answer[x] # "summary"

ChangedTwice ==
    \E r, q \in Requests : r # q /\ KeyOf[r] = KeyOf[q] /\ new[r] # None /\ new[q] # None

\* However approvals and tool changes interleave, one question has one open transfer.
\* (A tool change that is delivered twice opens two: createApproval ignores its key.)
OneOpenTransfer ==
    ~ChangedTwice
    => Cardinality({x \in Results : approval[x] \in {"pending", "approved"}}) <= 1

=============================================================================
