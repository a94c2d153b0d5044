--------------------------- MODULE MessageExchange ---------------------------
(***************************************************************************)
(* The owner's message (apps/assistant-worker/src/index.ts, POST           *)
(* /v1/conversations/:conversationId/messages): look for a stored answer,  *)
(* reserve one unit of the owner's operations, reserve neurons when a      *)
(* cloud model has to answer, generate, run the tools the model asked for, *)
(* store the exchange in the conversation, settle both reservations.       *)
(*                                                                         *)
(* Both halves of the quota object are the ledgers of QuotaLedger and      *)
(* AiLedger.  Every call to another object may be lost before or after its *)
(* effect, a handler may die between two calls, and a retry is another     *)
(* request with the same key; every attempt mints reservation ids of its   *)
(* own, so a request is its id.                                            *)
(*                                                                         *)
(* Data abstraction.  Neurons are counted by the platform's own estimate   *)
(* of a request and its output, which is what the handler settles.  Texts, *)
(* tool choice and tool results are left out: what remains is whether a    *)
(* model is needed, and whether the tools' part ends the request early.    *)
(***************************************************************************)
EXTENDS Integers, FiniteSets

CONSTANTS
    Requests,         \* HTTP requests
    Keys,             \* idempotency keys
    KeyOf,            \* request |-> its key
    bucket,           \* (owner, month, owner-stateful-operation)
    day, month,       \* the UTC day of the run and its month
    DefaultFraction, Unlimited, NoPolicy,
    Limit,            \* DOWNSTREAM_LIMITS["owner-stateful-operation"]
    Free,             \* free neurons of the day
    Cap,              \* the monthly overage cap the assistant sends
    Estimate,         \* neurons of a request with the longest output
    MaxCalls,         \* bound on the tool calls of one answer (3 in the code)
    Faults,           \* whether calls are lost and handlers die
    TTL, MaxTime      \* life of a reservation, bound of the clock

ASSUME MessageConstants ==
    /\ KeyOf \in [Requests -> Keys]
    /\ {Limit, Free, Cap, TTL, MaxTime} \subseteq Nat
    /\ Estimate \in Nat \ {0}
    /\ MaxCalls \in Nat
    /\ Faults \in BOOLEAN
    /\ Unlimited \notin Nat \cup {DefaultFraction}
    /\ NoPolicy \notin Nat \cup {Unlimited}

VARIABLES
    res, used, reserved, policy, legacy, markers,               \* QuotaLedger
    ai, dayUsed, dayReserved, monthUsed, monthReserved,         \* AiLedger
    aiPolicy, legacyDay, legacyMonth,
    now,
    stored,    \* keys whose exchange the conversation has
    at,        \* where each request's handler is
    answer,    \* what each request was answered
    metered,   \* requests whose handler has an aiReservation
    billed,    \* history: neurons the provider billed for each request
    asks       \* history: approvals the tools of each request created

Owner == INSTANCE QuotaLedger WITH
    Ids <- Requests, Buckets <- {bucket}, Included <- {},
    DownstreamLimit <- [b \in {bucket} |-> Limit],
    Fractions <- {DefaultFraction},
    ScaledLimit <- [f \in {DefaultFraction} |-> [b \in {} |-> 0]],
    MaxAmount <- 1, Overrun <- 0, MaxBatch <- 1, LegacyUsage <- {}

Ai == INSTANCE AiLedger WITH
    Ids <- Requests, Days <- {day}, MonthOf <- [d \in {day} |-> month],
    Caps <- {Cap}, MaxNeurons <- Estimate, LegacyUsage <- {}, policy <- aiPolicy

owner == <<res, used, reserved, policy, legacy>>
neurons == <<ai, dayUsed, dayReserved, monthUsed, monthReserved, aiPolicy, legacyDay,
             legacyMonth>>
clock == <<markers, now>>
handler == <<at, answer, metered>>
vars == <<owner, neurons, clock, stored, handler, billed, asks>>

Places == {"start", "missed", "counted", "refused", "held", "broken", "owed", "overspent",
           "unbilled", "generated", "worded", "unstored", "unpaid", "stored", "paid", "done"}

Answers == {"none", "replayed", "ok", "declined", "denied", "failed", "deferred",
            "unmetered", "error"}

-----------------------------------------------------------------------------

Goto(r, p) == at' = [at EXCEPT ![r] = p] /\ UNCHANGED <<answer, metered>>

Reply(r, a) ==
    /\ at' = [at EXCEPT ![r] = "done"]
    /\ answer' = [answer EXCEPT ![r] = a]
    /\ UNCHANGED metered

(***************************************************************************)
(* Before the model.                                                       *)
(***************************************************************************)

\* /exchange/replay.
Replay(r) ==
    /\ at[r] = "start"
    /\ IF KeyOf[r] \in stored THEN Reply(r, "replayed") ELSE Goto(r, "missed")
    /\ UNCHANGED <<owner, neurons, clock, stored, billed, asks>>

\* The deployment's storage is full or not known, or no permitted model provider is
\* enabled and configured.
Decline(r) ==
    /\ at[r] \in {"start", "missed"}
    /\ Reply(r, "declined")
    /\ UNCHANGED <<owner, neurons, clock, stored, billed, asks>>

Unit(k) == [key |-> k, bucket |-> bucket, amount |-> 1]

\* /reserve answers 200 for a new reservation and for a known key alike.
ReserveReply(r) ==
    IF Owner!KnownKey(KeyOf[r]) \/ Owner!Admitted([x \in {r} |-> Unit(KeyOf[r])])
    THEN Goto(r, "counted")
    ELSE Reply(r, "denied")

ReserveOwner(r) ==
    /\ at[r] = "missed"
    /\ Owner!Reserve(r, Unit(KeyOf[r]), now + TTL)
    /\ ReserveReply(r) \/ (Faults /\ Reply(r, "denied"))
    /\ UNCHANGED <<neurons, stored, billed, asks>>

\* Mutant of AnswerLocally: the model is run although nothing is reserved for it.
AnswerByModel(r) ==
    /\ at[r] = "counted"
    /\ Goto(r, "held")
    /\ UNCHANGED <<owner, neurons, clock, stored, billed, asks>>

\* The local provider, a formatted local answer, or a tool the intent determines.
AnswerLocally(r) ==
    /\ at[r] = "counted"
    /\ Goto(r, "generated")
    /\ UNCHANGED <<owner, neurons, clock, stored, billed, asks>>

\* A reply that says "active" is a reservation for this handler, also when the row is
\* another request's with the same key.
ActiveFor(k) == \E q \in DOMAIN ai' : ai'[q].key = k /\ ai'[q].status = "active"

ReserveAi(r) ==
    /\ at[r] = "counted"
    /\ Ai!ReserveAi(r, KeyOf[r], day, Estimate, now + TTL, Cap)
    /\ \/ /\ ActiveFor(KeyOf[r])
          /\ at' = [at EXCEPT ![r] = "held"]
          /\ metered' = metered \cup {r}
          /\ UNCHANGED answer
       \/ (Faults \/ ~ActiveFor(KeyOf[r])) /\ Goto(r, "refused")
    /\ UNCHANGED <<owner, stored, billed, asks>>

\* The cost policy or the quota object is not reached.
AiUnreachable(r) ==
    /\ Faults
    /\ at[r] = "counted"
    /\ Goto(r, "refused")
    /\ UNCHANGED <<owner, neurons, clock, stored, billed, asks>>

-----------------------------------------------------------------------------
(***************************************************************************)
(* The model and its tools.                                                *)
(***************************************************************************)

Generate(r) ==
    /\ at[r] = "held"
    /\ billed' \in {[billed EXCEPT ![r] = n] : n \in 1..Estimate}
    /\ Goto(r, "generated")
    /\ UNCHANGED <<owner, neurons, clock, stored, asks>>

\* Any error of the provider but a spend limit; it may have billed the inference.
GenerateFails(r) ==
    /\ at[r] = "held"
    /\ billed' \in {[billed EXCEPT ![r] = n] : n \in 0..Estimate}
    /\ Goto(r, "broken")
    /\ UNCHANGED <<owner, neurons, clock, stored, asks>>

\* The AI gateway answers 429.
SpendLimitReached(r) ==
    /\ at[r] = "held"
    /\ Goto(r, "overspent")
    /\ UNCHANGED <<owner, neurons, clock, stored, billed, asks>>

\* What a tool does: read, write (after an approval), or nothing, being not allowed here.
Kinds == {"read", "write", "denied"}

\* The tool calls the model, or the detected intent, asks for; each works or throws.
ToolCalls == UNION {[1..n -> [kind : Kinds, works : BOOLEAN]] : n \in 1..MaxCalls}

\* The calls that create an approval: only the first write of a message is attempted.
Requested(calls) ==
    {i \in DOMAIN calls :
        /\ calls[i].kind = "write" /\ calls[i].works
        /\ \A j \in 1..(i - 1) : calls[j].kind # "write"}

\* Reads that all worked are to be summarised by a model.
Summarised(calls) ==
    \A i \in DOMAIN calls : calls[i].kind = "read" /\ calls[i].works

Asks(r, n) == asks' = [asks EXCEPT ![r] = @ + n]

\* Results of reads for a cloud model are stored in the conversation and wait for an
\* approval of their own; the local model summarises them at once.
RunTools(r) ==
    /\ at[r] = "generated"
    /\ \E calls \in ToolCalls :
          \/ Asks(r, Cardinality(Requested(calls)))
          \/ Summarised(calls) /\ Asks(r, 1)
    /\ Goto(r, "worded")
    /\ UNCHANGED <<owner, neurons, clock, stored, billed>>

NoTools(r) ==
    /\ at[r] = "generated"
    /\ Goto(r, "worded")
    /\ UNCHANGED <<owner, neurons, clock, stored, billed, asks>>

\* The tools' results could not be stored, or no approval could be requested to send
\* them to the model (when it was, its reply may be lost): the handler returns with both
\* reservations open.
ToolsUnavailable(r) ==
    /\ at[r] = "generated"
    /\ Asks(r, 0) \/ (Faults /\ Asks(r, 1))
    /\ Reply(r, "deferred")
    /\ UNCHANGED <<owner, neurons, clock, stored, billed>>

-----------------------------------------------------------------------------
(***************************************************************************)
(* The exchange and the settlements.                                       *)
(***************************************************************************)

\* The conversation stores the exchange under its key, once.
StoreExchange(r) ==
    /\ at[r] = "worded"
    /\ stored' = stored \cup {KeyOf[r]}
    /\ Goto(r, "stored") \/ (Faults /\ Goto(r, "unstored"))
    /\ UNCHANGED <<owner, neurons, clock, billed, asks>>

ExchangeRefused(r) ==
    /\ at[r] = "worded"
    /\ Goto(r, "unstored")
    /\ UNCHANGED <<owner, neurons, clock, stored, billed, asks>>

\* Where the handler goes after it gave the owner's unit back.
AfterRelease(r) ==
    CASE at[r] = "broken"    -> Goto(r, "owed")
      [] at[r] = "overspent" -> Goto(r, "unbilled")
      [] at[r] = "unstored"  -> IF r \in metered THEN Goto(r, "unpaid") ELSE Reply(r, "failed")
      [] OTHER               -> Reply(r, "denied")

\* Mutant of ReleaseOwner: the unit of a failed request is settled.
ReleaseOwnerSettles(r) ==
    /\ at[r] \in {"refused", "broken", "overspent", "unstored"}
    /\ \/ r \in Owner!Active /\ Owner!Settle(r, 1) /\ UNCHANGED neurons
       \/ r \notin Owner!Active /\ UNCHANGED <<owner, neurons, clock>>
    /\ AfterRelease(r)
    /\ UNCHANGED <<stored, billed, asks>>

\* releaseReservation ignores its outcome.
ReleaseOwner(r) ==
    /\ at[r] \in {"refused", "broken", "overspent", "unstored"}
    /\ \/ r \in DOMAIN res /\ Owner!Release(r) /\ UNCHANGED neurons
       \/ (Faults \/ r \notin Owner!Active) /\ UNCHANGED <<owner, neurons, clock>>
    /\ AfterRelease(r)
    /\ UNCHANGED <<stored, billed, asks>>

\* Mutant of SettleFailed: the reservation of a failed generation is released.
SettleFailedReleases(r) ==
    /\ at[r] \in {"owed", "unpaid"}
    /\ \/ r \in Ai!Active /\ Ai!ReleaseAi(r) /\ UNCHANGED owner
       \/ (Faults \/ r \notin Ai!Active) /\ UNCHANGED <<owner, neurons, clock>>
    /\ Reply(r, "failed")
    /\ UNCHANGED <<stored, billed, asks>>

\* A failed generation is settled at its estimate, an answer that was not stored at
\* what it took; the outcome of the call is ignored.
SettleFailed(r) ==
    /\ at[r] \in {"owed", "unpaid"}
    /\ \/ /\ r \in Ai!Active
          /\ Ai!SettleAi(r, IF at[r] = "owed" THEN Estimate ELSE billed[r])
          /\ UNCHANGED owner
       \/ (Faults \/ r \notin Ai!Active) /\ UNCHANGED <<owner, neurons, clock>>
    /\ Reply(r, "failed")
    /\ UNCHANGED <<stored, billed, asks>>

\* releaseAi after a spend limit.
ReleaseAi(r) ==
    /\ at[r] = "unbilled"
    /\ \/ r \in Ai!Active /\ Ai!ReleaseAi(r) /\ UNCHANGED owner
       \/ (Faults \/ r \notin Ai!Active) /\ UNCHANGED <<owner, neurons, clock>>
    /\ Reply(r, "denied")
    /\ UNCHANGED <<stored, billed, asks>>

\* settleAi after the exchange was stored; its refusal is 503, a lost call throws.
SettleAi(r) ==
    /\ at[r] = "stored"
    /\ r \in metered
    /\ r \in Ai!Active
    /\ Ai!SettleAi(r, billed[r])
    /\ Goto(r, "paid") \/ (Faults /\ Reply(r, "error"))
    /\ UNCHANGED <<owner, stored, billed, asks>>

AiRefused(r) ==
    /\ at[r] = "stored"
    /\ r \in metered
    /\ r \notin Ai!Active
    /\ Reply(r, "unmetered")
    /\ UNCHANGED <<owner, neurons, clock, stored, billed, asks>>

NothingToSettle(r) ==
    /\ at[r] = "stored"
    /\ r \notin metered
    /\ Goto(r, "paid")
    /\ UNCHANGED <<owner, neurons, clock, stored, billed, asks>>

\* Mutant of SettleOwner: two units are settled.
SettleOwnerTwo(r) ==
    /\ at[r] = "paid"
    /\ r \in Owner!Active
    /\ Owner!Settle(r, 2)
    /\ Reply(r, "ok") \/ (Faults /\ Reply(r, "error"))
    /\ UNCHANGED <<neurons, stored, billed, asks>>

SettleOwner(r) ==
    /\ at[r] = "paid"
    /\ r \in Owner!Active
    /\ Owner!Settle(r, 1)
    /\ Reply(r, "ok") \/ (Faults /\ Reply(r, "error"))
    /\ UNCHANGED <<neurons, stored, billed, asks>>

OwnerRefused(r) ==
    /\ at[r] = "paid"
    /\ r \notin Owner!Active
    /\ Reply(r, "unmetered")
    /\ UNCHANGED <<owner, neurons, clock, stored, billed, asks>>

\* A call that throws without effect, outside the handler's try blocks.
Throw(r) ==
    /\ Faults
    /\ at[r] \in {"start", "missed", "stored", "paid"}
    /\ Reply(r, "error")
    /\ UNCHANGED <<owner, neurons, clock, stored, billed, asks>>

\* The handler dies between two calls.
Crash(r) ==
    /\ Faults
    /\ at[r] \notin {"start", "done"}
    /\ Reply(r, "none")
    /\ UNCHANGED <<owner, neurons, clock, stored, billed, asks>>

Tick == Owner!Tick /\ UNCHANGED <<neurons, stored, handler, billed, asks>>

-----------------------------------------------------------------------------

Init ==
    /\ Owner!Init
    /\ Ai!Init
    /\ stored = {}
    /\ at = [r \in Requests |-> "start"]
    /\ answer = [r \in Requests |-> "none"]
    /\ metered = {}
    /\ billed = [r \in Requests |-> 0]
    /\ asks = [r \in Requests |-> 0]

Admission(r) ==
    Replay(r) \/ Decline(r) \/ ReserveOwner(r) \/ AnswerLocally(r) \/ ReserveAi(r)
    \/ AiUnreachable(r)

Generation(r) ==
    \/ Generate(r) \/ GenerateFails(r) \/ SpendLimitReached(r)
    \/ RunTools(r) \/ NoTools(r) \/ ToolsUnavailable(r)

Settlement(r) ==
    \/ StoreExchange(r) \/ ExchangeRefused(r) \/ ReleaseOwner(r) \/ SettleFailed(r)
    \/ ReleaseAi(r) \/ SettleAi(r) \/ AiRefused(r) \/ NothingToSettle(r) \/ SettleOwner(r)
    \/ OwnerRefused(r)

Step(r) == Admission(r) \/ Generation(r) \/ Settlement(r) \/ Throw(r) \/ Crash(r)

Next == (\E r \in Requests : Step(r)) \/ Tick

Spec == Init /\ [][Next]_vars

-----------------------------------------------------------------------------
(***************************************************************************)
(* Properties.                                                             *)
(***************************************************************************)

\* Every request is at one place, and only one whose handler got as far as a model was
\* billed.
TypeOK ==
    /\ stored \subseteq Keys
    /\ at \in [Requests -> Places]
    /\ answer \in [Requests -> Answers]
    /\ metered \subseteq Requests
    /\ billed \in [Requests -> 0..Estimate]
    /\ asks \in [Requests -> Nat]
    /\ \A r \in Requests : billed[r] > 0 => r \in metered

\* apps/assistant-worker/src/index.ts:2347: a reservation whose inference the provider
\* billed is never given back, and never settled for less than the bill, whatever failed
\* afterwards.
BilledNotReleased ==
    \A r \in DOMAIN ai :
        /\ ai[r].status = "released" => billed[r] = 0
        /\ ai[r].status = "settled" => ai[r].actual >= billed[r]

\* Whatever tools a model asks for in one answer, the attempt creates at most one
\* approval: the owner is never asked twice for one message.
OneApprovalPerAttempt == \A r \in Requests : asks[r] <= 1

\* A fresh answer (not a replay) is given only after both reservations of this very
\* request were settled, the neurons for exactly what the answer took, although its
\* reservations may have expired, or belong to another request with its key.
AnsweredMeansSettled ==
    \A r \in Requests :
        answer[r] = "ok" =>
            /\ KeyOf[r] \in stored
            /\ r \in DOMAIN res /\ res[r].status = "settled"
            /\ r \in metered => /\ r \in DOMAIN ai /\ ai[r].status = "settled"
                                /\ ai[r].actual = billed[r]

\* However its reservations, its model call and its tools fail, an attempt bills what it
\* answers, keeps what was billed, and asks the owner once.
AttemptsAccounted == BilledNotReleased /\ OneApprovalPerAttempt /\ AnsweredMeansSettled

SettledFor(k) == {r \in DOMAIN res : res[r].key = k /\ res[r].status = "settled"}

Exchange == INSTANCE MeteredOperation WITH
    runs <- [k \in Keys |-> IF k \in stored THEN 1 ELSE 0],
    charges <- [k \in Keys |-> Cardinality(SettledFor(k))]

\* An exchange is stored at most once and its operation is charged at most once, after
\* it is stored.
ChargedOncePerExchange == Exchange!Spec

\* Seen through its variables each half of the quota object behaves as its module says:
\* the handler keeps the discipline the ledgers assume of their callers.
NeuronsWithinLedger == Ai!Spec
UnitsWithinLedger == Owner!Spec
WithinLedgers == NeuronsWithinLedger /\ UnitsWithinLedger

\* apps/assistant-worker/src/index.ts:2347, "Settle the conservative reservation instead
\* of silently undercounting": when a handler has answered, what was billed to it is
\* settled.
BilledIsSettled ==
    \A r \in Requests :
        at[r] = "done" /\ billed[r] > 0 =>
            r \in DOMAIN ai /\ ai[r].status = "settled"

=============================================================================
