--------------------------- MODULE OwnerOperation ---------------------------
(***************************************************************************)
(* The owner's metered mutations (create a conversation; create, update,   *)
(* delete a task; write, delete a memory): the handlers of                 *)
(* apps/assistant-worker/src/index.ts reserve one unit in the quota        *)
(* ledger, have the conversation object apply the operation under its      *)
(* idempotency key, and settle or release the unit.  Each of the three is  *)
(* a call to another object: requests interleave between them, a reply may *)
(* be lost after its effect, and the handler may die.                      *)
(*                                                                         *)
(* The ledger is QuotaLedger with one bucket and single-unit reservations. *)
(* Every attempt mints a reservation id of its own, so a request is its    *)
(* id; a retry by the owner is another request with the same key.          *)
(***************************************************************************)
EXTENDS Integers, FiniteSets

CONSTANTS
    Requests,         \* HTTP requests
    Keys,             \* idempotency keys (with their resource prefix)
    KeyOf,            \* request |-> its key
    bucket,           \* (owner, month, owner-stateful-operation)
    DefaultFraction, Unlimited,
    Limit,            \* DOWNSTREAM_LIMITS["owner-stateful-operation"]
    TTL,              \* life of a reservation (5 minutes)
    MaxTime           \* bound of the clock

ASSUME OwnerConstants ==
    /\ KeyOf \in [Requests -> Keys]
    /\ Limit \in Nat
    /\ TTL \in Nat
    /\ MaxTime \in Nat
    /\ Unlimited # DefaultFraction

VARIABLES
    res, used, reserved, policy, legacy, markers, now,   \* the quota object
    stored,    \* keys in the conversation's idempotency table
    runs,      \* history: how often the effect of a key was applied
    at,        \* where each request's handler is
    answer     \* what each request was answered

Ledger == INSTANCE QuotaLedger WITH
    Ids <- Requests, Buckets <- {bucket}, Included <- {},
    DownstreamLimit <- [b \in {bucket} |-> Limit],
    Fractions <- {DefaultFraction},
    ScaledLimit <- [f \in {DefaultFraction} |-> [b \in {} |-> 0]],
    MaxAmount <- 1, Overrun <- 0, MaxBatch <- 1, LegacyUsage <- {}

quota == <<res, used, reserved, policy, legacy, markers, now>>
vars == <<quota, stored, runs, at, answer>>

Places == {"start", "reserved", "applied", "failed", "done"}

Answers == {"none", "ok", "denied", "unavailable", "failed", "unmetered", "error"}

-----------------------------------------------------------------------------

Goto(r, p) == at' = [at EXCEPT ![r] = p] /\ UNCHANGED answer

Reply(r, a) == at' = [at EXCEPT ![r] = "done"] /\ answer' = [answer EXCEPT ![r] = a]

Unit(k) == [key |-> k, bucket |-> bucket, amount |-> 1]

\* The reply of /reserve: 200 for a new reservation and for a known key alike, whatever
\* has become of that key's reservation; 429 past the limit.
ReserveReply(r) ==
    IF Ledger!KnownKey(KeyOf[r]) \/ Ledger!Admitted([x \in {r} |-> Unit(KeyOf[r])])
    THEN Goto(r, "reserved")
    ELSE Reply(r, "denied")

\* reserveOwnerOperation; any failure of the call is "unavailable", also when the
\* reservation was made.
ReserveOwner(r) ==
    /\ at[r] = "start"
    /\ Ledger!Reserve(r, Unit(KeyOf[r]), now + TTL)
    /\ ReserveReply(r) \/ Reply(r, "unavailable")
    /\ UNCHANGED <<stored, runs>>

ReserveUnreachable(r) ==
    /\ at[r] = "start"
    /\ Reply(r, "unavailable")
    /\ UNCHANGED <<quota, stored, runs>>

\* Mutant of Perform: no lookup in the idempotency table.
PerformAgain(k) ==
    /\ stored' = stored \cup {k}
    /\ runs' = [runs EXCEPT ![k] = @ + 1]

\* The conversation's handlers: a stored key replays its response; otherwise the rows
\* are written together with the key.
Perform(k) ==
    IF k \in stored THEN UNCHANGED <<stored, runs>>
    ELSE /\ stored' = stored \cup {k}
         /\ runs' = [runs EXCEPT ![k] = @ + 1]

\* The call to the conversation, with its effect; for the creation of a conversation
\* also its registration, whose failure counts as a failure of the whole.
Apply(r) ==
    /\ at[r] = "reserved"
    /\ Perform(KeyOf[r])
    /\ Goto(r, "applied") \/ Goto(r, "failed")
    /\ UNCHANGED quota

\* The conversation refuses the operation or is not reached.
ApplyRefused(r) ==
    /\ at[r] = "reserved"
    /\ Goto(r, "failed")
    /\ UNCHANGED <<quota, stored, runs>>

\* /settle answers 200: the row exists and is active or settled.
CanSettle(r) == r \in DOMAIN res /\ res[r].status \in {"active", "settled"}

\* settleOwnerOperation; a lost reply throws.
SettleOwner(r) ==
    /\ at[r] = "applied"
    /\ CanSettle(r)
    /\ Ledger!Settle(r, 1)
    /\ Reply(r, "ok") \/ Reply(r, "error")
    /\ UNCHANGED <<stored, runs>>

\* The row is another request's, or was released or reaped: 503 METERING_UNAVAILABLE.
SettleRefused(r) ==
    /\ at[r] = "applied"
    /\ ~CanSettle(r)
    /\ Reply(r, "unmetered")
    /\ UNCHANGED <<quota, stored, runs>>

SettleUnreachable(r) ==
    /\ at[r] = "applied"
    /\ Reply(r, "error")
    /\ UNCHANGED <<quota, stored, runs>>

\* Mutant of ReleaseOwner: the failure path settles instead of releasing.
ReleaseOwnerSettles(r) ==
    /\ at[r] = "failed"
    /\ \/ CanSettle(r) /\ Ledger!Settle(r, 1)
       \/ UNCHANGED quota
    /\ Reply(r, "failed")
    /\ UNCHANGED <<stored, runs>>

\* releaseReservation; its outcome, also a refusal or a failure of the call, is ignored.
ReleaseOwner(r) ==
    /\ at[r] = "failed"
    /\ \/ r \in DOMAIN res /\ Ledger!Release(r)
       \/ UNCHANGED quota
    /\ Reply(r, "failed")
    /\ UNCHANGED <<stored, runs>>

\* The handler dies between two calls.
Crash(r) ==
    /\ at[r] \in {"reserved", "applied", "failed"}
    /\ Reply(r, "none")
    /\ UNCHANGED <<quota, stored, runs>>

Tick == Ledger!Tick /\ UNCHANGED <<stored, runs, at, answer>>

-----------------------------------------------------------------------------

Init ==
    /\ Ledger!Init
    /\ stored = {}
    /\ runs = [k \in Keys |-> 0]
    /\ at = [r \in Requests |-> "start"]
    /\ answer = [r \in Requests |-> "none"]

Step(r) ==
    \/ ReserveOwner(r) \/ ReserveUnreachable(r)
    \/ Apply(r) \/ ApplyRefused(r)
    \/ SettleOwner(r) \/ SettleRefused(r) \/ SettleUnreachable(r)
    \/ ReleaseOwner(r) \/ Crash(r)

Next == (\E r \in Requests : Step(r)) \/ Tick

Spec == Init /\ [][Next]_vars

-----------------------------------------------------------------------------
(***************************************************************************)
(* Properties.                                                             *)
(***************************************************************************)

\* Every request is at one place of its handler, no reservation exists before its
\* request asked for it, and a row carries its request's key.
TypeOK ==
    /\ stored \subseteq Keys
    /\ runs \in [Keys -> {0, 1}]
    /\ at \in [Requests -> Places]
    /\ answer \in [Requests -> Answers]
    /\ \A r \in Requests : at[r] = "start" => r \notin DOMAIN res

SettledFor(k) ==
    {r \in DOMAIN res : res[r].key = k /\ res[r].status = "settled"}

Metered == INSTANCE MeteredOperation WITH
    charges <- [k \in Keys |-> Cardinality(SettledFor(k))]

\* An operation takes effect at most once and is charged at most once, after its
\* effect: through retries with the same key, concurrent duplicates, lost replies,
\* expired reservations and crashes between the calls.
ChargedOncePerEffect == Metered!Spec

\* The handlers keep the discipline the quota ledger assumes of its callers (a fresh id
\* per attempt, one key per id, a settlement within the reservation): seen through the
\* ledger's variables, the composition behaves as QuotaLedger specifies (this is
\* Ledger!Spec, spelled so that only the steps that change a row are compared with it).
LedgerDiscipline == Ledger!Init /\ [][UNCHANGED quota \/ Ledger!Next]_quota

\* A mutation is answered with success only after it took effect and its unit was
\* charged.
OkMeansCharged ==
    \A r \in Requests :
        answer[r] = "ok" => /\ runs[KeyOf[r]] = 1
                            /\ \E q \in SettledFor(KeyOf[r]) : res[q].actual = 1

\* Together: the composition implements the metered operation above it, keeps the
\* discipline of the ledger below it, and no success is answered that was not charged.
MeteredOnce == ChargedOncePerEffect /\ LedgerDiscipline /\ []OkMeansCharged

\* docs/en/architecture/overview.md:45: "Paid work reserves its maximum estimate before
\* execution and settles the difference afterward": an operation takes effect only
\* while a reservation for its key is active.
ReservedBeforeExecution ==
    [][\A k \in Keys :
          runs'[k] > runs[k] => \E r \in Ledger!Active : res[r].key = k]_vars

=============================================================================
