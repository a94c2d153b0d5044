------------------------------ MODULE AiLedger ------------------------------
(***************************************************************************)
(* The AI half of the Quota Durable Object (apps/quota-worker/src/index.ts,*)
(* reserve-ai, settle-ai, release-ai, set-ai-policy, import-legacy): the   *)
(* daily free allowance of neurons and the monthly spend on what exceeds   *)
(* it.  As in QuotaLedger a handler is one atomic action.  The legacy      *)
(* import writes the tables of both modules in one handler; each module    *)
(* has its own projection of it, under the same guard.                     *)
(*                                                                         *)
(* Data abstraction.  Neurons are whole, and money is counted in the price *)
(* of one neuron, so a column of micro-dollars divided by the catalogue's  *)
(* price is the number of neurons paid for.                                *)
(***************************************************************************)
EXTENDS Integers, FiniteSets

CONSTANTS
    Ids,         \* reservation ids
    Keys,        \* idempotency keys
    Days,        \* UTC days
    MonthOf,     \* day |-> its month (the handler checks day.startsWith(month))
    Free,        \* PRICE_CATALOG.workersAi.freeNeuronsPerDay
    Caps,        \* values of the monthly overage cap
    Unlimited,   \* monthlyOverageMicros = null
    NoPolicy,    \* no row in ai_budget_policies
    MaxNeurons,  \* bound on the neurons of one reservation
    TTL,         \* bound on expiresAt - now
    LegacyUsage, \* what a legacy shard may export: <<day |-> neurons, month |-> spend>>
    MaxTime      \* bound of the clock

Shards == {"owner", "public"}

Months == {MonthOf[d] : d \in Days}

Policies == Caps \cup {Unlimited}

ASSUME AiConstants ==
    /\ DOMAIN MonthOf = Days
    /\ Free \in Nat
    /\ MaxNeurons \in Nat \ {0}
    /\ TTL \in Nat
    /\ LegacyUsage \subseteq [Days -> Nat] \X [Months -> Nat]
    /\ MaxTime \in Nat
    /\ Caps \subseteq Nat
    /\ Unlimited \notin Nat
    /\ NoPolicy \notin Policies

VARIABLES
    ai,             \* table ai_reservations: a function from the stored ids
    dayUsed,        \* ai_daily_usage.used_neurons
    dayReserved,    \* ai_daily_usage.reserved_neurons
    monthUsed,      \* ai_monthly_usage.used_micros
    monthReserved,  \* ai_monthly_usage.reserved_micros
    policy,         \* ai_budget_policies.monthly_overage_micros
    legacyDay,      \* history: the neurons each legacy shard added to each day
    legacyMonth,    \* history: the spend each legacy shard added to each month
    markers,        \* table legacy_import_markers
    now             \* the clock the handlers read

usage == <<dayUsed, dayReserved, monthUsed, monthReserved>>
imports == <<legacyDay, legacyMonth, markers>>
vars == <<ai, usage, policy, imports, now>>

Status == {"active", "settled", "released", "expired"}

Row == [status : Status, key : Keys, day : Days, neurons : 1..MaxNeurons,
        free : 0..MaxNeurons, overage : 0..MaxNeurons,
        expires : Nat, actual : 0..MaxNeurons]

-----------------------------------------------------------------------------
(***************************************************************************)
(* Sums over rows.  A sum of amounts is the cardinality of a set of units. *)
(***************************************************************************)

Units(S, f) == {u \in S \X (1..MaxNeurons) : u[2] <= f[u[1]]}

Sum(S, f) == Cardinality(Units(S, f))

Monus(x, y) == IF x > y THEN x - y ELSE 0

Lesser(x, y) == IF x < y THEN x ELSE y

\* Columns, and the two parts of what a settled row used.
Neurons == [r \in DOMAIN ai |-> ai[r].neurons]
Granted == [r \in DOMAIN ai |-> ai[r].free]
Overage == [r \in DOMAIN ai |-> ai[r].overage]
Actual  == [r \in DOMAIN ai |-> ai[r].actual]
Gratis  == [r \in DOMAIN ai |-> Lesser(ai[r].actual, ai[r].free)]
Paid    == [r \in DOMAIN ai |-> Monus(ai[r].actual, ai[r].free)]

WithStatus(s) == {r \in DOMAIN ai : ai[r].status = s}
Active == WithStatus("active")
Settled == WithStatus("settled")

On(S, d) == {r \in S : ai[r].day = d}
In(S, m) == {r \in S : MonthOf[ai[r].day] = m}

\* The rows #reapExpiredAi selects.
Expired == {r \in Active : ai[r].expires <= now}

\* The two reserved columns after the reservations in S gave back what they hold.
DayReturned(S) ==
    [d \in Days |-> Monus(dayReserved[d], Sum(On(S, d), Neurons))]
MonthReturned(S) ==
    [m \in Months |-> Monus(monthReserved[m], Sum(In(S, m), Overage))]

Marked(S, s) ==
    [r \in DOMAIN ai |-> IF r \in S THEN [ai[r] EXCEPT !.status = s] ELSE ai[r]]

KnownKey(k) == \E r \in DOMAIN ai : ai[r].key = k

-----------------------------------------------------------------------------
(***************************************************************************)
(* The handlers.                                                           *)
(***************************************************************************)

\* Mutant of FreeRemaining: the holds of other reservations are not counted.
FreeRemainingOnUsage(d) == Monus(Free, dayUsed[d])

\* What is left of the day's free allowance once the expired holds are back.
FreeRemaining(d) == Monus(Free, dayUsed[d] + DayReturned(Expired)[d])

FreeFor(d, n) == Lesser(FreeRemaining(d), n)

\* The stored policy wins over the cap the caller sends.
CapOf(sent) == IF policy = NoPolicy THEN sent ELSE policy

\* Mutant of WithinCap: the spend other reservations hold is not counted.
WithinCapOnUsage(d, n, sent) ==
    \/ CapOf(sent) = Unlimited
    \/ monthUsed[MonthOf[d]] + (n - FreeFor(d, n)) <= CapOf(sent)

WithinCap(d, n, sent) ==
    \/ CapOf(sent) = Unlimited
    \/ LET m == MonthOf[d]
       IN monthUsed[m] + MonthReturned(Expired)[m] + (n - FreeFor(d, n)) <= CapOf(sent)

NewRow(k, d, n, e) ==
    [status |-> "active", key |-> k, day |-> d, neurons |-> n, free |-> FreeFor(d, n),
     overage |-> n - FreeFor(d, n), expires |-> e, actual |-> 0]

\* A replayed or conflicting key and a spend denial leave only the reaping behind.
ReserveAi(r, k, d, n, e, sent) ==
    /\ r \in DOMAIN ai => ai[r].key = k      \* callers mint a fresh id for a fresh key
    /\ IF ~KnownKey(k) /\ WithinCap(d, n, sent)
       THEN /\ ai' = [q \in DOMAIN ai \cup {r} |->
                         IF q = r THEN NewRow(k, d, n, e)
                         ELSE Marked(Expired, "expired")[q]]
            /\ dayReserved' = [DayReturned(Expired) EXCEPT ![d] = @ + n]
            /\ monthReserved' =
                  [MonthReturned(Expired) EXCEPT ![MonthOf[d]] = @ + (n - FreeFor(d, n))]
       ELSE /\ ai' = Marked(Expired, "expired")
            /\ dayReserved' = DayReturned(Expired)
            /\ monthReserved' = MonthReturned(Expired)
    /\ UNCHANGED <<dayUsed, monthUsed, policy, imports, now>>

\* Mutants of SettleAi: an overrun is accepted; the spend charged is the reserved one.
SettleAiOverrun(r, a) ==
    /\ r \in Active
    /\ ai' = [ai EXCEPT ![r].status = "settled", ![r].actual = a]
    /\ dayReserved' = DayReturned({r})
    /\ monthReserved' = MonthReturned({r})
    /\ dayUsed' = [dayUsed EXCEPT ![ai[r].day] = @ + a]
    /\ monthUsed' = [monthUsed EXCEPT ![MonthOf[ai[r].day]] = @ + Monus(a, ai[r].free)]
    /\ UNCHANGED <<policy, imports, now>>

SettleAiReserved(r, a) ==
    /\ r \in Active
    /\ a <= ai[r].neurons
    /\ ai' = [ai EXCEPT ![r].status = "settled", ![r].actual = a]
    /\ dayReserved' = DayReturned({r})
    /\ monthReserved' = MonthReturned({r})
    /\ dayUsed' = [dayUsed EXCEPT ![ai[r].day] = @ + a]
    /\ monthUsed' = [monthUsed EXCEPT ![MonthOf[ai[r].day]] = @ + ai[r].overage]
    /\ UNCHANGED <<policy, imports, now>>

\* A settled row replays; an unknown or closed one, or an overrun, is refused.
SettleAi(r, a) ==
    /\ r \in Active
    /\ a <= ai[r].neurons
    /\ ai' = [ai EXCEPT ![r].status = "settled", ![r].actual = a]
    /\ dayReserved' = DayReturned({r})
    /\ monthReserved' = MonthReturned({r})
    /\ dayUsed' = [dayUsed EXCEPT ![ai[r].day] = @ + a]
    /\ monthUsed' = [monthUsed EXCEPT ![MonthOf[ai[r].day]] = @ + Monus(a, ai[r].free)]
    /\ UNCHANGED <<policy, imports, now>>

ReleaseAi(r) ==
    /\ r \in Active
    /\ ai' = Marked({r}, "released")
    /\ dayReserved' = DayReturned({r})
    /\ monthReserved' = MonthReturned({r})
    /\ UNCHANGED <<dayUsed, monthUsed, policy, imports, now>>

SetAiPolicy(c) ==
    /\ policy' = c
    /\ UNCHANGED <<ai, usage, imports, now>>

ImportLegacy(s, daily, monthly) ==
    /\ s \notin markers
    /\ dayUsed' = [d \in Days |-> dayUsed[d] + daily[d]]
    /\ monthUsed' = [m \in Months |-> monthUsed[m] + monthly[m]]
    /\ legacyDay' = [legacyDay EXCEPT ![s] = daily]
    /\ legacyMonth' = [legacyMonth EXCEPT ![s] = monthly]
    /\ markers' = markers \cup {s}
    /\ UNCHANGED <<ai, dayReserved, monthReserved, policy, now>>

Tick ==
    /\ now < MaxTime
    /\ now' = now + 1
    /\ UNCHANGED <<ai, usage, policy, imports>>

-----------------------------------------------------------------------------

Init ==
    /\ ai = [r \in {} |-> r]
    /\ dayUsed = [d \in Days |-> 0]
    /\ dayReserved = [d \in Days |-> 0]
    /\ monthUsed = [m \in Months |-> 0]
    /\ monthReserved = [m \in Months |-> 0]
    /\ policy = NoPolicy
    /\ legacyDay = [s \in Shards |-> [d \in Days |-> 0]]
    /\ legacyMonth = [s \in Shards |-> [m \in Months |-> 0]]
    /\ markers = {}
    /\ now = 0

Next ==
    \/ \E r \in Ids, k \in Keys, d \in Days, n \in 1..MaxNeurons,
          e \in now..(now + TTL), sent \in Policies : ReserveAi(r, k, d, n, e, sent)
    \/ \E r \in Ids, a \in 0..MaxNeurons : SettleAi(r, a)
    \/ \E r \in Ids : ReleaseAi(r)
    \/ \E c \in Policies : SetAiPolicy(c)
    \/ \E s \in Shards, u \in LegacyUsage : ImportLegacy(s, u[1], u[2])
    \/ Tick

Spec == Init /\ [][Next]_vars

-----------------------------------------------------------------------------
(***************************************************************************)
(* Properties.                                                             *)
(***************************************************************************)

\* The tables hold values of their columns' types; a row's overage is what its
\* neurons exceed the free ones it was granted by.
TypeOK ==
    /\ DOMAIN ai \subseteq Ids
    /\ IsFiniteSet(DOMAIN ai)
    /\ ai \in [DOMAIN ai -> Row]
    /\ \A r \in DOMAIN ai : /\ ai[r].overage = ai[r].neurons - ai[r].free
                            /\ ai[r].actual <= ai[r].neurons
    /\ dayUsed \in [Days -> Nat]
    /\ dayReserved \in [Days -> Nat]
    /\ monthUsed \in [Months -> Nat]
    /\ monthReserved \in [Months -> Nat]
    /\ policy \in Policies \cup {NoPolicy}
    /\ legacyDay \in [Shards -> [Days -> Nat]]
    /\ legacyMonth \in [Shards -> [Months -> Nat]]
    /\ markers \subseteq Shards
    /\ now \in Nat

\* The day's counters are exactly what the active rows hold and the settled rows and
\* the legacy shards used, through every interleaving of settle, release and reaping.
DayAccounts ==
    \A d \in Days :
        /\ dayReserved[d] = Sum(On(Active, d), Neurons)
        /\ dayUsed[d] = Sum(On(Settled, d), Actual) + legacyDay["owner"][d] + legacyDay["public"][d]

\* The month's counters are exactly the overage the active rows hold and the overage
\* the settled rows really paid, plus the legacy spend.
MonthAccounts ==
    \A m \in Months :
        /\ monthReserved[m] = Sum(In(Active, m), Overage)
        /\ monthUsed[m] = Sum(In(Settled, m), Paid) + legacyMonth["owner"][m] + legacyMonth["public"][m]

\* The free allowance of a day is granted once: the free neurons that active rows may
\* still use and those that settled rows did use never exceed it, although a row
\* keeps its grant while other rows are settled for less, released or reaped around
\* it.  So every neuron past the allowance is charged against the month's cap.
FreeAllowanceOnce ==
    \A d \in Days : Sum(On(Active, d), Granted) + Sum(On(Settled, d), Gratis) <= Free

\* The day's, the month's and the free allowance's accounts are those of the rows.
CountersExact == DayAccounts /\ MonthAccounts /\ FreeAllowanceOnce

\* The month's committed spend grows only within the cap in force (a migration import
\* aside), whatever the cap was before; the cap is the stored one once it is stored.
SpendWithinCap ==
    [][\A m \in Months :
          \/ markers' # markers
          \/ (monthUsed[m] + monthReserved[m])' <= monthUsed[m] + monthReserved[m]
          \/ policy \in {NoPolicy, Unlimited}
          \/ (monthUsed[m] + monthReserved[m])' <= policy]_vars

=============================================================================
