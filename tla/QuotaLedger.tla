---------------------------- MODULE QuotaLedger ----------------------------
(***************************************************************************)
(* The non-AI half of the Quota Durable Object                             *)
(* (apps/quota-worker/src/index.ts).  One instance of the object owns one  *)
(* ledger.  Its handlers contain no await after the request body has been  *)
(* parsed and a Durable Object runs one event at a time, so a handler is   *)
(* one atomic action here: everything it writes is in that action, the     *)
(* reaping of expired reservations that precedes every reserve included.   *)
(*                                                                         *)
(* Data abstraction.  A bucket stands for the (scope, period, resource)    *)
(* triple that keys a row of usage_rollups.  Amounts are whole units       *)
(* (the REAL columns hold multiples of a unit), so "the sum of the amounts *)
(* of some reservations" is the cardinality of the set of their units.     *)
(***************************************************************************)
EXTENDS Integers, FiniteSets

CONSTANTS
    Ids,              \* reservation ids (UUIDs minted by the callers)
    Keys,             \* idempotency keys
    Buckets,          \* (scope, period, resource) triples
    Included,         \* the buckets whose resource is in INCLUDED_METER_RESOURCES
    DownstreamLimit,  \* bucket |-> DOWNSTREAM_LIMITS[resource]
    Fractions,        \* values the owner may give the non-AI budget fraction
    DefaultFraction,  \* 0.8, used while no policy row exists
    Unlimited,        \* includedFraction = null: no hard limit
    ScaledLimit,      \* fraction |-> bucket |-> DOWNSTREAM_LIMITS * fraction / 0.8
    MaxAmount,        \* bound on the amount of one reservation
    Overrun,          \* how far a caller's actualAmount may exceed the amount
    MaxBatch,         \* items of one batch request (10 in the code)
    TTL,              \* bound on expiresAt - now (5 minutes in every caller)
    LegacyUsage,      \* the usages (bucket |-> units) a legacy shard may export
    MaxTime           \* bound of the clock

\* The two legacy shards #importLegacy accepts.
Shards == {"owner", "public"}

Policies == Fractions \cup {Unlimited}

MaxActual == MaxAmount + Overrun

ASSUME QuotaConstants ==
    /\ MaxAmount \in Nat \ {0}
    /\ Overrun \in Nat
    /\ MaxBatch \in Nat \ {0}
    /\ TTL \in Nat
    /\ LegacyUsage \subseteq [Buckets -> Nat]
    /\ MaxTime \in Nat
    /\ Included \subseteq Buckets
    /\ DownstreamLimit \in [Buckets -> Nat]
    /\ DefaultFraction \in Fractions
    /\ Unlimited \notin Fractions
    /\ ScaledLimit \in [Fractions -> [Included -> Nat]]

VARIABLES
    res,       \* table reservations: a function whose domain is the set of stored ids
    used,      \* column usage_rollups.used
    reserved,  \* column usage_rollups.reserved
    policy,    \* non_ai_budget_policies.included_fraction
    legacy,    \* history: what each legacy shard contributed to used
    markers,   \* table legacy_import_markers
    now        \* the clock the handlers read

vars == <<res, used, reserved, policy, legacy, markers, now>>

Status == {"active", "settled", "released", "expired"}

Row == [status : Status, key : Keys, bucket : Buckets, amount : 1..MaxAmount,
        expires : Nat, actual : 0..MaxActual]

\* What a caller sends for one reservation.
Item == [key : Keys, bucket : Buckets, amount : 1..MaxAmount]

-----------------------------------------------------------------------------
(***************************************************************************)
(* Reading the tables.                                                     *)
(***************************************************************************)

WithStatus(s) == {r \in DOMAIN res : res[r].status = s}

Active == WithStatus("active")

\* Mutant of Expired: the query forgets "status = 'active'".
ExpiredAnyStatus == {r \in DOMAIN res : res[r].expires <= now}

\* The rows #reapExpired selects.
Expired == {r \in Active : res[r].expires <= now}

\* The units reserved, and the units settled, by the reservations in S.
HeldUnits(rows, S, b) ==
    {u \in S \X (1..MaxAmount) :
        rows[u[1]].bucket = b /\ u[2] <= rows[u[1]].amount}

SpentUnits(rows, S, b) ==
    {u \in S \X (1..MaxActual) :
        rows[u[1]].bucket = b /\ u[2] <= rows[u[1]].actual}

\* SQL's MAX(0, x - y).
Monus(x, y) == IF x > y THEN x - y ELSE 0

\* usage_rollups.reserved after the amounts of the reservations in S are returned.
Returned(S) ==
    [b \in Buckets |-> Monus(reserved[b], Cardinality(HeldUnits(res, S, b)))]

\* The table after the reservations in S have changed status.
Marked(S, s) ==
    [r \in DOMAIN res |-> IF r \in S THEN [res[r] EXCEPT !.status = s] ELSE res[r]]

Exceeds(b, amount) ==
    IF b \in Included
    THEN policy # Unlimited /\ amount > ScaledLimit[policy][b]
    ELSE amount > DownstreamLimit[b]

\* The units a request asks for in bucket b; a request maps ids to items.
Demand(items, b) == Cardinality(HeldUnits(items, DOMAIN items, b))

KnownKey(k) == \E r \in DOMAIN res : res[r].key = k

-----------------------------------------------------------------------------
(***************************************************************************)
(* The handlers.  #reserve and #reserveBatch write the same rows: the      *)
(* former is the latter for one item.  An idempotency hit (a replay or a   *)
(* conflict) and a hard-limit denial leave only the reaping behind.        *)
(***************************************************************************)

Distinct(items) ==
    \A r, q \in DOMAIN items : items[r].key = items[q].key => r = q

\* The callers mint a fresh id for a fresh key (the plugin runtime derives the id
\* from the key), so an id is never presented with two keys.
CallerIds(items) ==
    \A r \in DOMAIN items \cap DOMAIN res : res[r].key = items[r].key

\* Mutant of Admitted: the limit ignores what is reserved but not yet used.
AdmittedOnUsage(items) ==
    /\ \A r \in DOMAIN items : ~KnownKey(items[r].key)
    /\ \A b \in {items[r].bucket : r \in DOMAIN items} :
          ~Exceeds(b, used[b] + Demand(items, b))

Admitted(items) ==
    /\ \A r \in DOMAIN items : ~KnownKey(items[r].key)
    /\ \A b \in {items[r].bucket : r \in DOMAIN items} :
          ~Exceeds(b, used[b] + Returned(Expired)[b] + Demand(items, b))

Inserted(items, e) ==
    [r \in DOMAIN res \cup DOMAIN items |->
        IF r \in DOMAIN items
        THEN [status |-> "active", key |-> items[r].key, bucket |-> items[r].bucket,
              amount |-> items[r].amount, expires |-> e, actual |-> 0]
        ELSE Marked(Expired, "expired")[r]]

\* Mutant of ReserveItems: an admitted request marks the expired rows but does not
\* give their amounts back.
ReserveItemsLeaky(items, e) ==
    /\ IF Admitted(items)
       THEN /\ res' = Inserted(items, e)
            /\ reserved' = [b \in Buckets |-> reserved[b] + Demand(items, b)]
       ELSE /\ res' = Marked(Expired, "expired")
            /\ reserved' = Returned(Expired)
    /\ UNCHANGED <<used, policy, legacy, markers, now>>

ReserveItems(items, e) ==
    /\ IF Admitted(items)
       THEN /\ res' = Inserted(items, e)
            /\ reserved' = [b \in Buckets |-> Returned(Expired)[b] + Demand(items, b)]
       ELSE /\ res' = Marked(Expired, "expired")
            /\ reserved' = Returned(Expired)
    /\ UNCHANGED <<used, policy, legacy, markers, now>>

Reserve(r, item, e) ==
    LET items == [x \in {r} |-> item]
    IN CallerIds(items) /\ ReserveItems(items, e)

ReserveBatch(items, e) ==
    /\ Distinct(items)
    /\ CallerIds(items)
    /\ ReserveItems(items, e)

\* #settle and #settleBatch: every row must be active or already settled, and only
\* the active ones are charged.
SettleItems(R, actual) ==
    LET charged == R \cap Active
        settled == [r \in DOMAIN res |->
                       IF r \in charged
                       THEN [res[r] EXCEPT !.status = "settled", !.actual = actual[r]]
                       ELSE res[r]]
    IN /\ R \subseteq Active \cup WithStatus("settled")
       /\ res' = settled
       /\ reserved' = Returned(charged)
       /\ used' = [b \in Buckets |->
                      used[b] + Cardinality(SpentUnits(settled, charged, b))]
       /\ UNCHANGED <<policy, legacy, markers, now>>

Settle(r, a) == SettleItems({r}, [x \in {r} |-> a])

SettleBatch(R, actual) == SettleItems(R, actual)

\* Mutant of ReleaseItems: a replayed release returns its hold again, unclamped.
ReleaseItemsAgain(R) ==
    /\ R \subseteq Active \cup WithStatus("released")
    /\ res' = Marked(R, "released")
    /\ reserved' = [b \in Buckets |-> reserved[b] - Cardinality(HeldUnits(res, R, b))]
    /\ UNCHANGED <<used, policy, legacy, markers, now>>

\* #release and #releaseBatch.
ReleaseItems(R) ==
    LET freed == R \cap Active
    IN /\ R \subseteq Active \cup WithStatus("released")
       /\ res' = Marked(freed, "released")
       /\ reserved' = Returned(freed)
       /\ UNCHANGED <<used, policy, legacy, markers, now>>

Release(r) == ReleaseItems({r})

ReleaseBatch(R) == ReleaseItems(R)

SetNonAiPolicy(p) ==
    /\ policy' = p
    /\ UNCHANGED <<res, used, reserved, legacy, markers, now>>

ImportLegacy(s, usage) ==
    /\ s \notin markers
    /\ used' = [b \in Buckets |-> used[b] + usage[b]]
    /\ legacy' = [legacy EXCEPT ![s] = usage]
    /\ markers' = markers \cup {s}
    /\ UNCHANGED <<res, reserved, policy, now>>

Tick ==
    /\ now < MaxTime
    /\ now' = now + 1
    /\ UNCHANGED <<res, used, reserved, policy, legacy, markers>>

-----------------------------------------------------------------------------

Init ==
    /\ res = [r \in {} |-> r]
    /\ used = [b \in Buckets |-> 0]
    /\ reserved = [b \in Buckets |-> 0]
    /\ policy = DefaultFraction
    /\ legacy = [s \in Shards |-> [b \in Buckets |-> 0]]
    /\ markers = {}
    /\ now = 0

\* Nonempty sets of at most MaxBatch ids.
Batches(S) == {R \in SUBSET S : R # {} /\ IsFiniteSet(R) /\ Cardinality(R) <= MaxBatch}

\* The callers settle at most what they reserved, plus Overrun.
Actuals(R) == {f \in [R -> 0..MaxActual] : \A r \in R : f[r] <= res[r].amount + Overrun}

Next ==
    \/ \E r \in Ids, item \in Item, e \in now..(now + TTL) : Reserve(r, item, e)
    \/ \E R \in Batches(Ids) : \E items \in [R -> Item], e \in now..(now + TTL) :
          ReserveBatch(items, e)
    \/ \E r \in DOMAIN res : \E a \in 0..(res[r].amount + Overrun) : Settle(r, a)
    \/ \E R \in Batches(DOMAIN res) : \E f \in Actuals(R) : SettleBatch(R, f)
    \/ \E r \in DOMAIN res : Release(r)
    \/ \E R \in Batches(DOMAIN res) : ReleaseBatch(R)
    \/ \E p \in Policies : SetNonAiPolicy(p)
    \/ \E s \in Shards, usage \in LegacyUsage : ImportLegacy(s, usage)
    \/ Tick

Spec == Init /\ [][Next]_vars

-----------------------------------------------------------------------------
(***************************************************************************)
(* Properties.                                                             *)
(***************************************************************************)

\* The tables hold values of their columns' types; rows exist for finitely many ids.
TypeOK ==
    /\ DOMAIN res \subseteq Ids
    /\ IsFiniteSet(DOMAIN res)
    /\ res \in [DOMAIN res -> Row]
    /\ used \in [Buckets -> Nat]
    /\ reserved \in [Buckets -> Nat]
    /\ policy \in Policies
    /\ legacy \in [Shards -> [Buckets -> Nat]]
    /\ markers \subseteq Shards
    /\ now \in Nat

\* usage_rollups.reserved is a running counter that five handlers adjust; it must
\* equal the amounts of the rows that are active, so no capacity leaks when a
\* reservation is settled, released or reaped (in particular MAX(0, ...) never bites).
ReservedMatchesActive ==
    \A b \in Buckets : reserved[b] = Cardinality(HeldUnits(res, Active, b))

\* Usage is charged exactly once: used is what the settled rows report plus what
\* each legacy shard contributed, through retries, batches and replays; a shard
\* contributes nothing before its marker is set, hence at most once.
UsedMatchesSettled ==
    /\ \A b \in Buckets :
          used[b] = Cardinality(SpentUnits(res, WithStatus("settled"), b))
                    + legacy["owner"][b] + legacy["public"][b]
    /\ \A s \in Shards \ markers, b \in Buckets : legacy[s][b] = 0

\* "Retries do not reserve twice": an idempotency key owns at most one reservation,
\* so the UNIQUE constraint behind the lookup never turns into an exception.
OneReservationPerKey ==
    \A r, q \in DOMAIN res : res[r].key = res[q].key => r = q

\* What the tables say about each other through every interleaving of handlers: the
\* counters are those of the rows, and no two rows have one key.
CountersExact == OneReservationPerKey /\ ReservedMatchesActive /\ UsedMatchesSettled

OverLimit(b) == Exceeds(b, used[b] + reserved[b])

\* A step that settles a reservation of b for more than it held.
OverrunsIn(b) ==
    \E r \in Active :
        /\ res[r].bucket = b
        /\ res'[r].status = "settled"
        /\ res'[r].actual > res[r].amount

\* The accounted total of a bucket grows only within the hard limit in force at that
\* step, whatever was lowered, reaped or settled before; the exceptions are a migration
\* import and a caller that reports more than it reserved.
GrowthWithinLimit ==
    [][\A b \in Buckets :
          \/ markers' # markers
          \/ OverrunsIn(b)
          \/ (used[b] + reserved[b])' <= used[b] + reserved[b]
          \/ ~OverLimit(b)']_vars

\* A reservation leaves "active" once: a settled, released or expired row is never
\* revived, re-settled or re-priced by a late or repeated call, and no row is lost.
OutcomeIsFinal ==
    [][\A r \in DOMAIN res :
          /\ r \in DOMAIN res'
          /\ res[r].status # "active" => res'[r] = res[r]
          /\ [res'[r] EXCEPT !.status = res[r].status, !.actual = res[r].actual] = res[r]]_vars

\* Mutant of Mode: "blocked" only past the limit.
ModeLate(b) ==
    IF Exceeds(b, used[b] + reserved[b]) THEN "blocked" ELSE "normal"

\* What #usage reports for a bucket: projected >= hardLimit, >= 0.75 hardLimit.
Mode(b) ==
    LET projected == used[b] + reserved[b]
        included == b \in Included
        hard == IF included THEN ScaledLimit[policy][b] ELSE DownstreamLimit[b]
    IN IF Exceeds(b, projected + 1) THEN "blocked"
       ELSE IF ~(included /\ policy = Unlimited) /\ 4 * projected >= 3 * hard
       THEN "degraded"
       ELSE "normal"

\* The usage report and admission agree: a bucket that is not reported "blocked"
\* really has room for a unit, so a fresh one-unit request would be admitted.  (The
\* converse fails by design: the report does not reap, the next reserve does.)
UnblockedMeansRoom ==
    \A b \in Buckets, r \in Ids, k \in Keys :
        Mode(b) # "blocked" /\ r \notin DOMAIN res /\ ~KnownKey(k) =>
            Admitted([x \in {r} |-> [key |-> k, bucket |-> b, amount |-> 1]])

=============================================================================
