------------------------ MODULE MessageExchangeProofs ------------------------
(***************************************************************************)
(* Proofs about MessageExchange, for any requests, keys, limit, cap, free  *)
(* allowance and price of a model run.  The exchange moves the rows of two *)
(* ledgers, and every move is a step of those ledgers (WithinLedgers), so  *)
(* what QuotaLedgerProofs and AiLedgerProofs prove of any use of them      *)
(* carries over.  On top of it, RowsSound says what the rows of a request  *)
(* may hold and HandlerSound what the handler knows at each of its places; *)
(* from them come TypeOK, AttemptsAccounted and the refinement of          *)
(* MeteredOperation.                                                       *)
(***************************************************************************)
EXTENDS MessageExchange, FiniteSetTheorems, TLAPS

-----------------------------------------------------------------------------
(***************************************************************************)
(* The ledgers with their proofs: the definitions are those of the         *)
(* instances Owner and Ai.                                                 *)
(***************************************************************************)

OwnerKept == INSTANCE QuotaLedgerProofs WITH
    Ids <- Requests, Buckets <- {bucket}, Included <- {},
    DownstreamLimit <- [b \in {bucket} |-> Limit],
    Fractions <- {DefaultFraction},
    ScaledLimit <- [f \in {DefaultFraction} |-> [b \in {} |-> 0]],
    MaxAmount <- 1, Overrun <- 0, MaxBatch <- 1, LegacyUsage <- {}

AiKept == INSTANCE AiLedgerProofs WITH
    Ids <- Requests, Days <- {day}, MonthOf <- [d \in {day} |-> month],
    Caps <- {Cap}, MaxNeurons <- Estimate, LegacyUsage <- {}, policy <- aiPolicy

LEMMA OwnerAssumed == OwnerKept!QuotaConstants
BY MessageConstants DEF OwnerKept!QuotaConstants

LEMMA AiAssumed == AiKept!AiConstants
BY MessageConstants DEF AiKept!AiConstants, AiKept!Policies, AiKept!Months

LEMMA OwnerSteps == [Owner!Next]_(Owner!vars) => [OwnerKept!Next]_(OwnerKept!vars)
<1> USE DEF Owner!Active, OwnerKept!Active, Owner!WithStatus, OwnerKept!WithStatus,
          Owner!Returned, OwnerKept!Returned, Owner!Monus, OwnerKept!Monus,
          Owner!HeldUnits, OwnerKept!HeldUnits, Owner!Marked, OwnerKept!Marked,
          Owner!Cardinality, OwnerKept!Cardinality
<1>1. \A s, e : Owner!ReserveItems(s, e) => OwnerKept!ReserveItems(s, e)
  <2>1. Owner!Expired = OwnerKept!Expired
    BY DEF Owner!Expired, OwnerKept!Expired
  <2>2. \A S : Owner!Returned(S) = OwnerKept!Returned(S)
    OBVIOUS
  <2>3. \A S, m : Owner!Marked(S, m) = OwnerKept!Marked(S, m)
    OBVIOUS
  <2>4. \A s, b : Owner!Demand(s, b) = OwnerKept!Demand(s, b)
    BY DEF Owner!Demand, OwnerKept!Demand
  <2> HIDE DEF Owner!Active, OwnerKept!Active, Owner!WithStatus, OwnerKept!WithStatus,
         Owner!Returned, OwnerKept!Returned, Owner!Monus, OwnerKept!Monus, Owner!HeldUnits,
         OwnerKept!HeldUnits, Owner!Marked, OwnerKept!Marked, Owner!Cardinality,
         OwnerKept!Cardinality
  <2>5. \A b, n : Owner!Exceeds(b, n) <=> OwnerKept!Exceeds(b, n)
    BY DEF Owner!Exceeds, OwnerKept!Exceeds
  <2>6. \A k : Owner!KnownKey(k) <=> OwnerKept!KnownKey(k)
    BY DEF Owner!KnownKey, OwnerKept!KnownKey
  <2>7. \A s : Owner!Admitted(s) <=> OwnerKept!Admitted(s)
    BY <2>1, <2>2, <2>4, <2>5, <2>6 DEF Owner!Admitted, OwnerKept!Admitted
  <2>8. \A s, e : Owner!Inserted(s, e) = OwnerKept!Inserted(s, e)
    BY <2>1, <2>3 DEF Owner!Inserted, OwnerKept!Inserted
  <2>9. QED
    BY <2>1, <2>2, <2>3, <2>4, <2>7, <2>8 DEF Owner!ReserveItems, OwnerKept!ReserveItems
<1>2. /\ \A r, i, e : Owner!Reserve(r, i, e) => OwnerKept!Reserve(r, i, e)
      /\ \A s, e : Owner!ReserveBatch(s, e) => OwnerKept!ReserveBatch(s, e)
  BY <1>1 DEF Owner!Reserve, OwnerKept!Reserve, Owner!ReserveBatch, OwnerKept!ReserveBatch,
     Owner!CallerIds, OwnerKept!CallerIds, Owner!Distinct, OwnerKept!Distinct
<1>3. \A r, a : Owner!Settle(r, a) => OwnerKept!Settle(r, a)
  BY DEF Owner!Settle, OwnerKept!Settle, Owner!SettleItems, OwnerKept!SettleItems,
         Owner!SpentUnits, OwnerKept!SpentUnits, Owner!MaxActual,
         OwnerKept!MaxActual
<1>4. \A R, f : Owner!SettleBatch(R, f) => OwnerKept!SettleBatch(R, f)
  BY DEF Owner!SettleBatch, OwnerKept!SettleBatch, Owner!SettleItems, OwnerKept!SettleItems,
         Owner!SpentUnits, OwnerKept!SpentUnits, Owner!MaxActual,
         OwnerKept!MaxActual
<1>5. \A r : Owner!Release(r) => OwnerKept!Release(r)
  BY DEF Owner!Release, OwnerKept!Release, Owner!ReleaseItems, OwnerKept!ReleaseItems
<1>6. \A R : Owner!ReleaseBatch(R) => OwnerKept!ReleaseBatch(R)
  BY DEF Owner!ReleaseBatch, OwnerKept!ReleaseBatch, Owner!ReleaseItems,
         OwnerKept!ReleaseItems
<1>7. \A p : Owner!SetNonAiPolicy(p) => OwnerKept!SetNonAiPolicy(p)
  BY DEF Owner!SetNonAiPolicy, OwnerKept!SetNonAiPolicy
<1>8. \A s, u : Owner!ImportLegacy(s, u) => OwnerKept!ImportLegacy(s, u)
  BY DEF Owner!ImportLegacy, OwnerKept!ImportLegacy
<1>9. Owner!Tick => OwnerKept!Tick
  BY DEF Owner!Tick, OwnerKept!Tick
<1>10. Owner!Next => OwnerKept!Next
  BY <1>1, <1>2, <1>3, <1>4, <1>5, <1>6, <1>7, <1>8, <1>9
     DEF Owner!Next, OwnerKept!Next, Owner!Item, OwnerKept!Item, Owner!Batches,
         OwnerKept!Batches, Owner!IsFiniteSet, OwnerKept!IsFiniteSet,
         Owner!Actuals, OwnerKept!Actuals, Owner!MaxActual, OwnerKept!MaxActual,
         Owner!Policies, OwnerKept!Policies, Owner!Shards, OwnerKept!Shards
<1>11. QED
  BY <1>10 DEF Owner!vars, OwnerKept!vars

LEMMA AiSteps == [Ai!Next]_(Ai!vars) => [AiKept!Next]_(AiKept!vars)
<1> USE DEF Ai!usage, AiKept!usage, Ai!imports, AiKept!imports, Ai!Active, AiKept!Active,
          Ai!WithStatus, AiKept!WithStatus, Ai!Monus, AiKept!Monus, Ai!Lesser,
          AiKept!Lesser, Ai!DayReturned, AiKept!DayReturned, Ai!MonthReturned,
          AiKept!MonthReturned, Ai!Sum, AiKept!Sum, Ai!Units, AiKept!Units, Ai!On,
          AiKept!On, Ai!In, AiKept!In, Ai!Neurons, AiKept!Neurons, Ai!Overage,
          AiKept!Overage, Ai!Marked, AiKept!Marked, Ai!Cardinality,
          AiKept!Cardinality, Ai!Months, AiKept!Months
<1>1. \A r, k, d, n, e, s : Ai!ReserveAi(r, k, d, n, e, s) => AiKept!ReserveAi(r, k, d, n, e, s)
  <2>1. Ai!Expired = AiKept!Expired
    BY DEF Ai!Expired, AiKept!Expired
  <2>2. \A S : Ai!DayReturned(S) = AiKept!DayReturned(S)
    OBVIOUS
  <2>3. \A S : Ai!MonthReturned(S) = AiKept!MonthReturned(S)
    OBVIOUS
  <2>4. \A S, m : Ai!Marked(S, m) = AiKept!Marked(S, m)
    OBVIOUS
  <2> HIDE DEF Ai!DayReturned, AiKept!DayReturned, Ai!MonthReturned, AiKept!MonthReturned,
         Ai!Marked, AiKept!Marked, Ai!Active, AiKept!Active, Ai!WithStatus, AiKept!WithStatus,
         Ai!Sum, AiKept!Sum, Ai!Units, AiKept!Units
  <2>5. \A d, n : Ai!FreeFor(d, n) = AiKept!FreeFor(d, n)
    BY <2>1, <2>2 DEF Ai!FreeFor, AiKept!FreeFor, Ai!FreeRemaining, AiKept!FreeRemaining
  <2>6. \A d, n, s : Ai!WithinCap(d, n, s) <=> AiKept!WithinCap(d, n, s)
    BY <2>1, <2>3, <2>5 DEF Ai!WithinCap, AiKept!WithinCap, Ai!CapOf, AiKept!CapOf
  <2>7. \A k, d, n, e : Ai!NewRow(k, d, n, e) = AiKept!NewRow(k, d, n, e)
    BY <2>5 DEF Ai!NewRow, AiKept!NewRow
  <2>8. \A k : Ai!KnownKey(k) <=> AiKept!KnownKey(k)
    BY DEF Ai!KnownKey, AiKept!KnownKey
  <2>9. QED
    BY <2>1, <2>2, <2>3, <2>4, <2>5, <2>6, <2>7, <2>8 DEF Ai!ReserveAi, AiKept!ReserveAi
<1>2. \A r, a : Ai!SettleAi(r, a) => AiKept!SettleAi(r, a)
  BY DEF Ai!SettleAi, AiKept!SettleAi
<1>3. \A r : Ai!ReleaseAi(r) => AiKept!ReleaseAi(r)
  BY DEF Ai!ReleaseAi, AiKept!ReleaseAi
<1>4. \A c : Ai!SetAiPolicy(c) => AiKept!SetAiPolicy(c)
  BY DEF Ai!SetAiPolicy, AiKept!SetAiPolicy
<1>5. \A s, u, v : Ai!ImportLegacy(s, u, v) => AiKept!ImportLegacy(s, u, v)
  BY DEF Ai!ImportLegacy, AiKept!ImportLegacy
<1>6. Ai!Tick => AiKept!Tick
  BY DEF Ai!Tick, AiKept!Tick
<1>7. Ai!Next => AiKept!Next
  BY <1>1, <1>2, <1>3, <1>4, <1>5, <1>6
     DEF Ai!Next, AiKept!Next, Ai!Policies, AiKept!Policies, Ai!Shards, AiKept!Shards
<1>8. QED
  BY <1>7 DEF Ai!vars, AiKept!vars

-----------------------------------------------------------------------------
(***************************************************************************)
(* What a call of request r may do to the ledgers' rows: it may insert or  *)
(* change r's own; others' rows can only expire.                           *)
(***************************************************************************)

OwnerMoves(r) ==
    /\ \A q \in DOMAIN res : /\ q \in DOMAIN res'
                             /\ res'[q].key = res[q].key
                             /\ res[q].status # "active" => res'[q] = res[q]
    /\ \A q \in DOMAIN res' \ {r} :
          q \in DOMAIN res /\ (res'[q].status = "settled" => res[q].status = "settled")

AiMoves(r) ==
    /\ \A q \in DOMAIN ai : /\ q \in DOMAIN ai'
                            /\ ai'[q].neurons = ai[q].neurons
                            /\ ai[q].status # "active" => ai'[q] = ai[q]
    /\ \A q \in DOMAIN ai' \ {r} :
          q \in DOMAIN ai /\ (ai'[q].status \in {"settled", "released"} => ai'[q] = ai[q])

OwnerTyped == \A q \in DOMAIN res : res[q] \in Owner!Row

AiTyped == \A q \in DOMAIN ai : ai[q] \in Ai!Row

LEMMA OwnerRows == OwnerKept!Inv => OwnerTyped /\ DOMAIN res \subseteq Requests /\ now \in Nat
BY DEF OwnerKept!Inv, OwnerKept!TypeOK, OwnerTyped, OwnerKept!Row, Owner!Row, Owner!Status,
       OwnerKept!Status, Owner!MaxActual, OwnerKept!MaxActual

LEMMA AiRows == AiKept!Inv => AiTyped /\ DOMAIN ai \subseteq Requests
BY DEF AiKept!Inv, AiKept!TypeOK, AiTyped, AiKept!Row, Ai!Row, Ai!Status, AiKept!Status

LEMMA OwnerMarked ==
    ASSUME OwnerTyped, NEW r, NEW S, S \subseteq Owner!Active,
           NEW s \in {"released", "expired"}, res' = Owner!Marked(S, s)
    PROVE  OwnerMoves(r) /\ DOMAIN res' = DOMAIN res
<1>1. DOMAIN res' = DOMAIN res
  BY DEF Owner!Marked
<1>2. ASSUME NEW q \in DOMAIN res
      PROVE  /\ res'[q].key = res[q].key
             /\ res[q].status # "active" => res'[q] = res[q]
             /\ res'[q].status = "settled" => res[q].status = "settled"
  <2>1. res[q] \in Owner!Row
    BY DEF OwnerTyped
  <2>2. CASE q \in S
    BY <2>1, <2>2 DEF Owner!Marked, Owner!Active, Owner!WithStatus, Owner!Row, Owner!Status
  <2>3. CASE q \notin S
    BY <2>3 DEF Owner!Marked
  <2>4. QED
    BY <2>2, <2>3
<1>3. QED
  BY <1>1, <1>2 DEF OwnerMoves

LEMMA OwnerReserves ==
    ASSUME OwnerTyped, NEW r, r \notin DOMAIN res, NEW k, NEW e,
           Owner!Reserve(r, Unit(k), e)
    PROVE  /\ OwnerMoves(r)
           /\ DOMAIN res' \subseteq DOMAIN res \cup {r}
           /\ r \in DOMAIN res' => res'[r].key = k /\ res'[r].status = "active"
<1> DEFINE items == [x \in {r} |-> Unit(k)]
           old == Owner!Marked(Owner!Expired, "expired")
<1>1. Owner!ReserveItems(items, e) /\ Owner!Expired \subseteq Owner!Active
  BY DEF Owner!Reserve, Owner!Expired
<1>2. CASE ~Owner!Admitted(items)
  <2>1. res' = old
    BY <1>1, <1>2 DEF Owner!ReserveItems
  <2>2. QED
    BY <1>1, <2>1, OwnerMarked
<1>3. CASE Owner!Admitted(items)
  <2>1. res' = Owner!Inserted(items, e)
    BY <1>1, <1>3 DEF Owner!ReserveItems
  <2>2. DOMAIN res' = DOMAIN res \cup {r}
    BY <2>1 DEF Owner!Inserted
  <2>3. res'[r].key = k /\ res'[r].status = "active"
    BY <2>1 DEF Owner!Inserted, Unit
  <2>4. \A q \in DOMAIN res : res'[q] = old[q]
    BY <2>1 DEF Owner!Inserted
  <2>5. ASSUME NEW q \in DOMAIN res
        PROVE  /\ old[q].key = res[q].key
               /\ res[q].status # "active" => old[q] = res[q]
               /\ old[q].status = "settled" => res[q].status = "settled"
    <3>1. res[q] \in Owner!Row
      BY DEF OwnerTyped
    <3>2. CASE q \in Owner!Expired
      BY <1>1, <3>1, <3>2 DEF Owner!Marked, Owner!Active, Owner!WithStatus, Owner!Row,
         Owner!Status
    <3>3. CASE q \notin Owner!Expired
      BY <3>3 DEF Owner!Marked
    <3>4. QED
      BY <3>2, <3>3
  <2> HIDE DEF old
  <2>6. QED
    BY <2>2, <2>3, <2>4, <2>5 DEF OwnerMoves
<1>4. QED
  BY <1>2, <1>3

LEMMA OwnerSettles ==
    ASSUME OwnerTyped, NEW r, r \in Owner!Active, Owner!Settle(r, 1)
    PROVE  /\ OwnerMoves(r) /\ DOMAIN res' = DOMAIN res /\ r \in DOMAIN res
           /\ res[r].status = "active" /\ res'[r].status = "settled"
           /\ \A q \in DOMAIN res \ {r} : res'[q] = res[q]
<1>1. r \in DOMAIN res /\ res[r].status = "active" /\ {r} \cap Owner!Active = {r}
  BY DEF Owner!Active, Owner!WithStatus
<1>2. res' = [q \in DOMAIN res |->
                 IF q \in {r}
                 THEN [res[q] EXCEPT !.status = "settled", !.actual = [x \in {r} |-> 1][q]]
                 ELSE res[q]]
  BY <1>1 DEF Owner!Settle, Owner!SettleItems
<1>3. DOMAIN res' = DOMAIN res /\ \A q \in DOMAIN res \ {r} : res'[q] = res[q]
  BY <1>2
<1>4. res'[r] = [res[r] EXCEPT !.status = "settled", !.actual = 1]
  BY <1>1, <1>2
<1>5. res'[r].status = "settled" /\ res'[r].key = res[r].key
  BY <1>1, <1>4 DEF OwnerTyped, Owner!Row
<1>6. QED
  BY <1>1, <1>3, <1>5 DEF OwnerMoves

LEMMA OwnerReleases ==
    ASSUME OwnerTyped, NEW r, Owner!Release(r)
    PROVE  OwnerMoves(r) /\ DOMAIN res' = DOMAIN res
<1>1. res' = Owner!Marked({r} \cap Owner!Active, "released")
  BY DEF Owner!Release, Owner!ReleaseItems
<1>2. QED
  BY <1>1, OwnerMarked

LEMMA OwnerRests ==
    ASSUME NEW r, res' = res
    PROVE  OwnerMoves(r) /\ DOMAIN res' = DOMAIN res
BY DEF OwnerMoves

LEMMA AiMarked ==
    ASSUME AiTyped, NEW S, S \subseteq Ai!Active, NEW s
    PROVE  /\ DOMAIN Ai!Marked(S, s) = DOMAIN ai
           /\ \A q \in DOMAIN ai :
                 /\ Ai!Marked(S, s)[q].neurons = ai[q].neurons
                 /\ ai[q].status # "active" => Ai!Marked(S, s)[q] = ai[q]
                 /\ IF q \in S THEN Ai!Marked(S, s)[q].status = s
                    ELSE Ai!Marked(S, s)[q] = ai[q]
<1>1. DOMAIN Ai!Marked(S, s) = DOMAIN ai
  BY DEF Ai!Marked
<1>2. ASSUME NEW q \in DOMAIN ai
      PROVE  /\ Ai!Marked(S, s)[q].neurons = ai[q].neurons
             /\ ai[q].status # "active" => Ai!Marked(S, s)[q] = ai[q]
             /\ IF q \in S THEN Ai!Marked(S, s)[q].status = s
                ELSE Ai!Marked(S, s)[q] = ai[q]
  <2>1. ai[q] \in Ai!Row
    BY DEF AiTyped
  <2>2. CASE q \in S
    <3>1. Ai!Marked(S, s)[q] = [ai[q] EXCEPT !.status = s] /\ ai[q].status = "active"
      BY <2>2 DEF Ai!Marked, Ai!Active, Ai!WithStatus
    <3>2. Ai!Marked(S, s)[q].status = s /\ Ai!Marked(S, s)[q].neurons = ai[q].neurons
      BY <2>1, <3>1 DEF Ai!Row
    <3>3. QED
      BY <2>2, <3>1, <3>2
  <2>3. CASE q \notin S
    BY <2>3 DEF Ai!Marked
  <2>4. QED
    BY <2>2, <2>3
<1>3. QED
  BY <1>1, <1>2

LEMMA AiReserves ==
    ASSUME AiTyped, NEW r, r \notin DOMAIN ai, NEW k, NEW e,
           Ai!ReserveAi(r, k, day, Estimate, e, Cap)
    PROVE  /\ AiMoves(r)
           /\ DOMAIN ai' \subseteq DOMAIN ai \cup {r}
           /\ r \in DOMAIN ai' => ai'[r].neurons = Estimate /\ ai'[r].status = "active"
<1> DEFINE old == Ai!Marked(Ai!Expired, "expired")
<1>1. Ai!Expired \subseteq Ai!Active
  BY DEF Ai!Expired
<1>2. /\ DOMAIN old = DOMAIN ai
      /\ \A q \in DOMAIN ai :
            /\ old[q].neurons = ai[q].neurons
            /\ ai[q].status # "active" => old[q] = ai[q]
            /\ old[q].status \in {"settled", "released"} => old[q] = ai[q]
  <2> DEFINE S == Ai!Expired
  <2>1. S \subseteq Ai!Active
    BY <1>1
  <2> HIDE DEF S
  <2>2. /\ DOMAIN Ai!Marked(S, "expired") = DOMAIN ai
        /\ \A q \in DOMAIN ai :
              /\ Ai!Marked(S, "expired")[q].neurons = ai[q].neurons
              /\ ai[q].status # "active" => Ai!Marked(S, "expired")[q] = ai[q]
              /\ IF q \in S THEN Ai!Marked(S, "expired")[q].status = "expired"
                 ELSE Ai!Marked(S, "expired")[q] = ai[q]
    BY <2>1, AiMarked
  <2>3. QED
    BY <2>2 DEF S
<1>3. CASE ~(~Ai!KnownKey(k) /\ Ai!WithinCap(day, Estimate, Cap))
  <2>1. ai' = old
    BY <1>3 DEF Ai!ReserveAi
  <2> HIDE DEF old
  <2>2. QED
    BY <1>2, <2>1 DEF AiMoves
<1>4. CASE ~Ai!KnownKey(k) /\ Ai!WithinCap(day, Estimate, Cap)
  <2>1. ai' = [q \in DOMAIN ai \cup {r} |->
                  IF q = r THEN Ai!NewRow(k, day, Estimate, e) ELSE old[q]]
    BY <1>4 DEF Ai!ReserveAi
  <2> HIDE DEF old
  <2>2. DOMAIN ai' = DOMAIN ai \cup {r} /\ \A q \in DOMAIN ai : ai'[q] = old[q]
    BY <2>1
  <2>3. ai'[r].neurons = Estimate /\ ai'[r].status = "active"
    BY <2>1 DEF Ai!NewRow
  <2>4. QED
    BY <1>2, <2>2, <2>3 DEF AiMoves
<1>5. QED
  BY <1>3, <1>4

LEMMA AiSettles ==
    ASSUME AiTyped, NEW r, r \in Ai!Active, NEW a, Ai!SettleAi(r, a)
    PROVE  /\ AiMoves(r) /\ DOMAIN ai' = DOMAIN ai /\ r \in DOMAIN ai
           /\ ai'[r].status = "settled" /\ ai'[r].actual = a
<1>1. /\ r \in DOMAIN ai /\ ai[r].status = "active" /\ ai[r] \in Ai!Row
      /\ ai' = [ai EXCEPT ![r].status = "settled", ![r].actual = a]
  BY DEF Ai!Active, Ai!WithStatus, Ai!SettleAi, AiTyped
<1>2. DOMAIN ai' = DOMAIN ai /\ \A q \in DOMAIN ai \ {r} : ai'[q] = ai[q]
  BY <1>1
<1>3. /\ ai'[r].status = "settled" /\ ai'[r].actual = a
      /\ ai'[r].neurons = ai[r].neurons
  BY <1>1 DEF Ai!Row
<1>4. QED
  BY <1>1, <1>2, <1>3 DEF AiMoves

LEMMA AiReleases ==
    ASSUME AiTyped, NEW r, Ai!ReleaseAi(r)
    PROVE  /\ AiMoves(r) /\ DOMAIN ai' = DOMAIN ai /\ r \in DOMAIN ai
           /\ ai'[r].status = "released"
<1>1. r \in Ai!Active /\ ai' = Ai!Marked({r}, "released")
  BY DEF Ai!ReleaseAi
<1>2. {r} \subseteq Ai!Active /\ r \in DOMAIN ai
  BY <1>1 DEF Ai!Active, Ai!WithStatus
<1>3. /\ DOMAIN ai' = DOMAIN ai
      /\ \A q \in DOMAIN ai :
            /\ ai'[q].neurons = ai[q].neurons
            /\ ai[q].status # "active" => ai'[q] = ai[q]
            /\ IF q \in {r} THEN ai'[q].status = "released" ELSE ai'[q] = ai[q]
  BY <1>1, <1>2, AiMarked
<1>4. QED
  BY <1>2, <1>3 DEF AiMoves

LEMMA AiRests ==
    ASSUME NEW r, ai' = ai
    PROVE  AiMoves(r) /\ DOMAIN ai' = DOMAIN ai
BY DEF AiMoves

-----------------------------------------------------------------------------
(***************************************************************************)
(* The inductive invariant: what is true of each request's rows and of its *)
(* handler, next to the ledgers' own invariants.                           *)
(***************************************************************************)

\* What the answer of r took is settled, and nothing else.
Paid(r) == r \in DOMAIN ai /\ ai[r].status = "settled" /\ ai[r].actual = billed[r]

\* Only r's handler inserts rows with its id, once it is past the reservation; it settles
\* its unit for a stored exchange, and its neurons when it is done with them.
RowsSound(r) ==
    /\ r \in DOMAIN res =>
          /\ res[r].key = KeyOf[r] /\ at[r] \notin {"start", "missed"}
          /\ res[r].status = "settled" => KeyOf[r] \in stored
    /\ r \in DOMAIN ai =>
          /\ at[r] \notin {"start", "missed", "counted"}
          /\ ai[r].neurons = Estimate
          /\ ai[r].status = "released" => at[r] = "done" /\ billed[r] = 0
          /\ ai[r].status = "settled" =>
                at[r] \in {"paid", "done"} /\ ai[r].actual >= billed[r]

\* The places of a handler before its tools may have asked for an approval, and those at
\* which no inference was billed.
Unasked == {"start", "missed", "counted", "refused", "held", "broken", "owed", "overspent",
            "unbilled", "generated"}

Unbilled == {"start", "missed", "counted", "refused", "held", "overspent", "unbilled"}

HandlerSound(r) ==
    /\ at[r] \in Unbilled => billed[r] = 0
    /\ at[r] = "held" => r \in metered
    /\ asks[r] <= 1 /\ (at[r] \in Unasked => asks[r] = 0)
    /\ at[r] \in {"stored", "paid"} => KeyOf[r] \in stored
    /\ at[r] = "paid" /\ r \in metered => Paid(r)
    /\ answer[r] = "ok" =>
          /\ at[r] = "done" /\ KeyOf[r] \in stored
          /\ r \in DOMAIN res /\ res[r].status = "settled"
          /\ r \in metered => Paid(r)

Inv ==
    /\ TypeOK /\ OwnerKept!Inv /\ AiKept!Inv
    /\ \A r \in Requests : RowsSound(r) /\ HandlerSound(r)

-----------------------------------------------------------------------------
(***************************************************************************)
(* A step of the handlers is a step of each ledger, or leaves it alone.    *)
(***************************************************************************)

LEMMA ReserveIsOwners ==
    ASSUME now \in Nat, NEW r \in Requests, ReserveOwner(r)
    PROVE  Owner!Next
<1>1. Owner!Reserve(r, Unit(KeyOf[r]), now + TTL)
  BY DEF ReserveOwner
<1>2. Unit(KeyOf[r]) \in Owner!Item
  BY MessageConstants DEF Unit, Owner!Item
<1>3. now + TTL \in now..(now + TTL)
  BY MessageConstants
<1>4. QED
  BY <1>1, <1>2, <1>3 DEF Owner!Next

LEMMA SettleIsOwners ==
    ASSUME OwnerTyped, NEW r \in Requests, SettleOwner(r)
    PROVE  Owner!Next
<1>1. r \in DOMAIN res /\ Owner!Settle(r, 1)
  BY DEF SettleOwner, Owner!Active, Owner!WithStatus
<1>2. 1 \in 0..(res[r].amount + 0)
  BY <1>1 DEF OwnerTyped, Owner!Row
<1>3. QED
  BY <1>1, <1>2 DEF Owner!Next

LEMMA ReserveIsAis ==
    ASSUME now \in Nat, NEW r \in Requests, ReserveAi(r)
    PROVE  Ai!Next
<1>1. Ai!ReserveAi(r, KeyOf[r], day, Estimate, now + TTL, Cap)
  BY DEF ReserveAi
<1>2. /\ KeyOf[r] \in Keys /\ Estimate \in 1..Estimate /\ Cap \in Ai!Policies
      /\ now + TTL \in now..(now + TTL)
  BY MessageConstants DEF Ai!Policies
<1>3. QED
  BY <1>1, <1>2 DEF Ai!Next

LEMMA SettleIsAis ==
    ASSUME TypeOK, NEW r \in Requests, SettleFailed(r) \/ SettleAi(r) \/ ReleaseAi(r)
    PROVE  Ai!Next \/ UNCHANGED <<neurons, clock>>
<1>1. billed[r] \in 0..Estimate /\ Estimate \in 0..Estimate
  BY MessageConstants DEF TypeOK
<1>2. ASSUME NEW a \in 0..Estimate, Ai!SettleAi(r, a) PROVE Ai!Next
  BY <1>2 DEF Ai!Next
<1>3. Ai!ReleaseAi(r) => Ai!Next
  BY DEF Ai!Next
<1>4. CASE SettleFailed(r)
  BY <1>1, <1>2, <1>4 DEF SettleFailed
<1>5. CASE SettleAi(r)
  BY <1>1, <1>2, <1>5 DEF SettleAi
<1>6. CASE ReleaseAi(r)
  BY <1>3, <1>6 DEF ReleaseAi
<1>7. QED
  BY <1>4, <1>5, <1>6

LEMMA StepsOfLedgers ==
    ASSUME TypeOK, OwnerTyped, now \in Nat, [Next]_vars
    PROVE  [Owner!Next]_(Owner!vars) /\ [Ai!Next]_(Ai!vars)
<1> USE DEF owner, neurons, clock, Owner!vars, Ai!vars, Ai!usage, Ai!imports
<1>1. ASSUME NEW r \in Requests, Admission(r)
      PROVE  [Owner!Next]_(Owner!vars) /\ [Ai!Next]_(Ai!vars)
  <2>1. CASE ReserveOwner(r)
    BY <2>1, ReserveIsOwners
       DEF ReserveOwner, Owner!Reserve, Owner!ReserveItems
  <2>2. CASE ReserveAi(r)
    BY <2>2, ReserveIsAis DEF ReserveAi, Ai!ReserveAi
  <2>3. CASE Replay(r) \/ Decline(r) \/ AnswerLocally(r) \/ AiUnreachable(r)
    BY <2>3 DEF Replay, Decline, AnswerLocally, AiUnreachable
  <2>4. QED
    BY <1>1, <2>1, <2>2, <2>3 DEF Admission
<1>2. ASSUME NEW r \in Requests, Generation(r) \/ Throw(r) \/ Crash(r)
      PROVE  [Owner!Next]_(Owner!vars) /\ [Ai!Next]_(Ai!vars)
  BY <1>2 DEF Generation, Generate, GenerateFails, SpendLimitReached, RunTools, NoTools,
              ToolsUnavailable, Throw, Crash
<1>3. ASSUME NEW r \in Requests, Settlement(r)
      PROVE  [Owner!Next]_(Owner!vars) /\ [Ai!Next]_(Ai!vars)
  <2>1. CASE SettleOwner(r)
    BY <2>1, SettleIsOwners DEF SettleOwner, Owner!Settle, Owner!SettleItems
  <2>2. CASE ReleaseOwner(r)
    <3>1. CASE r \in DOMAIN res /\ Owner!Release(r) /\ UNCHANGED neurons
      BY <3>1 DEF Owner!Next, Owner!Release, Owner!ReleaseItems
    <3>2. QED
      BY <2>2, <3>1 DEF ReleaseOwner
  <2>3. CASE SettleFailed(r) \/ SettleAi(r) \/ ReleaseAi(r)
    BY <2>3, SettleIsAis
       DEF SettleFailed, SettleAi, ReleaseAi, Ai!SettleAi, Ai!ReleaseAi
  <2>4. CASE \/ StoreExchange(r) \/ ExchangeRefused(r) \/ AiRefused(r) \/ NothingToSettle(r)
             \/ OwnerRefused(r)
    BY <2>4 DEF StoreExchange, ExchangeRefused, AiRefused, NothingToSettle, OwnerRefused
  <2>5. QED
    BY <1>3, <2>1, <2>2, <2>3, <2>4 DEF Settlement
<1>4. CASE Tick
  BY <1>4 DEF Tick, Owner!Tick, Ai!Tick, Owner!Next, Ai!Next
<1>5. CASE UNCHANGED vars
  BY <1>5 DEF vars
<1>6. QED
  BY <1>1, <1>2, <1>3, <1>4, <1>5 DEF Next, Step

\* So the ledgers' invariants go on.
LEMMA LedgersKept ==
    ASSUME TypeOK, OwnerKept!Inv, AiKept!Inv, [Next]_vars
    PROVE  OwnerKept!Inv' /\ AiKept!Inv'
<1>1. [Owner!Next]_(Owner!vars) /\ [Ai!Next]_(Ai!vars)
  BY OwnerRows, StepsOfLedgers
<1>2. OwnerKept!Inv'
  BY <1>1, OwnerSteps, OwnerAssumed, OwnerKept!NextStep
<1>3. AiKept!Inv'
  BY <1>1, AiSteps, AiAssumed, AiKept!NextInv
<1>4. QED
  BY <1>2, <1>3

-----------------------------------------------------------------------------
(***************************************************************************)
(* Other requests' handlers and rows are as sound after a step of r.       *)
(***************************************************************************)

\* r's handler goes to p.
Moved(r, p) ==
    /\ at' \in [Requests -> Places] /\ answer' \in [Requests -> Answers]
    /\ metered' = metered
    /\ at'[r] = p
    /\ \A q \in Requests \ {r} : at'[q] = at[q] /\ answer'[q] = answer[q]

LEMMA GotoMoves ==
    ASSUME TypeOK, NEW r \in Requests, NEW p \in Places, Goto(r, p)
    PROVE  Moved(r, p) /\ answer'[r] = answer[r]
BY DEF TypeOK, Goto, Moved

LEMMA ReplyMoves ==
    ASSUME TypeOK, NEW r \in Requests, NEW a \in Answers, Reply(r, a)
    PROVE  Moved(r, "done") /\ answer'[r] = a
BY DEF TypeOK, Reply, Moved, Places

Alone(r) ==
    /\ OwnerMoves(r) /\ AiMoves(r) /\ stored \subseteq stored'
    /\ \A q \in Requests \ {r} :
          /\ at'[q] = at[q] /\ answer'[q] = answer[q]
          /\ billed'[q] = billed[q] /\ asks'[q] = asks[q]
          /\ q \in metered' <=> q \in metered

LEMMA OthersSound ==
    ASSUME NEW r \in Requests, Alone(r), NEW q \in Requests \ {r},
           RowsSound(q), HandlerSound(q)
    PROVE  RowsSound(q)' /\ HandlerSound(q)'
<1>1. /\ at'[q] = at[q] /\ answer'[q] = answer[q] /\ billed'[q] = billed[q]
      /\ asks'[q] = asks[q] /\ (q \in metered' <=> q \in metered)
      /\ stored \subseteq stored'
  BY DEF Alone
<1>2. q \in DOMAIN res' =>
         /\ q \in DOMAIN res /\ res'[q].key = res[q].key
         /\ res'[q].status = "settled" => res[q].status = "settled"
  BY DEF Alone, OwnerMoves
<1>3. q \in DOMAIN ai' =>
         /\ q \in DOMAIN ai /\ ai'[q].neurons = ai[q].neurons
         /\ ai'[q].status \in {"settled", "released"} => ai'[q] = ai[q]
  BY DEF Alone, AiMoves
<1>4. q \in DOMAIN res /\ res[q].status = "settled" =>
         q \in DOMAIN res' /\ res'[q].status = "settled"
  BY DEF Alone, OwnerMoves
<1>5. Paid(q) => Paid(q)'
  BY <1>1 DEF Alone, AiMoves, Paid
<1>6. RowsSound(q)'
  BY <1>1, <1>2, <1>3 DEF RowsSound
<1>7. HandlerSound(q)'
  BY <1>1, <1>4, <1>5 DEF HandlerSound
<1>8. QED
  BY <1>6, <1>7

\* What is shown of every step of r.
StaysSound(r) == TypeOK' /\ Alone(r) /\ RowsSound(r)' /\ HandlerSound(r)'

\* A handler that moves on and touches no row.
LEMMA QuietSound ==
    ASSUME TypeOK, NEW r \in Requests, RowsSound(r), HandlerSound(r), NEW p, Moved(r, p),
           UNCHANGED <<res, ai, billed, asks>>, stored \subseteq stored', stored' \subseteq Keys,
           answer'[r] # "ok", at[r] # "done", p \notin {"start", "counted", "held"},
           p = "missed" => at[r] = "start",
           p \in Unbilled => at[r] \in Unbilled,
           p \in Unasked => at[r] \in Unasked,
           p \in {"stored", "paid"} => KeyOf[r] \in stored',
           p = "paid" => r \notin metered,
           at[r] = "paid" => p = "done"
    PROVE  StaysSound(r)
<1>1. TypeOK'
  BY DEF TypeOK, Moved
<1>2. Alone(r)
  BY OwnerRests, AiRests DEF Alone, Moved
<1>3. RowsSound(r)'
  BY DEF RowsSound, Moved
<1>4. HandlerSound(r)'
  BY DEF HandlerSound, Moved
<1>5. QED
  BY <1>1, <1>2, <1>3, <1>4 DEF StaysSound

\* r's handler goes to p, and does not answer with success.
Went(r, p) == Moved(r, p) /\ answer'[r] # "ok"

LEMMA Goes ==
    ASSUME TypeOK, NEW r \in Requests, HandlerSound(r), at[r] # "done"
    PROVE  /\ \A p \in Places : Goto(r, p) => Went(r, p)
           /\ \A a \in Answers : a # "ok" /\ Reply(r, a) => Went(r, "done")
BY GotoMoves, ReplyMoves DEF HandlerSound, Went

LEMMA EarlySteps ==
    ASSUME TypeOK, NEW r \in Requests, RowsSound(r), HandlerSound(r),
           Replay(r) \/ Decline(r) \/ AiUnreachable(r)
    PROVE  StaysSound(r)
<1>1. UNCHANGED <<res, ai, billed, asks, stored>> /\ stored \subseteq Keys
  BY DEF Replay, Decline, AiUnreachable, owner, neurons, TypeOK
<1>2. \/ at[r] = "start" /\ Went(r, "missed")
      \/ at[r] \in {"start", "missed"} /\ Went(r, "done")
      \/ at[r] = "counted" /\ Went(r, "refused")
  BY Goes DEF Replay, Decline, AiUnreachable, Places, Answers
<1>3. QED
  BY <1>1, <1>2, QuietSound DEF Unbilled, Unasked, Went

\* AnswerLocally, SpendLimitReached, NoTools and ExchangeRefused.
LEMMA MiddleSteps ==
    ASSUME TypeOK, NEW r \in Requests, RowsSound(r), HandlerSound(r),
           AnswerLocally(r) \/ SpendLimitReached(r) \/ NoTools(r) \/ ExchangeRefused(r)
    PROVE  StaysSound(r)
<1>1. UNCHANGED <<res, ai, billed, asks, stored>> /\ stored \subseteq Keys
  BY DEF AnswerLocally, SpendLimitReached, NoTools, ExchangeRefused, owner, neurons, TypeOK
<1>2. \/ at[r] = "counted" /\ Went(r, "generated")
      \/ at[r] = "held" /\ Went(r, "overspent")
      \/ at[r] = "generated" /\ Went(r, "worded")
      \/ at[r] = "worded" /\ Went(r, "unstored")
  BY Goes DEF AnswerLocally, SpendLimitReached, NoTools, ExchangeRefused, Places
<1>3. QED
  BY <1>1, <1>2, QuietSound DEF Unbilled, Unasked, Went

LEMMA StoreSteps ==
    ASSUME TypeOK, NEW r \in Requests, RowsSound(r), HandlerSound(r), StoreExchange(r)
    PROVE  StaysSound(r)
<1>1. /\ UNCHANGED <<res, ai, billed, asks>> /\ stored \subseteq stored' /\ stored' \subseteq Keys
      /\ KeyOf[r] \in stored'
  BY MessageConstants DEF StoreExchange, owner, neurons, TypeOK
<1>2. at[r] = "worded" /\ (Went(r, "stored") \/ Went(r, "unstored"))
  BY Goes DEF StoreExchange, Places
<1>3. QED
  BY <1>1, <1>2, QuietSound DEF Unbilled, Unasked, Went

\* AiRefused, NothingToSettle, OwnerRefused, Throw and Crash.
LEMMA LateSteps ==
    ASSUME TypeOK, NEW r \in Requests, RowsSound(r), HandlerSound(r),
           AiRefused(r) \/ NothingToSettle(r) \/ OwnerRefused(r) \/ Throw(r) \/ Crash(r)
    PROVE  StaysSound(r)
<1>1. UNCHANGED <<res, ai, billed, asks, stored>> /\ stored \subseteq Keys
  BY DEF AiRefused, NothingToSettle, OwnerRefused, Throw, Crash, owner, neurons, TypeOK
<1>2. \/ at[r] = "stored" /\ r \notin metered /\ Went(r, "paid")
      \/ at[r] # "done" /\ Went(r, "done")
  BY Goes DEF AiRefused, NothingToSettle, OwnerRefused, Throw, Crash, Places, Answers
<1>3. at[r] = "stored" => KeyOf[r] \in stored
  BY DEF HandlerSound
<1>4. QED
  BY <1>1, <1>2, <1>3, QuietSound DEF Unbilled, Unasked, Went

-----------------------------------------------------------------------------
(***************************************************************************)
(* The model bills at most the estimate; the tools ask at most once.       *)
(***************************************************************************)

LEMMA GenerateSteps ==
    ASSUME TypeOK, NEW r \in Requests, RowsSound(r), HandlerSound(r),
           Generate(r) \/ GenerateFails(r)
    PROVE  StaysSound(r)
<1>1. UNCHANGED <<res, ai, asks, stored>> /\ at[r] = "held" /\ r \in metered
  BY DEF Generate, GenerateFails, owner, neurons, HandlerSound
<1>2. PICK p \in {"generated", "broken"} : Went(r, p)
  BY <1>1, Goes DEF Generate, GenerateFails, Places
<1>3. PICK n \in 0..Estimate : billed' = [billed EXCEPT ![r] = n]
  BY DEF Generate, GenerateFails
<1>4. /\ billed' \in [Requests -> 0..Estimate]
      /\ \A q \in Requests \ {r} : billed'[q] = billed[q]
  BY <1>3 DEF TypeOK
<1>5. TypeOK'
  BY <1>1, <1>2, <1>4 DEF TypeOK, Went, Moved
<1>6. Alone(r)
  BY <1>1, <1>2, <1>4, OwnerRests, AiRests DEF Alone, Went, Moved
<1>7. RowsSound(r)'
  BY <1>1, <1>2 DEF RowsSound, Went, Moved
<1>8. HandlerSound(r)'
  BY <1>1, <1>2 DEF HandlerSound, Went, Moved, Unbilled, Unasked
<1>9. QED
  BY <1>5, <1>6, <1>7, <1>8 DEF StaysSound

\* Of the calls of one answer only the first write is attempted.
LEMMA RequestedOnce ==
    ASSUME NEW calls \in ToolCalls
    PROVE  Cardinality(Requested(calls)) \in {0, 1}
<1>1. PICK n \in 1..MaxCalls : calls \in [1..n -> [kind : Kinds, works : BOOLEAN]]
  BY DEF ToolCalls
<1>2. \A i, j \in Requested(calls) : i = j
  <2>1. SUFFICES ASSUME NEW i \in Requested(calls), NEW j \in Requested(calls), i < j
                 PROVE  FALSE
    BY <1>1 DEF Requested
  <2>2. i \in 1..(j - 1) /\ calls[i].kind = "write"
    BY <1>1, <2>1 DEF Requested
  <2>3. QED
    BY <2>1, <2>2 DEF Requested
<1>3. CASE Requested(calls) = {}
  BY <1>3, FS_EmptySet
<1>4. CASE Requested(calls) # {}
  <2>1. PICK i : Requested(calls) = {i}
    BY <1>2, <1>4
  <2>2. QED
    BY <2>1, FS_Singleton
<1>5. QED
  BY <1>3, <1>4

LEMMA ToolSteps ==
    ASSUME TypeOK, NEW r \in Requests, RowsSound(r), HandlerSound(r),
           RunTools(r) \/ ToolsUnavailable(r)
    PROVE  StaysSound(r)
<1>1. /\ UNCHANGED <<res, ai, billed, stored>> /\ at[r] = "generated"
      /\ asks[r] = 0
  BY DEF RunTools, ToolsUnavailable, owner, neurons, HandlerSound, Unasked
<1>2. PICK p \in {"worded", "done"} : Went(r, p)
  BY <1>1, Goes DEF RunTools, ToolsUnavailable, Places, Answers
<1>3. \E n \in {0, 1} : Asks(r, n)
  BY RequestedOnce DEF RunTools, ToolsUnavailable
<1>4. /\ asks' \in [Requests -> Nat] /\ asks'[r] \in {0, 1}
      /\ \A q \in Requests \ {r} : asks'[q] = asks[q]
  BY <1>1, <1>3 DEF Asks, TypeOK
<1>5. TypeOK'
  BY <1>1, <1>2, <1>4 DEF TypeOK, Went, Moved
<1>6. Alone(r)
  BY <1>1, <1>2, <1>4, OwnerRests, AiRests DEF Alone, Went, Moved
<1>7. RowsSound(r)'
  BY <1>1, <1>2 DEF RowsSound, Went, Moved
<1>8. HandlerSound(r)'
  BY <1>1, <1>2, <1>4 DEF HandlerSound, Went, Moved, Unbilled, Unasked
<1>9. QED
  BY <1>5, <1>6, <1>7, <1>8 DEF StaysSound

-----------------------------------------------------------------------------
(***************************************************************************)
(* Calls of the owner's ledger.                                            *)
(***************************************************************************)

LEMMA ReserveOwnerSteps ==
    ASSUME TypeOK, OwnerTyped, NEW r \in Requests, RowsSound(r), HandlerSound(r),
           ReserveOwner(r)
    PROVE  StaysSound(r)
<1>1. /\ at[r] = "missed" /\ UNCHANGED <<ai, stored, billed, asks>>
      /\ Owner!Reserve(r, Unit(KeyOf[r]), now + TTL)
  BY DEF ReserveOwner, neurons
<1>2. r \notin DOMAIN res /\ r \notin DOMAIN ai
  BY <1>1 DEF RowsSound
<1>3. OwnerMoves(r) /\ (r \in DOMAIN res' => res'[r].key = KeyOf[r] /\ res'[r].status = "active")
  BY <1>1, <1>2, OwnerReserves
<1>4. PICK p \in {"counted", "done"} : Went(r, p)
  BY <1>1, Goes DEF ReserveOwner, ReserveReply, Places, Answers
<1>5. TypeOK'
  BY <1>1, <1>4 DEF TypeOK, Went, Moved
<1>6. Alone(r)
  BY <1>1, <1>3, <1>4, AiRests DEF Alone, Went, Moved
<1>7. RowsSound(r)'
  BY <1>1, <1>2, <1>3, <1>4 DEF RowsSound, Went, Moved
<1>8. HandlerSound(r)'
  BY <1>1, <1>4 DEF HandlerSound, Went, Moved, Unbilled, Unasked
<1>9. QED
  BY <1>5, <1>6, <1>7, <1>8 DEF StaysSound

LEMMA ReleaseOwnerSteps ==
    ASSUME TypeOK, OwnerTyped, NEW r \in Requests, RowsSound(r), HandlerSound(r),
           ReleaseOwner(r)
    PROVE  StaysSound(r) /\ UNCHANGED stored
<1>1. UNCHANGED <<ai, stored, billed, asks>>
  BY DEF ReleaseOwner, neurons, owner
<1>2. OwnerMoves(r) /\ DOMAIN res' = DOMAIN res
  BY OwnerReleases, OwnerRests DEF ReleaseOwner, owner
<1>3. \/ at[r] = "refused" /\ Went(r, "done")
      \/ at[r] = "broken" /\ Went(r, "owed")
      \/ at[r] = "overspent" /\ Went(r, "unbilled")
      \/ at[r] = "unstored" /\ (Went(r, "done") \/ Went(r, "unpaid"))
  BY Goes DEF ReleaseOwner, AfterRelease, Places, Answers
<1>4. r \in DOMAIN res => res'[r].key = res[r].key
  BY <1>2 DEF OwnerMoves
<1>5. r \in DOMAIN res /\ res'[r].status = "settled" => res[r].status = "settled"
  <2>1. CASE r \in DOMAIN res /\ Owner!Release(r)
    <3>1. res'[r] = res[r] \/ res'[r].status = "released"
      BY <2>1 DEF Owner!Release, Owner!ReleaseItems, Owner!Marked, Owner!Active,
                  Owner!WithStatus, OwnerTyped, Owner!Row
    <3>2. QED
      BY <3>1
  <2>2. QED
    BY <2>1 DEF ReleaseOwner, owner
<1>6. TypeOK'
  BY <1>1, <1>3 DEF TypeOK, Went, Moved
<1>7. Alone(r)
  BY <1>1, <1>2, <1>3, AiRests DEF Alone, Went, Moved
<1>8. RowsSound(r)'
  BY <1>1, <1>2, <1>3, <1>4, <1>5 DEF RowsSound, Went, Moved
<1>9. HandlerSound(r)'
  BY <1>1, <1>3 DEF HandlerSound, Went, Moved, Unbilled, Unasked
<1>10. QED
  BY <1>1, <1>6, <1>7, <1>8, <1>9 DEF StaysSound

LEMMA SettleOwnerSteps ==
    ASSUME TypeOK, OwnerTyped, NEW r \in Requests, RowsSound(r), HandlerSound(r),
           SettleOwner(r)
    PROVE  StaysSound(r)
<1>1. UNCHANGED <<ai, stored, billed, asks>> /\ at[r] = "paid" /\ KeyOf[r] \in stored
  BY DEF SettleOwner, neurons, HandlerSound
<1>2. /\ OwnerMoves(r) /\ DOMAIN res' = DOMAIN res /\ r \in DOMAIN res
      /\ res'[r].status = "settled"
  BY OwnerSettles DEF SettleOwner
<1>3. Moved(r, "done")
  BY ReplyMoves DEF SettleOwner, Answers
<1>4. res'[r].key = KeyOf[r]
  BY <1>2 DEF OwnerMoves, RowsSound
<1>5. TypeOK'
  BY <1>1, <1>3 DEF TypeOK, Moved
<1>6. Alone(r)
  BY <1>1, <1>2, <1>3, AiRests DEF Alone, Moved
<1>7. RowsSound(r)'
  BY <1>1, <1>2, <1>3, <1>4 DEF RowsSound, Moved
<1>8. r \in metered => Paid(r)'
  BY <1>1 DEF HandlerSound, Paid
<1>9. HandlerSound(r)'
  BY <1>1, <1>2, <1>3, <1>8 DEF HandlerSound, Moved, Unbilled, Unasked
<1>10. QED
  BY <1>5, <1>6, <1>7, <1>9 DEF StaysSound

-----------------------------------------------------------------------------
(***************************************************************************)
(* Calls of the neurons' ledger.                                           *)
(***************************************************************************)

LEMMA ReserveAiSteps ==
    ASSUME TypeOK, AiTyped, NEW r \in Requests, RowsSound(r), HandlerSound(r), ReserveAi(r)
    PROVE  StaysSound(r)
<1>1. /\ UNCHANGED <<res, stored, billed, asks>> /\ at[r] = "counted"
      /\ Ai!ReserveAi(r, KeyOf[r], day, Estimate, now + TTL, Cap)
  BY DEF ReserveAi, owner
<1>2. r \notin DOMAIN ai /\ billed[r] = 0 /\ asks[r] = 0 /\ answer[r] # "ok"
  BY <1>1 DEF RowsSound, HandlerSound, Unbilled, Unasked
<1>3. AiMoves(r) /\ (r \in DOMAIN ai' => ai'[r].neurons = Estimate /\ ai'[r].status = "active")
  BY <1>1, <1>2, AiReserves
<1>4. /\ at' \in [Requests -> Places] /\ answer' = answer /\ metered' \subseteq Requests
      /\ metered \subseteq metered' /\ at'[r] \in {"held", "refused"}
      /\ at'[r] = "held" => r \in metered'
      /\ \A q \in Requests \ {r} : at'[q] = at[q] /\ (q \in metered' <=> q \in metered)
  BY DEF ReserveAi, Goto, TypeOK, Places
<1>5. TypeOK'
  BY <1>1, <1>4 DEF TypeOK
<1>6. Alone(r)
  BY <1>1, <1>3, <1>4, OwnerRests DEF Alone
<1>7. RowsSound(r)'
  BY <1>1, <1>3, <1>4 DEF RowsSound
<1>8. HandlerSound(r)'
  BY <1>1, <1>2, <1>4 DEF HandlerSound
<1>9. QED
  BY <1>5, <1>6, <1>7, <1>8 DEF StaysSound

LEMMA SettleAiSteps ==
    ASSUME TypeOK, AiTyped, NEW r \in Requests, RowsSound(r), HandlerSound(r), SettleAi(r)
    PROVE  StaysSound(r)
<1>1. UNCHANGED <<res, stored, billed, asks>> /\ at[r] = "stored" /\ KeyOf[r] \in stored
  BY DEF SettleAi, owner, HandlerSound
<1>2. /\ AiMoves(r) /\ DOMAIN ai' = DOMAIN ai /\ r \in DOMAIN ai
      /\ ai'[r].status = "settled" /\ ai'[r].actual = billed[r]
  BY AiSettles DEF SettleAi
<1>3. PICK p \in {"paid", "done"} : Went(r, p)
  BY <1>1, Goes DEF SettleAi, Places, Answers
<1>4. ai'[r].neurons = Estimate /\ billed[r] \in Nat
  BY <1>2, MessageConstants DEF AiMoves, RowsSound, TypeOK
<1>5. TypeOK'
  BY <1>1, <1>3 DEF TypeOK, Went, Moved
<1>6. Alone(r)
  BY <1>1, <1>2, <1>3, OwnerRests DEF Alone, Went, Moved
<1>7. RowsSound(r)'
  BY <1>1, <1>2, <1>3, <1>4 DEF RowsSound, Went, Moved
<1>8. Paid(r)'
  BY <1>1, <1>2 DEF Paid
<1>9. HandlerSound(r)'
  BY <1>1, <1>3, <1>8 DEF HandlerSound, Went, Moved, Unbilled, Unasked
<1>10. QED
  BY <1>5, <1>6, <1>7, <1>9 DEF StaysSound

LEMMA SettleFailedSteps ==
    ASSUME TypeOK, AiTyped, NEW r \in Requests, RowsSound(r), HandlerSound(r),
           SettleFailed(r) \/ ReleaseAi(r)
    PROVE  StaysSound(r)
<1>1. /\ UNCHANGED <<res, stored, billed, asks>> /\ at[r] \in {"owed", "unpaid", "unbilled"}
      /\ billed[r] \in 0..Estimate /\ Estimate \in Nat
  BY MessageConstants DEF SettleFailed, ReleaseAi, owner, TypeOK
<1>2. Went(r, "done")
  BY <1>1, Goes DEF SettleFailed, ReleaseAi, Answers
<1>3. \/ ai' = ai
      \/ /\ AiMoves(r) /\ DOMAIN ai' = DOMAIN ai /\ r \in DOMAIN ai
         /\ \/ ai'[r].status = "settled" /\ ai'[r].actual \in {Estimate, billed[r]}
            \/ ai'[r].status = "released" /\ at[r] = "unbilled"
  BY AiSettles, AiReleases DEF SettleFailed, ReleaseAi, neurons
<1>4. TypeOK'
  BY <1>1, <1>2 DEF TypeOK, Went, Moved
<1>5. Alone(r)
  BY <1>1, <1>2, <1>3, OwnerRests, AiRests DEF Alone, Went, Moved
<1>6. at[r] = "unbilled" => billed[r] = 0
  BY DEF HandlerSound, Unbilled
<1>7. RowsSound(r)'
  <2>1. CASE ai' = ai
    BY <1>1, <1>2, <2>1 DEF RowsSound, Went, Moved
  <2>2. CASE ai' # ai
    <3>1. ai'[r].neurons = Estimate
      BY <1>3, <2>2 DEF AiMoves, RowsSound
    <3>2. QED
      BY <1>1, <1>2, <1>3, <1>6, <2>2, <3>1 DEF RowsSound, Went, Moved
  <2>3. QED
    BY <2>1, <2>2
<1>8. HandlerSound(r)'
  BY <1>1, <1>2 DEF HandlerSound, Went, Moved, Unbilled, Unasked
<1>9. QED
  BY <1>4, <1>5, <1>7, <1>8 DEF StaysSound

-----------------------------------------------------------------------------

LEMMA StepSound ==
    ASSUME TypeOK, OwnerTyped, AiTyped, NEW r \in Requests, RowsSound(r), HandlerSound(r),
           Step(r)
    PROVE  StaysSound(r)
<1>1. CASE Admission(r)
  BY <1>1, EarlySteps, MiddleSteps, ReserveOwnerSteps, ReserveAiSteps DEF Admission
<1>2. CASE Generation(r)
  BY <1>2, GenerateSteps, MiddleSteps, ToolSteps DEF Generation
<1>3. CASE Settlement(r)
  BY <1>3, StoreSteps, MiddleSteps, LateSteps, ReleaseOwnerSteps, SettleOwnerSteps,
     SettleAiSteps, SettleFailedSteps
     DEF Settlement
<1>4. QED
  BY <1>1, <1>2, <1>3, LateSteps DEF Step

LEMMA InitInv == Init => Inv
<1> SUFFICES ASSUME Init PROVE Inv
  OBVIOUS
<1>1. Owner!Init => OwnerKept!Init
  BY DEF Owner!Init, OwnerKept!Init, Owner!Shards, OwnerKept!Shards
<1>2. Ai!Init => AiKept!Init
  BY DEF Ai!Init, AiKept!Init, Ai!Shards, AiKept!Shards, Ai!Months, AiKept!Months
<1>3. OwnerKept!Inv /\ AiKept!Inv
  BY <1>1, <1>2, OwnerAssumed, AiAssumed, OwnerKept!InitInv, AiKept!InitInv DEF Init
<1>4. DOMAIN res = {} /\ DOMAIN ai = {}
  BY DEF Init, Owner!Init, Ai!Init
<1>5. TypeOK
  BY MessageConstants DEF Init, TypeOK, Places, Answers
<1>6. \A r \in Requests : RowsSound(r) /\ HandlerSound(r)
  BY <1>4 DEF Init, RowsSound, HandlerSound
<1>7. QED
  BY <1>3, <1>5, <1>6 DEF Inv

LEMMA NextInv == Inv /\ [Next]_vars => Inv'
<1> SUFFICES ASSUME Inv, [Next]_vars PROVE Inv'
  OBVIOUS
<1>1. OwnerTyped /\ AiTyped /\ TypeOK
  BY OwnerRows, AiRows DEF Inv
<1>2. OwnerKept!Inv' /\ AiKept!Inv'
  BY LedgersKept DEF Inv
<1>3. ASSUME NEW r \in Requests, Step(r)
      PROVE  TypeOK' /\ \A q \in Requests : RowsSound(q)' /\ HandlerSound(q)'
  <2>1. StaysSound(r)
    BY <1>1, <1>3, StepSound DEF Inv
  <2>2. QED
    BY <2>1, OthersSound DEF StaysSound, Inv
<1>4. CASE Tick \/ UNCHANGED vars
  <2>1. UNCHANGED <<res, ai, stored, at, answer, metered, billed, asks>>
    BY <1>4 DEF Tick, Owner!Tick, vars, owner, neurons, handler
  <2>2. TypeOK'
    BY <1>1, <2>1 DEF TypeOK
  <2>3. \A q \in Requests : RowsSound(q)' /\ HandlerSound(q)'
    BY <2>1 DEF Inv, RowsSound, HandlerSound, Paid
  <2>4. QED
    BY <1>2, <2>2, <2>3 DEF Inv
<1>5. QED
  BY <1>2, <1>3, <1>4 DEF Inv, Next

\* Every reachable state satisfies the inductive invariant.
LEMMA Invariance == Spec => []Inv
BY InitInv, NextInv, PTL DEF Spec

\* The handlers' places, answers and bills are typed, and only one with a reservation was
\* billed.
THEOREM MessageTypeCorrect == Spec => []TypeOK
<1>1. Inv => TypeOK
  BY DEF Inv
<1>2. QED
  BY <1>1, Invariance, PTL

\* For any number of deliveries of any number of messages, whatever is lost, expires or
\* dies on the way: a billed inference is never released nor settled for less, an attempt
\* asks its owner at most once, and a fresh answer was stored and paid for exactly
\* (apps/assistant-worker/src/index.ts).
THEOREM AttemptsAreAccounted == Spec => []AttemptsAccounted
<1>1. Inv => AttemptsAccounted
  <2>1. SUFFICES ASSUME Inv PROVE AttemptsAccounted
    OBVIOUS
  <2>2. DOMAIN ai \subseteq Requests
    BY <2>1, AiRows DEF Inv
  <2>3. BilledNotReleased
    BY <2>1, <2>2 DEF Inv, RowsSound, BilledNotReleased
  <2>4. OneApprovalPerAttempt
    BY <2>1 DEF Inv, HandlerSound, OneApprovalPerAttempt
  <2>5. AnsweredMeansSettled
    BY <2>1 DEF Inv, HandlerSound, Paid, AnsweredMeansSettled
  <2>6. QED
    BY <2>3, <2>4, <2>5 DEF AttemptsAccounted
<1>2. QED
  BY <1>1, Invariance, PTL

-----------------------------------------------------------------------------
(***************************************************************************)
(* Refinements.                                                            *)
(***************************************************************************)

\* The message handler calls each half of the quota object as that half's module assumes
\* of its callers, so what is proved of them holds while messages are answered.
THEOREM LedgersWithin == Spec => WithinLedgers
<1>1. Init => Owner!Init /\ Ai!Init
  BY DEF Init
<1>2. Inv /\ [Next]_vars => [Owner!Next]_(Owner!vars) /\ [Ai!Next]_(Ai!vars)
  BY OwnerRows, StepsOfLedgers DEF Inv
<1>3. Spec => UnitsWithinLedger
  BY <1>1, <1>2, Invariance, PTL DEF Spec, UnitsWithinLedger, Owner!Spec
<1>4. Spec => NeuronsWithinLedger
  BY <1>1, <1>2, Invariance, PTL DEF Spec, NeuronsWithinLedger, Ai!Spec
<1>5. QED
  BY <1>3, <1>4 DEF WithinLedgers

kept == [k \in Keys |-> IF k \in stored THEN 1 ELSE 0]

charged == [k \in Keys |-> Cardinality(SettledFor(k))]

LEMMA OneKey == Inv => \A r, q \in DOMAIN res : res[r].key = res[q].key => r = q
BY DEF Inv, OwnerKept!Inv, OwnerKept!OneReservationPerKey

\* What settles nothing charges nothing.
LEMMA ChargedSame ==
    ASSUME \A q \in DOMAIN res : /\ q \in DOMAIN res'
                                 /\ res'[q].key = res[q].key
                                 /\ res[q].status = "settled" => res'[q].status = "settled",
           \A q \in DOMAIN res' :
              res'[q].status = "settled" => q \in DOMAIN res /\ res[q].status = "settled"
    PROVE  charged' = charged
<1>1. ASSUME NEW k \in Keys
      PROVE  SettledFor(k)' = SettledFor(k)
  BY DEF SettledFor
<1>2. QED
  BY <1>1 DEF charged

LEMMA ReservedCharges ==
    ASSUME Inv, NEW r \in Requests, ReserveOwner(r) \/ ReleaseOwner(r)
    PROVE  charged' = charged /\ kept' = kept
<1>1. OwnerTyped /\ stored' = stored
  BY OwnerRows DEF Inv, ReserveOwner, ReleaseOwner
<1>2. CASE ReserveOwner(r)
  <2>1. r \notin DOMAIN res
    BY <1>2 DEF Inv, RowsSound, ReserveOwner
  <2>2. OwnerMoves(r) /\ (r \in DOMAIN res' => res'[r].status = "active")
    BY <1>1, <1>2, <2>1, OwnerReserves DEF ReserveOwner
  <2>3. charged' = charged
    BY <2>1, <2>2, ChargedSame DEF OwnerMoves
  <2>4. QED
    BY <1>1, <2>3 DEF kept
<1>3. CASE ReleaseOwner(r)
  <2>1. OwnerMoves(r) /\ DOMAIN res' = DOMAIN res
    BY <1>1, <1>3, OwnerReleases, OwnerRests DEF ReleaseOwner, owner
  <2>2. r \in DOMAIN res /\ res'[r].status = "settled" => res[r].status = "settled"
    <3>1. CASE r \in DOMAIN res /\ Owner!Release(r)
      <4>1. res'[r] = res[r] \/ res'[r].status = "released"
        BY <1>1, <3>1 DEF Owner!Release, Owner!ReleaseItems, Owner!Marked, Owner!Active,
                          Owner!WithStatus, OwnerTyped, Owner!Row
      <4>2. QED
        BY <4>1
    <3>2. QED
      BY <1>3, <3>1 DEF ReleaseOwner, owner
  <2>3. charged' = charged
    BY <2>1, <2>2, ChargedSame DEF OwnerMoves
  <2>4. QED
    BY <1>1, <2>3 DEF kept
<1>4. QED
  BY <1>2, <1>3

LEMMA SettledCharges ==
    ASSUME Inv, NEW r \in Requests, SettleOwner(r)
    PROVE  Exchange!Charge(KeyOf[r])
<1>1. OwnerTyped
  BY OwnerRows DEF Inv
<1>2. /\ OwnerMoves(r) /\ DOMAIN res' = DOMAIN res /\ r \in DOMAIN res
      /\ res[r].status = "active" /\ res'[r].status = "settled"
      /\ \A q \in DOMAIN res \ {r} : res'[q] = res[q]
  BY <1>1, OwnerSettles DEF SettleOwner
<1>3. res[r].key = KeyOf[r] /\ res'[r].key = KeyOf[r] /\ KeyOf[r] \in Keys
  BY <1>2, MessageConstants DEF Inv, RowsSound, OwnerMoves
<1>4. KeyOf[r] \in stored /\ stored' = stored
  BY DEF Inv, HandlerSound, SettleOwner
<1>5. ASSUME NEW k \in Keys, k # KeyOf[r]
      PROVE  SettledFor(k)' = SettledFor(k)
  BY <1>2, <1>3, <1>5 DEF SettledFor
<1>6. SettledFor(KeyOf[r]) = {} /\ SettledFor(KeyOf[r])' = {r}
  BY <1>2, <1>3, OneKey DEF SettledFor
<1>7. Cardinality(SettledFor(KeyOf[r])) = 0 /\ Cardinality(SettledFor(KeyOf[r])') = 1
  BY <1>6, FS_EmptySet, FS_Singleton
<1>8. charged[KeyOf[r]] = 0 /\ charged' = [charged EXCEPT ![KeyOf[r]] = 1]
  BY <1>3, <1>5, <1>7 DEF charged
<1>9. kept[KeyOf[r]] = 1 /\ kept' = kept
  BY <1>3, <1>4 DEF kept
<1>10. QED
  BY <1>8, <1>9 DEF charged, kept, Exchange!Charge

LEMMA ExchangeStep ==
    ASSUME Inv, [Next]_vars
    PROVE  [Exchange!Next]_<<kept, charged>>
<1>1. ASSUME UNCHANGED <<res, stored>> PROVE UNCHANGED <<kept, charged>>
  BY <1>1 DEF kept, charged, SettledFor
<1>2. ASSUME NEW r \in Requests, StoreExchange(r)
      PROVE  [Exchange!Next]_<<kept, charged>>
  <2>1. KeyOf[r] \in Keys /\ res' = res /\ stored' = stored \cup {KeyOf[r]}
    BY <1>2, MessageConstants DEF StoreExchange, owner
  <2>2. charged' = charged
    BY <2>1 DEF charged, SettledFor
  <2>3. CASE KeyOf[r] \in stored
    BY <1>1, <2>1, <2>3
  <2>4. CASE KeyOf[r] \notin stored
    <3>1. kept[KeyOf[r]] = 0 /\ kept' = [kept EXCEPT ![KeyOf[r]] = 1]
      BY <2>1, <2>4 DEF kept
    <3>2. Exchange!Run(KeyOf[r])
      BY <2>2, <3>1 DEF kept, charged, Exchange!Run
    <3>3. QED
      BY <2>1, <3>2 DEF Exchange!Next
  <2>5. QED
    BY <2>3, <2>4
<1>3. ASSUME NEW r \in Requests, SettleOwner(r)
      PROVE  [Exchange!Next]_<<kept, charged>>
  BY <1>3, SettledCharges, MessageConstants DEF Exchange!Next
<1>4. ASSUME NEW r \in Requests, Step(r)
      PROVE  [Exchange!Next]_<<kept, charged>>
  <2>1. CASE ReserveOwner(r) \/ ReleaseOwner(r)
    BY <2>1, ReservedCharges
  <2>2. CASE StoreExchange(r) \/ SettleOwner(r)
    BY <2>2, <1>2, <1>3
  <2>3. CASE ~(ReserveOwner(r) \/ ReleaseOwner(r) \/ StoreExchange(r) \/ SettleOwner(r))
    <3>1. UNCHANGED <<res, stored>>
      BY <1>4, <2>3
         DEF Step, Admission, Generation, Settlement, Replay, Decline, AnswerLocally,
             ReserveAi, AiUnreachable, Generate, GenerateFails, SpendLimitReached, RunTools,
             NoTools, ToolsUnavailable, ExchangeRefused, SettleFailed, ReleaseAi, SettleAi,
             AiRefused, NothingToSettle, OwnerRefused, Throw, Crash, owner
    <3>2. QED
      BY <1>1, <3>1
  <2>4. QED
    BY <2>1, <2>2, <2>3
<1>5. CASE Tick \/ UNCHANGED vars
  BY <1>1, <1>5 DEF Tick, Owner!Tick, vars, owner
<1>6. QED
  BY <1>4, <1>5 DEF Next

\* The handler implements MeteredOperation: the exchange of a key is stored at most once,
\* and its operation is charged at most once, after it is stored.
THEOREM ExchangeMetered == Spec => ChargedOncePerExchange
<1>1. Init => Exchange!Init
  <2>1. Init => \A k \in Keys : SettledFor(k) = {} /\ k \notin stored
    BY DEF Init, Owner!Init, SettledFor
  <2>2. QED
    BY <2>1, FS_EmptySet DEF Exchange!Init
<1>2. Inv /\ [Next]_vars => [Exchange!Next]_<<kept, charged>>
  BY ExchangeStep
<1>3. QED
  BY <1>1, <1>2, Invariance, PTL DEF Spec, ChargedOncePerExchange, Exchange!Spec, kept, charged

=============================================================================
