------------------------- MODULE QuotaLedgerProofs -------------------------
(***************************************************************************)
(* Proofs about QuotaLedger.  The inductive invariant is the conjunction   *)
(* of the type invariant with the two accounting equations and key         *)
(* uniqueness; sums of amounts are cardinalities of unit sets, so the      *)
(* arithmetic rests on the library's facts about finite sets.              *)
(***************************************************************************)
EXTENDS QuotaLedger, FiniteSetTheorems, TLAPS

-----------------------------------------------------------------------------
(***************************************************************************)
(* Unit sets.                                                              *)
(***************************************************************************)

\* The units of finitely many reservations are finitely many.
LEMMA HeldFinite ==
    ASSUME NEW rows, NEW S, IsFiniteSet(S), NEW b
    PROVE  /\ IsFiniteSet(HeldUnits(rows, S, b))
           /\ Cardinality(HeldUnits(rows, S, b)) \in Nat
<1>1. MaxAmount \in Int /\ 1 \in Int
  BY QuotaConstants
<1>2. IsFiniteSet(1..MaxAmount)
  BY <1>1, FS_Interval
<1>3. IsFiniteSet(S \X (1..MaxAmount))
  BY <1>2, FS_Product
<1>4. HeldUnits(rows, S, b) \in SUBSET (S \X (1..MaxAmount))
  BY DEF HeldUnits
<1>5. IsFiniteSet(HeldUnits(rows, S, b))
  BY <1>3, <1>4, FS_Subset
<1>6. QED
  BY <1>5, FS_CardinalityType

\* The same for the units that settled reservations report.
LEMMA SpentFinite ==
    ASSUME NEW rows, NEW S, IsFiniteSet(S), NEW b
    PROVE  /\ IsFiniteSet(SpentUnits(rows, S, b))
           /\ Cardinality(SpentUnits(rows, S, b)) \in Nat
<1>1. MaxActual \in Int /\ 1 \in Int
  BY QuotaConstants DEF MaxActual
<1>2. IsFiniteSet(1..MaxActual)
  BY <1>1, FS_Interval
<1>3. IsFiniteSet(S \X (1..MaxActual))
  BY <1>2, FS_Product
<1>4. SpentUnits(rows, S, b) \in SUBSET (S \X (1..MaxActual))
  BY DEF SpentUnits
<1>5. IsFiniteSet(SpentUnits(rows, S, b))
  BY <1>3, <1>4, FS_Subset
<1>6. QED
  BY <1>5, FS_CardinalityType

\* The units of disjoint sets of reservations add up.
LEMMA HeldUnion ==
    ASSUME NEW rows, NEW S, NEW T, IsFiniteSet(S), IsFiniteSet(T), S \cap T = {}, NEW b
    PROVE  Cardinality(HeldUnits(rows, S \cup T, b)) =
             Cardinality(HeldUnits(rows, S, b)) + Cardinality(HeldUnits(rows, T, b))
<1> DEFINE A == HeldUnits(rows, S, b)
           B == HeldUnits(rows, T, b)
<1>1. HeldUnits(rows, S \cup T, b) = A \cup B
  BY DEF HeldUnits
<1>2. A \cap B = {}
  BY DEF HeldUnits
<1>3. IsFiniteSet(A) /\ IsFiniteSet(B) /\ Cardinality(A) \in Nat /\ Cardinality(B) \in Nat
  BY HeldFinite
<1>4. Cardinality(A \cup B) = Cardinality(A) + Cardinality(B) - Cardinality(A \cap B)
  BY <1>3, FS_Union
<1>5. Cardinality(A \cap B) = 0
  BY <1>2, FS_EmptySet
<1> HIDE DEF A, B
<1>6. Cardinality(A \cup B) = Cardinality(A) + Cardinality(B)
  BY <1>3, <1>4, <1>5
<1>7. QED
  BY <1>1, <1>6 DEF A, B

\* The same for the units that settled reservations report.
LEMMA SpentUnion ==
    ASSUME NEW rows, NEW S, NEW T, IsFiniteSet(S), IsFiniteSet(T), S \cap T = {}, NEW b
    PROVE  Cardinality(SpentUnits(rows, S \cup T, b)) =
             Cardinality(SpentUnits(rows, S, b)) + Cardinality(SpentUnits(rows, T, b))
<1> DEFINE A == SpentUnits(rows, S, b)
           B == SpentUnits(rows, T, b)
<1>1. SpentUnits(rows, S \cup T, b) = A \cup B
  BY DEF SpentUnits
<1>2. A \cap B = {}
  BY DEF SpentUnits
<1>3. IsFiniteSet(A) /\ IsFiniteSet(B) /\ Cardinality(A) \in Nat /\ Cardinality(B) \in Nat
  BY SpentFinite
<1>4. Cardinality(A \cup B) = Cardinality(A) + Cardinality(B) - Cardinality(A \cap B)
  BY <1>3, FS_Union
<1>5. Cardinality(A \cap B) = 0
  BY <1>2, FS_EmptySet
<1> HIDE DEF A, B
<1>6. Cardinality(A \cup B) = Cardinality(A) + Cardinality(B)
  BY <1>3, <1>4, <1>5
<1>7. QED
  BY <1>1, <1>6 DEF A, B

\* Taking reservations away takes their units away.
LEMMA HeldRemove ==
    ASSUME NEW rows, NEW S, NEW T, IsFiniteSet(S), T \subseteq S, NEW b
    PROVE  /\ Cardinality(HeldUnits(rows, S \ T, b)) =
                Cardinality(HeldUnits(rows, S, b)) - Cardinality(HeldUnits(rows, T, b))
           /\ Cardinality(HeldUnits(rows, T, b)) <= Cardinality(HeldUnits(rows, S, b))
<1>1. IsFiniteSet(S \ T)
  BY FS_Difference
<1>2. IsFiniteSet(T)
  BY FS_Subset
<1>3. (S \ T) \cup T = S /\ (S \ T) \cap T = {}
  OBVIOUS
<1>4. Cardinality(HeldUnits(rows, S, b)) =
        Cardinality(HeldUnits(rows, S \ T, b)) + Cardinality(HeldUnits(rows, T, b))
  BY <1>1, <1>2, <1>3, HeldUnion
<1>5. /\ Cardinality(HeldUnits(rows, S, b)) \in Nat
      /\ Cardinality(HeldUnits(rows, S \ T, b)) \in Nat
      /\ Cardinality(HeldUnits(rows, T, b)) \in Nat
  BY <1>1, <1>2, HeldFinite
<1>6. QED
  BY <1>4, <1>5

\* Units depend only on the bucket and the amount of a row.
LEMMA HeldSame ==
    ASSUME NEW rows, NEW rows2, NEW S, NEW b,
           \A r \in S : rows2[r].bucket = rows[r].bucket /\ rows2[r].amount = rows[r].amount
    PROVE  HeldUnits(rows2, S, b) = HeldUnits(rows, S, b)
BY DEF HeldUnits

\* Spent units depend only on the bucket and the actual amount of a row.
LEMMA SpentSame ==
    ASSUME NEW rows, NEW rows2, NEW S, NEW b,
           \A r \in S : rows2[r].bucket = rows[r].bucket /\ rows2[r].actual = rows[r].actual
    PROVE  SpentUnits(rows2, S, b) = SpentUnits(rows, S, b)
BY DEF SpentUnits

-----------------------------------------------------------------------------
(***************************************************************************)
(* The inductive invariant.  ReservedMatchesActive is what makes a hold    *)
(* returned exactly once (MAX(0, ...) never bites), and neither accounting *)
(* equation is inductive without the types of the rows.                    *)
(***************************************************************************)

Accounts == ReservedMatchesActive /\ UsedMatchesSettled

Inv == TypeOK /\ Accounts /\ OneReservationPerKey

\* The rows of each status are finitely many.
LEMMA StatusFinite ==
    ASSUME TypeOK
    PROVE  \A s : IsFiniteSet(WithStatus(s)) /\ WithStatus(s) \subseteq DOMAIN res
<1> TAKE s
<1>1. WithStatus(s) \in SUBSET DOMAIN res
  BY DEF WithStatus
<1>2. IsFiniteSet(DOMAIN res)
  BY DEF TypeOK
<1>3. QED
  BY <1>1, <1>2, FS_Subset

\* Returning the holds of some active reservations leaves exactly the holds of the
\* other active ones: the subtraction in #release, #settle and #reapExpired is exact.
LEMMA ReturnedExact ==
    ASSUME TypeOK, ReservedMatchesActive, NEW S, S \subseteq Active
    PROVE  /\ Returned(S) \in [Buckets -> Nat]
           /\ \A b \in Buckets :
                 /\ Returned(S)[b] = Cardinality(HeldUnits(res, Active \ S, b))
                 /\ Returned(S)[b] = reserved[b] - Cardinality(HeldUnits(res, S, b))
                 /\ Cardinality(HeldUnits(res, S, b)) \in Nat
<1>1. IsFiniteSet(Active)
  BY StatusFinite DEF Active
<1>2. IsFiniteSet(S)
  BY <1>1, FS_Subset
<1>3. ASSUME NEW b \in Buckets
      PROVE  /\ Returned(S)[b] \in Nat
             /\ Returned(S)[b] = Cardinality(HeldUnits(res, Active \ S, b))
             /\ Returned(S)[b] = reserved[b] - Cardinality(HeldUnits(res, S, b))
             /\ Cardinality(HeldUnits(res, S, b)) \in Nat
  <2>1. Cardinality(HeldUnits(res, Active, b)) \in Nat
    BY <1>1, HeldFinite
  <2>2. Cardinality(HeldUnits(res, S, b)) \in Nat
    BY <1>2, HeldFinite
  <2>3. /\ Cardinality(HeldUnits(res, Active \ S, b)) =
             Cardinality(HeldUnits(res, Active, b)) - Cardinality(HeldUnits(res, S, b))
        /\ Cardinality(HeldUnits(res, S, b)) <= Cardinality(HeldUnits(res, Active, b))
    BY <1>1, HeldRemove
  <2>4. reserved[b] = Cardinality(HeldUnits(res, Active, b))
    BY DEF ReservedMatchesActive
  <2>5. Returned(S)[b] = Monus(reserved[b], Cardinality(HeldUnits(res, S, b)))
    BY DEF Returned
  <2>6. QED
    BY <2>1, <2>2, <2>3, <2>4, <2>5 DEF Monus
<1>4. Returned(S) = [b \in Buckets |-> Returned(S)[b]]
  BY DEF Returned
<1>5. QED
  BY <1>3, <1>4

\* A status change keeps the table well typed.
LEMMA MarkedType ==
    ASSUME TypeOK, NEW S, NEW s \in Status
    PROVE  /\ Marked(S, s) \in [DOMAIN res -> Row]
           /\ DOMAIN Marked(S, s) = DOMAIN res
BY DEF TypeOK, Marked, Row

\* Releasing or expiring active reservations keeps both accounts exact.
LEMMA LeaveStep ==
    ASSUME TypeOK, Accounts, NEW S, S \subseteq Active,
           NEW s \in {"released", "expired"},
           res' = Marked(S, s), reserved' = Returned(S), used' = used, legacy' = legacy,
           markers' = markers
    PROVE  Accounts'
<1>1. TypeOK /\ DOMAIN res' = DOMAIN res
  BY DEF Marked
<1>2. Active' = Active \ S
  BY <1>1 DEF Active, WithStatus, Marked
<1>3. WithStatus("settled")' = WithStatus("settled")
  BY <1>1 DEF Active, WithStatus, Marked
<1>4. \A r \in DOMAIN res : /\ res'[r].bucket = res[r].bucket
                            /\ res'[r].amount = res[r].amount
                            /\ res'[r].actual = res[r].actual
  BY DEF Marked, TypeOK, Row
<1>5. \A b \in Buckets : HeldUnits(res', Active \ S, b) = HeldUnits(res, Active \ S, b)
  BY <1>4, HeldSame DEF Active, WithStatus
<1>6. ReservedMatchesActive'
  BY <1>2, <1>5, ReturnedExact DEF ReservedMatchesActive, Accounts
<1>7. \A b \in Buckets : SpentUnits(res', WithStatus("settled"), b) =
                           SpentUnits(res, WithStatus("settled"), b)
  BY <1>4, SpentSame DEF WithStatus
<1>8. UsedMatchesSettled'
  BY <1>3, <1>7 DEF UsedMatchesSettled, Accounts
<1>9. QED
  BY <1>6, <1>8 DEF Accounts

-----------------------------------------------------------------------------
(***************************************************************************)
(* One lemma per handler.                                                  *)
(***************************************************************************)

\* What a step may do to a row: OutcomeIsFinal for one step.
Final ==
    \A r \in DOMAIN res :
        /\ r \in DOMAIN res'
        /\ res[r].status # "active" => res'[r] = res[r]
        /\ [res'[r] EXCEPT !.status = res[r].status, !.actual = res[r].actual] = res[r]

\* What a step may do to the accounted totals: GrowthWithinLimit for one step.
Growth ==
    \A b \in Buckets :
        \/ markers' # markers
        \/ OverrunsIn(b)
        \/ (used[b] + reserved[b])' <= used[b] + reserved[b]
        \/ ~OverLimit(b)'

\* The rows #reapExpired selects are active.
LEMMA ExpiredActive == Expired \subseteq Active
BY DEF Expired

\* Returning holds never makes a total grow.
LEMMA LeaveGrowth ==
    ASSUME TypeOK, ReservedMatchesActive, NEW S, S \subseteq Active,
           reserved' = Returned(S), used' = used
    PROVE  Growth
<1> SUFFICES ASSUME NEW b \in Buckets
             PROVE  (used[b] + reserved[b])' <= used[b] + reserved[b]
  BY DEF Growth
<1>1. used[b] \in Nat /\ reserved[b] \in Nat
  BY DEF TypeOK
<1>2. /\ Returned(S)[b] = reserved[b] - Cardinality(HeldUnits(res, S, b))
      /\ Cardinality(HeldUnits(res, S, b)) \in Nat
  BY ReturnedExact
<1>3. (used[b] + reserved[b])' = used[b] + Returned(S)[b]
  OBVIOUS
<1>4. QED
  BY <1>1, <1>2, <1>3

\* #release and #releaseBatch.
LEMMA ReleaseStep ==
    ASSUME Inv, NEW R, ReleaseItems(R)
    PROVE  Inv' /\ Final /\ Growth
<1> DEFINE freed == R \cap Active
<1>1. /\ res' = Marked(freed, "released")
      /\ reserved' = Returned(freed)
      /\ used' = used /\ policy' = policy /\ legacy' = legacy
      /\ markers' = markers /\ now' = now
  BY DEF ReleaseItems
<1>2. freed \subseteq Active
  OBVIOUS
<1>3. TypeOK /\ Accounts /\ ReservedMatchesActive /\ OneReservationPerKey
  BY DEF Inv, Accounts
<1> HIDE DEF freed
<1>4. "released" \in Status /\ "released" \in {"released", "expired"}
  BY DEF Status
<1>5. Accounts'
  BY <1>1, <1>2, <1>3, <1>4, LeaveStep
<1>6. Returned(freed) \in [Buckets -> Nat]
  BY <1>2, <1>3, ReturnedExact
<1>7. Marked(freed, "released") \in [DOMAIN res -> Row] /\ DOMAIN res' = DOMAIN res
  BY <1>1, <1>3, <1>4, MarkedType
<1>8. TypeOK'
  BY <1>1, <1>3, <1>6, <1>7 DEF TypeOK
<1>9. \A r \in DOMAIN res : res'[r].key = res[r].key
  BY <1>1, <1>3 DEF Marked, TypeOK, Row
<1>10. OneReservationPerKey'
  BY <1>3, <1>7, <1>9 DEF OneReservationPerKey
<1>11. Final
  BY <1>1, <1>2, <1>3 DEF Final, Marked, TypeOK, Row, Active, WithStatus
<1>12. Growth
  BY <1>1, <1>2, <1>3, LeaveGrowth
<1>13. QED
  BY <1>5, <1>8, <1>10, <1>11, <1>12 DEF Inv

\* A reserve that is denied, or that hits its idempotency key, has only reaped.
LEMMA ReapStep ==
    ASSUME Inv, res' = Marked(Expired, "expired"), reserved' = Returned(Expired),
           UNCHANGED <<used, policy, legacy, markers, now>>
    PROVE  Inv' /\ Final /\ Growth
<1>1. /\ used' = used /\ policy' = policy /\ legacy' = legacy
      /\ markers' = markers /\ now' = now
  OBVIOUS
<1>2. Expired \subseteq Active
  BY ExpiredActive
<1>3. TypeOK /\ Accounts /\ ReservedMatchesActive /\ OneReservationPerKey
  BY DEF Inv, Accounts
<1>4. "expired" \in Status /\ "expired" \in {"released", "expired"}
  BY DEF Status
<1>5. Accounts'
  BY <1>1, <1>2, <1>3, <1>4, LeaveStep
<1>6. Returned(Expired) \in [Buckets -> Nat]
  BY <1>2, <1>3, ReturnedExact
<1>7. Marked(Expired, "expired") \in [DOMAIN res -> Row] /\ DOMAIN res' = DOMAIN res
  BY <1>3, <1>4, MarkedType
<1>8. TypeOK'
  BY <1>1, <1>3, <1>6, <1>7 DEF TypeOK
<1>9. \A r \in DOMAIN res : res'[r].key = res[r].key
  BY <1>3 DEF Marked, TypeOK, Row
<1>10. OneReservationPerKey'
  BY <1>3, <1>7, <1>9 DEF OneReservationPerKey
<1>11. Final
  BY <1>2, <1>3 DEF Final, Marked, TypeOK, Row, Active, WithStatus
<1>12. Growth
  BY <1>1, <1>2, <1>3, LeaveGrowth
<1>13. QED
  BY <1>5, <1>8, <1>10, <1>11, <1>12 DEF Inv

\* An admitted reserve: the fresh ids become active rows, what had expired is reaped.
LEMMA AdmitStep ==
    ASSUME Inv, NEW D, D \subseteq Ids, IsFiniteSet(D), NEW items \in [D -> Item],
           NEW e \in Nat, Distinct(items), CallerIds(items), Admitted(items),
           ReserveItems(items, e)
    PROVE  Inv' /\ Final /\ Growth
<1>1. /\ res' = Inserted(items, e)
      /\ reserved' = [b \in Buckets |-> Returned(Expired)[b] + Demand(items, b)]
      /\ used' = used /\ policy' = policy /\ legacy' = legacy
      /\ markers' = markers /\ now' = now
  BY DEF ReserveItems
<1>2. /\ TypeOK /\ Accounts /\ ReservedMatchesActive /\ UsedMatchesSettled
      /\ OneReservationPerKey
  BY DEF Inv, Accounts
<1>3. DOMAIN items = D
  OBVIOUS
<1>4. D \cap DOMAIN res = {}
  BY <1>3 DEF Admitted, CallerIds, KnownKey
<1>5. DOMAIN res' = DOMAIN res \cup D
  BY <1>1, <1>3 DEF Inserted
<1>6. \A r \in D : res'[r] = [status |-> "active", key |-> items[r].key,
                              bucket |-> items[r].bucket, amount |-> items[r].amount,
                              expires |-> e, actual |-> 0]
  BY <1>1, <1>3 DEF Inserted
<1>a. \A r \in D : /\ res'[r].status = "active"
                   /\ res'[r].key = items[r].key
                   /\ res'[r].bucket = items[r].bucket
                   /\ res'[r].amount = items[r].amount
  <2> SUFFICES ASSUME NEW r \in D
               PROVE  /\ res'[r].status = "active"
                      /\ res'[r].key = items[r].key
                      /\ res'[r].bucket = items[r].bucket
                      /\ res'[r].amount = items[r].amount
    OBVIOUS
  <2>1. res'[r] = [status |-> "active", key |-> items[r].key,
                   bucket |-> items[r].bucket, amount |-> items[r].amount,
                   expires |-> e, actual |-> 0]
    BY <1>6
  <2>2. QED
    BY ONLY <2>1
<1>7. \A r \in DOMAIN res : res'[r] = Marked(Expired, "expired")[r]
  BY <1>1, <1>3, <1>4 DEF Inserted
<1>8. \A r \in DOMAIN res : /\ res'[r].key = res[r].key
                            /\ res'[r].bucket = res[r].bucket
                            /\ res'[r].amount = res[r].amount
                            /\ res'[r].actual = res[r].actual
  BY <1>2, <1>7 DEF Marked, TypeOK, Row
<1>9. Expired \subseteq Active /\ Active \subseteq DOMAIN res
  BY ExpiredActive DEF Active, WithStatus
<1>10. IsFiniteSet(Active) /\ IsFiniteSet(Active \ Expired)
  BY <1>2, StatusFinite, FS_Difference DEF Active
<1>11. Active' = (Active \ Expired) \cup D
  <2>1. \A r \in DOMAIN res : res'[r].status =
            IF r \in Expired THEN "expired" ELSE res[r].status
    BY <1>2, <1>7 DEF Marked, TypeOK, Row
  <2>2. \A r \in D : res'[r].status = "active"
    BY <1>a
  <2>3. QED
    BY <1>4, <1>5, <2>1, <2>2 DEF Active, WithStatus
<1>12. WithStatus("settled")' = WithStatus("settled")
  <2>1. \A r \in DOMAIN res : res'[r].status =
            IF r \in Expired THEN "expired" ELSE res[r].status
    BY <1>2, <1>7 DEF Marked, TypeOK, Row
  <2>2. \A r \in D : res'[r].status = "active"
    BY <1>a
  <2>3. QED
    BY <1>4, <1>5, <1>9, <2>1, <2>2 DEF Active, WithStatus
<1>13. \A b \in Buckets : /\ Returned(Expired)[b] \in Nat
                          /\ Returned(Expired)[b] <= reserved[b]
                          /\ Returned(Expired)[b] =
                               Cardinality(HeldUnits(res, Active \ Expired, b))
  <2> SUFFICES ASSUME NEW b \in Buckets
               PROVE  /\ Returned(Expired)[b] \in Nat
                      /\ Returned(Expired)[b] <= reserved[b]
                      /\ Returned(Expired)[b] =
                           Cardinality(HeldUnits(res, Active \ Expired, b))
    OBVIOUS
  <2>1. /\ Returned(Expired) \in [Buckets -> Nat]
        /\ Returned(Expired)[b] = Cardinality(HeldUnits(res, Active \ Expired, b))
        /\ Returned(Expired)[b] = reserved[b] - Cardinality(HeldUnits(res, Expired, b))
        /\ Cardinality(HeldUnits(res, Expired, b)) \in Nat
    BY <1>2, <1>9, ReturnedExact
  <2>2. reserved[b] \in Nat
    BY <1>2 DEF TypeOK
  <2>3. QED
    BY ONLY <2>1, <2>2
<1>14. \A b \in Buckets : Demand(items, b) \in Nat
  BY <1>3, HeldFinite DEF Demand
<1>15. TypeOK'
  <2>1. \A r \in D : res'[r] \in Row
    <3>1. \A r \in D : items[r] \in Item
      OBVIOUS
    <3>2. 0 \in 0..MaxActual /\ "active" \in Status
      BY QuotaConstants DEF MaxActual, Status
    <3>3. QED
      <4> SUFFICES ASSUME NEW r \in D PROVE res'[r] \in Row
        OBVIOUS
      <4>1. res'[r] = [status |-> "active", key |-> items[r].key,
                       bucket |-> items[r].bucket, amount |-> items[r].amount,
                       expires |-> e, actual |-> 0]
        BY <1>6
      <4>2. /\ items[r].key \in Keys /\ items[r].bucket \in Buckets
            /\ items[r].amount \in 1..MaxAmount
        BY <3>1 DEF Item
      <4>3. e \in Nat
        OBVIOUS
      <4>4. QED
        BY ONLY <3>2, <4>1, <4>2, <4>3 DEF Row
  <2>2. \A r \in DOMAIN res : res'[r] \in Row
    BY <1>2, <1>7, MarkedType DEF Status
  <2>3. res' \in [DOMAIN res' -> Row]
    BY <1>1, <1>3, <1>5, <2>1, <2>2 DEF Inserted
  <2>4. IsFiniteSet(DOMAIN res')
    <3>1. IsFiniteSet(DOMAIN res) /\ IsFiniteSet(D)
      BY <1>2 DEF TypeOK
    <3>2. IsFiniteSet(DOMAIN res \cup D)
      BY ONLY <3>1, FS_Union
    <3>3. QED
      BY <1>5, <3>2
  <2>5. reserved' \in [Buckets -> Nat]
    BY <1>1, <1>13, <1>14
  <2>6. QED
    BY <1>1, <1>2, <1>5, <2>3, <2>4, <2>5 DEF TypeOK
<1>16. ReservedMatchesActive'
  <2> SUFFICES ASSUME NEW b \in Buckets
               PROVE  reserved'[b] = Cardinality(HeldUnits(res', Active', b))
    BY DEF ReservedMatchesActive
  <2>1. HeldUnits(res', Active \ Expired, b) = HeldUnits(res, Active \ Expired, b)
    BY <1>8, <1>9, HeldSame
  <2>2. HeldUnits(res', D, b) = HeldUnits(items, D, b)
    BY <1>a, HeldSame
  <2>3. Cardinality(HeldUnits(res', (Active \ Expired) \cup D, b)) =
          Cardinality(HeldUnits(res', Active \ Expired, b))
            + Cardinality(HeldUnits(res', D, b))
    BY <1>4, <1>9, <1>10, HeldUnion
  <2>4. QED
    BY <1>1, <1>3, <1>11, <1>13, <2>1, <2>2, <2>3 DEF Demand
<1>17. UsedMatchesSettled'
  <2>1. \A b \in Buckets : SpentUnits(res', WithStatus("settled"), b) =
                             SpentUnits(res, WithStatus("settled"), b)
    BY <1>8, SpentSame DEF WithStatus
  <2>2. QED
    BY <1>1, <1>2, <1>12, <2>1 DEF UsedMatchesSettled
<1>18. OneReservationPerKey'
  <2>1. ASSUME NEW r \in D, NEW q \in DOMAIN res PROVE res'[r].key # res'[q].key
    BY <1>3, <1>a, <1>8 DEF Admitted, KnownKey
  <2>2. ASSUME NEW r \in D, NEW q \in D, res'[r].key = res'[q].key PROVE r = q
    BY <1>3, <1>a, <2>2 DEF Distinct
  <2>3. ASSUME NEW r \in DOMAIN res, NEW q \in DOMAIN res, res'[r].key = res'[q].key
        PROVE  r = q
    BY <1>2, <1>8, <2>3 DEF OneReservationPerKey
  <2>4. QED
    BY <1>5, <2>1, <2>2, <2>3 DEF OneReservationPerKey
<1>19. Final
  BY <1>2, <1>5, <1>7, <1>9 DEF Final, Marked, TypeOK, Row, Active, WithStatus
<1>20. Growth
  <2> SUFFICES ASSUME NEW b \in Buckets
               PROVE  \/ used'[b] + reserved'[b] <= used[b] + reserved[b]
                      \/ ~OverLimit(b)'
    BY DEF Growth
  <2>1. used[b] \in Nat /\ reserved[b] \in Nat
    BY <1>2 DEF TypeOK
  <2>2. reserved'[b] = Returned(Expired)[b] + Demand(items, b)
    BY <1>1
  <2>3. CASE \E r \in D : items[r].bucket = b
    <3>1. ~Exceeds(b, used[b] + Returned(Expired)[b] + Demand(items, b))
      BY <1>3, <2>3 DEF Admitted
    <3>2. used[b] + Returned(Expired)[b] + Demand(items, b) = used'[b] + reserved'[b]
      BY <1>1, <1>13, <1>14, <2>1, <2>2
    <3>3. ~OverLimit(b)'
      BY <1>1, <3>1, <3>2 DEF OverLimit, Exceeds
    <3>4. QED
      BY <3>3
  <2>4. CASE \A r \in D : items[r].bucket # b
    <3>1. HeldUnits(items, D, b) = {}
      BY <2>4 DEF HeldUnits
    <3>2. Demand(items, b) = 0
      BY <1>3, <3>1, FS_EmptySet DEF Demand
    <3>3. QED
      BY <1>1, <1>13, <2>1, <2>2, <3>2
  <2>5. QED
    BY <2>3, <2>4
<1>21. QED
  BY <1>15, <1>16, <1>17, <1>18, <1>19, <1>20 DEF Inv, Accounts

\* #reserve and #reserveBatch, admitted or not.
LEMMA ReserveStep ==
    ASSUME Inv, NEW D, D \subseteq Ids, IsFiniteSet(D), NEW items \in [D -> Item],
           NEW e \in Nat, Distinct(items), CallerIds(items), ReserveItems(items, e)
    PROVE  Inv' /\ Final /\ Growth
<1>1. CASE Admitted(items)
  BY <1>1, AdmitStep
<1>2. CASE ~Admitted(items)
  BY <1>2, ReapStep DEF ReserveItems
<1>3. QED
  BY <1>1, <1>2

\* #settle and #settleBatch.  Only the growth bound needs callers that do not overrun.
LEMMA SettleStep ==
    ASSUME Inv, NEW R, NEW actual \in [R -> 0..MaxActual],
           \A r \in R : actual[r] <= res[r].amount + Overrun, SettleItems(R, actual)
    PROVE  Inv' /\ Final /\ Growth
<1> DEFINE charged == R \cap Active
           settled == [r \in DOMAIN res |->
                         IF r \in charged
                         THEN [res[r] EXCEPT !.status = "settled", !.actual = actual[r]]
                         ELSE res[r]]
           spent(b) == Cardinality(SpentUnits(settled, charged, b))
<1>1. /\ res' = settled
      /\ reserved' = Returned(charged)
      /\ used' = [b \in Buckets |-> used[b] + spent(b)]
      /\ policy' = policy /\ legacy' = legacy /\ markers' = markers /\ now' = now
  BY DEF SettleItems
<1>2. /\ TypeOK /\ Accounts /\ ReservedMatchesActive /\ UsedMatchesSettled
      /\ OneReservationPerKey
  BY DEF Inv, Accounts
<1>3. charged \subseteq Active /\ charged \subseteq R /\ Active \subseteq DOMAIN res
  BY DEF Active, WithStatus
<1>4. \A r \in DOMAIN res \ charged : settled[r] = res[r]
  OBVIOUS
<1>5. \A r \in charged : settled[r] = [res[r] EXCEPT !.status = "settled",
                                                     !.actual = actual[r]]
  BY <1>3
<1>6. DOMAIN settled = DOMAIN res
  OBVIOUS
<1> HIDE DEF charged, settled
<1>7. \A r \in DOMAIN res : res[r] \in Row
  BY <1>2 DEF TypeOK
<1>8. \A r \in charged : /\ settled[r].status = "settled"
                         /\ settled[r].actual = actual[r]
                         /\ settled[r].key = res[r].key
                         /\ settled[r].bucket = res[r].bucket
                         /\ settled[r].amount = res[r].amount
                         /\ settled[r] \in Row
  <2> SUFFICES ASSUME NEW r \in charged
               PROVE  /\ settled[r].status = "settled"
                      /\ settled[r].actual = actual[r]
                      /\ settled[r].key = res[r].key
                      /\ settled[r].bucket = res[r].bucket
                      /\ settled[r].amount = res[r].amount
                      /\ settled[r] \in Row
    OBVIOUS
  <2>1. settled[r] = [res[r] EXCEPT !.status = "settled", !.actual = actual[r]]
    BY <1>5
  <2>2. res[r] \in Row /\ actual[r] \in 0..MaxActual
    BY <1>3, <1>7
  <2>3. QED
    BY ONLY <2>1, <2>2 DEF Row, Status
<1>a. ASSUME NEW r \in charged
      PROVE  [settled[r] EXCEPT !.status = res[r].status, !.actual = res[r].actual] = res[r]
  <2>1. settled[r] = [res[r] EXCEPT !.status = "settled", !.actual = actual[r]]
    BY <1>5
  <2>2. res[r] \in Row
    BY <1>3, <1>7
  <2>3. QED
    BY ONLY <2>1, <2>2 DEF Row
<1>9. IsFiniteSet(Active) /\ IsFiniteSet(charged)
  BY <1>2, <1>3, StatusFinite, FS_Subset DEF Active
<1>10. /\ Returned(charged) \in [Buckets -> Nat]
       /\ \A b \in Buckets :
            /\ Returned(charged)[b] = Cardinality(HeldUnits(res, Active \ charged, b))
            /\ Returned(charged)[b] = reserved[b] - Cardinality(HeldUnits(res, charged, b))
            /\ Cardinality(HeldUnits(res, charged, b)) \in Nat
  BY <1>2, <1>3, ReturnedExact
<1>11. \A b \in Buckets : spent(b) \in Nat
  BY <1>9, SpentFinite
<1>12. Active' = Active \ charged
  BY <1>1, <1>3, <1>4, <1>6, <1>8 DEF Active, WithStatus
<1>13. /\ WithStatus("settled")' = WithStatus("settled") \cup charged
       /\ WithStatus("settled") \cap charged = {}
  BY <1>1, <1>3, <1>4, <1>6, <1>8 DEF Active, WithStatus
<1>14. TypeOK'
  <2>1. settled \in [DOMAIN settled -> Row]
    <3>1. \A r \in DOMAIN res : settled[r] \in Row
      BY <1>4, <1>7, <1>8
    <3>2. QED
      BY <1>6, <3>1 DEF settled
  <2>2. used' \in [Buckets -> Nat]
    BY <1>1, <1>2, <1>11 DEF TypeOK
  <2>3. QED
    BY <1>1, <1>2, <1>6, <1>10, <2>1, <2>2 DEF TypeOK
<1>15. ReservedMatchesActive'
  <2>1. \A b \in Buckets : HeldUnits(res', Active \ charged, b) =
                             HeldUnits(res, Active \ charged, b)
    BY <1>1, <1>3, <1>4, HeldSame
  <2>2. QED
    BY <1>1, <1>10, <1>12, <2>1 DEF ReservedMatchesActive
<1>16. UsedMatchesSettled'
  <2> SUFFICES ASSUME NEW b \in Buckets
               PROVE  used'[b] = Cardinality(SpentUnits(res', WithStatus("settled")', b))
                                 + legacy'["owner"][b] + legacy'["public"][b]
    BY <1>1, <1>2 DEF UsedMatchesSettled
  <2>1. SpentUnits(settled, WithStatus("settled"), b) =
          SpentUnits(res, WithStatus("settled"), b)
    BY <1>4, <1>13, SpentSame DEF WithStatus
  <2>2. IsFiniteSet(WithStatus("settled"))
    BY <1>2, StatusFinite
  <2>3. Cardinality(SpentUnits(settled, WithStatus("settled") \cup charged, b)) =
          Cardinality(SpentUnits(settled, WithStatus("settled"), b)) + spent(b)
    BY <1>9, <1>13, <2>2, SpentUnion
  <2>4. used[b] = Cardinality(SpentUnits(res, WithStatus("settled"), b))
                  + legacy["owner"][b] + legacy["public"][b]
    BY <1>2 DEF UsedMatchesSettled
  <2>5. /\ legacy["owner"][b] \in Nat /\ legacy["public"][b] \in Nat
        /\ Cardinality(SpentUnits(res, WithStatus("settled"), b)) \in Nat
    BY <1>2, <2>2, SpentFinite DEF TypeOK, Shards
  <2>6. used'[b] = used[b] + spent(b)
    BY <1>1
  <2>7. spent(b) \in Nat
    BY <1>11
  <2>8. Cardinality(SpentUnits(res', WithStatus("settled")', b)) =
          Cardinality(SpentUnits(settled, WithStatus("settled") \cup charged, b))
    BY <1>1, <1>13
  <2> HIDE DEF spent
  <2>9. QED
    BY <1>1, <2>1, <2>3, <2>4, <2>5, <2>6, <2>7, <2>8
<1>17. OneReservationPerKey'
  <2>1. \A r \in DOMAIN res : settled[r].key = res[r].key
    BY <1>4, <1>8
  <2>2. QED
    BY <1>1, <1>2, <1>6, <2>1 DEF OneReservationPerKey
<1>18. Final
  <2>1. ASSUME NEW r \in DOMAIN res
        PROVE  /\ r \in DOMAIN settled
               /\ res[r].status # "active" => settled[r] = res[r]
               /\ [settled[r] EXCEPT !.status = res[r].status,
                                     !.actual = res[r].actual] = res[r]
    <3>1. CASE r \in charged
      BY <1>3, <1>6, <1>a, <3>1 DEF Active, WithStatus
    <3>2. CASE r \notin charged
      <4>1. settled[r] = res[r] /\ res[r] \in Row
        BY <1>4, <1>7, <3>2
      <4>2. [res[r] EXCEPT !.status = res[r].status, !.actual = res[r].actual] = res[r]
        BY <4>1 DEF Row
      <4>3. QED
        BY <1>6, <4>1, <4>2
    <3>3. QED
      BY <3>1, <3>2
  <2>2. QED
    BY <1>1, <2>1 DEF Final
<1>19. Growth
  <2> SUFFICES ASSUME NEW b \in Buckets, ~OverrunsIn(b)
               PROVE  used'[b] + reserved'[b] <= used[b] + reserved[b]
    BY DEF Growth
  <2>1. MaxActual \in Nat /\ MaxAmount \in Nat
    BY QuotaConstants DEF MaxActual
  <2>2. \A r \in charged : res[r].bucket = b => settled[r].actual <= res[r].amount
    <3> SUFFICES ASSUME NEW r \in charged, res[r].bucket = b
                 PROVE  settled[r].actual <= res[r].amount
      OBVIOUS
    <3>1. r \in Active /\ res'[r].status = "settled" /\ res'[r].actual = settled[r].actual
      BY <1>1, <1>3, <1>8
    <3>2. res[r] \in Row /\ settled[r] \in Row
      BY <1>3, <1>7, <1>8
    <3>3. res[r].amount \in Nat /\ settled[r].actual \in Nat
      BY <2>1, <3>2 DEF Row
    <3>4. ~(res'[r].actual > res[r].amount)
      BY <3>1 DEF OverrunsIn
    <3>5. QED
      BY ONLY <3>1, <3>3, <3>4
  <2>3. SpentUnits(settled, charged, b) \subseteq HeldUnits(res, charged, b)
    <3> SUFFICES ASSUME NEW u \in charged \X (1..MaxActual),
                        settled[u[1]].bucket = b, u[2] <= settled[u[1]].actual
                 PROVE  /\ u \in charged \X (1..MaxAmount)
                        /\ res[u[1]].bucket = b /\ u[2] <= res[u[1]].amount
      BY <2>1 DEF SpentUnits, HeldUnits
    <3>1. u[1] \in charged /\ u[2] \in 1..MaxActual /\ u = <<u[1], u[2]>>
      BY <2>1
    <3>2. settled[u[1]].actual \in Nat /\ res[u[1]].amount \in 1..MaxAmount
      <4>1. settled[u[1]] \in Row /\ res[u[1]] \in Row
        BY <1>3, <1>7, <1>8, <3>1
      <4>2. QED
        BY <2>1, <4>1 DEF Row
    <3>3. res[u[1]].bucket = b
      BY <1>8, <3>1
    <3>4. settled[u[1]].actual <= res[u[1]].amount
      BY <2>2, <3>1, <3>3
    <3> HIDE DEF settled
    <3>5. u[2] \in 1..MaxAmount /\ u[2] <= res[u[1]].amount
      BY <2>1, <3>1, <3>2, <3>4
    <3>6. QED
      BY <3>1, <3>3, <3>5
  <2>4. spent(b) <= Cardinality(HeldUnits(res, charged, b))
    BY <1>9, <2>3, HeldFinite, FS_Subset
  <2>5. used[b] \in Nat /\ reserved[b] \in Nat
    BY <1>2 DEF TypeOK
  <2>6. /\ used'[b] = used[b] + spent(b)
        /\ reserved'[b] = reserved[b] - Cardinality(HeldUnits(res, charged, b))
        /\ Cardinality(HeldUnits(res, charged, b)) \in Nat
        /\ spent(b) \in Nat
    BY <1>1, <1>10, <1>11
  <2>7. QED
    BY ONLY <2>4, <2>5, <2>6
<1>20. QED
  BY <1>14, <1>15, <1>16, <1>17, <1>18, <1>19 DEF Inv, Accounts

\* The owner's policy, the migration import and the clock touch no reservation.
LEMMA OtherStep ==
    ASSUME Inv,
           \/ \E p \in Policies : SetNonAiPolicy(p)
           \/ \E s \in Shards, usage \in LegacyUsage : ImportLegacy(s, usage)
           \/ Tick
           \/ UNCHANGED vars
    PROVE  Inv' /\ Final /\ Growth
<1>1. /\ TypeOK /\ ReservedMatchesActive /\ UsedMatchesSettled /\ OneReservationPerKey
  BY DEF Inv, Accounts
<1>2. res' = res /\ reserved' = reserved
  BY DEF SetNonAiPolicy, ImportLegacy, Tick, vars
<1>3. Active' = Active /\ WithStatus("settled")' = WithStatus("settled")
  BY <1>2 DEF Active, WithStatus
<1>4. ReservedMatchesActive' /\ OneReservationPerKey'
  BY <1>1, <1>2, <1>3 DEF ReservedMatchesActive, OneReservationPerKey
<1>5. Final
  BY <1>1, <1>2 DEF Final, TypeOK, Row
<1>6. ASSUME NEW p \in Policies, SetNonAiPolicy(p)
      PROVE  TypeOK' /\ UsedMatchesSettled' /\ Growth
  <2>1. used' = used /\ legacy' = legacy /\ markers' = markers /\ now' = now /\ policy' = p
    BY <1>6 DEF SetNonAiPolicy
  <2>2. QED
    BY <1>1, <1>2, <1>3, <2>1 DEF TypeOK, UsedMatchesSettled, Growth
<1>7. ASSUME NEW s \in Shards, NEW usage \in LegacyUsage,
             ImportLegacy(s, usage)
      PROVE  TypeOK' /\ UsedMatchesSettled' /\ Growth
  <2>1. /\ s \notin markers /\ markers' = markers \cup {s}
        /\ used' = [b \in Buckets |-> used[b] + usage[b]]
        /\ legacy' = [legacy EXCEPT ![s] = usage]
        /\ policy' = policy /\ now' = now
    BY <1>7 DEF ImportLegacy
  <2>2. usage \in [Buckets -> Nat]
    BY QuotaConstants
  <2>3. legacy' \in [Shards -> [Buckets -> Nat]] /\ used' \in [Buckets -> Nat]
    BY <1>1, <2>1, <2>2 DEF TypeOK
  <2>4. TypeOK'
    BY <1>1, <1>2, <2>1, <2>3 DEF TypeOK
  <2>5. Growth
    BY <2>1 DEF Growth
  <2>6. \A t \in Shards \ markers', b \in Buckets : legacy'[t][b] = 0
    BY <1>1, <2>1 DEF UsedMatchesSettled, TypeOK
  <2>7. ASSUME NEW b \in Buckets
        PROVE  used'[b] = Cardinality(SpentUnits(res', WithStatus("settled")', b))
                          + legacy'["owner"][b] + legacy'["public"][b]
    <3>1. /\ used[b] = Cardinality(SpentUnits(res, WithStatus("settled"), b))
                       + legacy["owner"][b] + legacy["public"][b]
          /\ legacy[s][b] = 0
      BY <1>1, <2>1 DEF UsedMatchesSettled
    <3>2. IsFiniteSet(WithStatus("settled"))
      BY <1>1, StatusFinite
    <3>3. Cardinality(SpentUnits(res, WithStatus("settled"), b)) \in Nat
      BY <3>2, SpentFinite
    <3>4. /\ legacy["owner"][b] \in Nat /\ legacy["public"][b] \in Nat
          /\ usage[b] \in Nat
      BY <1>1, <2>2 DEF TypeOK, Shards
    <3>5. used'[b] = used[b] + usage[b]
      BY <2>1
    <3>6. SpentUnits(res', WithStatus("settled")', b) =
            SpentUnits(res, WithStatus("settled"), b)
      BY <1>2, <1>3
    <3>7. CASE s = "owner"
      <4>1. legacy'["owner"] = usage /\ legacy'["public"] = legacy["public"]
        BY <1>1, <2>1, <3>7 DEF TypeOK, Shards
      <4>2. QED
        BY <3>1, <3>3, <3>4, <3>5, <3>6, <3>7, <4>1
    <3>8. CASE s = "public"
      <4>1. legacy'["public"] = usage /\ legacy'["owner"] = legacy["owner"]
        BY <1>1, <2>1, <3>8 DEF TypeOK, Shards
      <4>2. QED
        BY <3>1, <3>3, <3>4, <3>5, <3>6, <3>8, <4>1
    <3>9. QED
      BY <3>7, <3>8 DEF Shards
  <2>8. QED
    BY <2>4, <2>5, <2>6, <2>7 DEF UsedMatchesSettled
<1>8. ASSUME Tick \/ UNCHANGED vars
      PROVE  TypeOK' /\ UsedMatchesSettled' /\ Growth
  <2>1. /\ used' = used /\ legacy' = legacy /\ markers' = markers /\ policy' = policy
        /\ now' \in Nat
    BY <1>1, <1>8 DEF Tick, vars, TypeOK
  <2>2. QED
    BY <1>1, <1>2, <1>3, <2>1 DEF TypeOK, UsedMatchesSettled, Growth
<1>9. TypeOK' /\ UsedMatchesSettled' /\ Growth
  BY <1>6, <1>7, <1>8
<1>10. QED
  BY <1>4, <1>5, <1>9 DEF Inv, Accounts

-----------------------------------------------------------------------------
(***************************************************************************)
(* The theorems.                                                           *)
(***************************************************************************)

\* The empty ledger satisfies the invariant.
LEMMA InitInv == Init => Inv
<1> SUFFICES ASSUME Init PROVE Inv
  OBVIOUS
<1>1. DOMAIN res = {} /\ Active = {} /\ WithStatus("settled") = {}
  BY DEF Init, Active, WithStatus
<1>2. \A b \in Buckets : /\ HeldUnits(res, Active, b) = {}
                         /\ SpentUnits(res, WithStatus("settled"), b) = {}
  BY <1>1 DEF HeldUnits, SpentUnits
<1>3. TypeOK
  <2>1. IsFiniteSet(DOMAIN res)
    BY <1>1, FS_EmptySet
  <2>2. res \in [DOMAIN res -> Row]
    BY <1>1 DEF Init
  <2>3. QED
    BY <1>1, <2>1, <2>2, QuotaConstants DEF Init, TypeOK, Policies
<1>4. Accounts
  <2>1. \A b \in Buckets :
          /\ Cardinality(HeldUnits(res, Active, b)) = 0
          /\ Cardinality(SpentUnits(res, WithStatus("settled"), b)) = 0
    BY <1>2, FS_EmptySet
  <2>2. /\ used = [b \in Buckets |-> 0] /\ reserved = [b \in Buckets |-> 0]
        /\ legacy = [s \in Shards |-> [b \in Buckets |-> 0]]
    BY DEF Init
  <2>3. \A s \in Shards, b \in Buckets : legacy[s][b] = 0
    BY <2>2
  <2>4. QED
    BY <2>1, <2>2, <2>3 DEF Accounts, ReservedMatchesActive, UsedMatchesSettled, Shards
<1>5. OneReservationPerKey
  BY <1>1 DEF OneReservationPerKey
<1>6. QED
  BY <1>3, <1>4, <1>5 DEF Inv

\* Every step preserves the invariant and never changes an outcome; a step that
\* grows a total beyond its limit is an import or settles more than was held.
LEMMA NextStep ==
    ASSUME Inv, [Next]_vars
    PROVE  Inv' /\ Final /\ Growth
<1>1. TypeOK
  BY DEF Inv
<1>2. ASSUME NEW r \in Ids, NEW item \in Item, NEW e \in now..(now + TTL),
             Reserve(r, item, e)
      PROVE  Inv' /\ Final /\ Growth
  <2> DEFINE items == [x \in {r} |-> item]
  <2>1. items \in [{r} -> Item] /\ Distinct(items)
    BY DEF Distinct
  <2>2. IsFiniteSet({r}) /\ {r} \subseteq Ids
    BY FS_Singleton
  <2>3. e \in Nat
    BY <1>1, QuotaConstants DEF TypeOK
  <2>4. CallerIds(items) /\ ReserveItems(items, e)
    BY <1>2 DEF Reserve
  <2> HIDE DEF items
  <2>5. QED
    BY <2>1, <2>2, <2>3, <2>4, ReserveStep
<1>3. ASSUME NEW R \in Batches(Ids), NEW items \in [R -> Item],
             NEW e \in now..(now + TTL), ReserveBatch(items, e)
      PROVE  Inv' /\ Final /\ Growth
  <2>1. R \subseteq Ids /\ IsFiniteSet(R)
    BY DEF Batches
  <2>2. e \in Nat
    BY <1>1, QuotaConstants DEF TypeOK
  <2>3. QED
    BY <1>3, <2>1, <2>2, ReserveStep DEF ReserveBatch
<1>4. ASSUME NEW r \in DOMAIN res, NEW a \in 0..(res[r].amount + Overrun), Settle(r, a)
      PROVE  Inv' /\ Final /\ Growth
  <2> DEFINE actual == [x \in {r} |-> a]
  <2>1. res[r] \in Row
    BY <1>1 DEF TypeOK
  <2>2. res[r].amount \in 1..MaxAmount
    BY ONLY <2>1 DEF Row
  <2>3. a \in 0..MaxActual
    BY <2>2, QuotaConstants DEF MaxActual
  <2>4. actual \in [{r} -> 0..MaxActual]
    BY <2>3
  <2>5. \A x \in {r} : actual[x] <= res[x].amount + Overrun
    BY <2>2, QuotaConstants
  <2>6. SettleItems({r}, actual)
    BY <1>4 DEF Settle
  <2> HIDE DEF actual
  <2>7. QED
    BY <2>4, <2>5, <2>6, SettleStep
<1>5. ASSUME NEW R \in Batches(DOMAIN res), NEW f \in Actuals(R), SettleBatch(R, f)
      PROVE  Inv' /\ Final /\ Growth
  BY <1>5, SettleStep DEF SettleBatch, Actuals
<1>6. ASSUME NEW r \in DOMAIN res, Release(r)
      PROVE  Inv' /\ Final /\ Growth
  BY <1>6, ReleaseStep DEF Release
<1>7. ASSUME NEW R \in Batches(DOMAIN res), ReleaseBatch(R)
      PROVE  Inv' /\ Final /\ Growth
  BY <1>7, ReleaseStep DEF ReleaseBatch
<1>8. ASSUME \/ \E p \in Policies : SetNonAiPolicy(p)
             \/ \E s \in Shards, usage \in LegacyUsage :
                   ImportLegacy(s, usage)
             \/ Tick
             \/ UNCHANGED vars
      PROVE  Inv' /\ Final /\ Growth
  BY <1>8, OtherStep
<1>9. QED
  BY <1>2, <1>3, <1>4, <1>5, <1>6, <1>7, <1>8 DEF Next

\* The invariant holds in every reachable state.
THEOREM Invariance == Spec => []Inv
<1>1. Inv /\ [Next]_vars => Inv'
  BY NextStep
<1>2. QED
  BY InitInv, <1>1, PTL DEF Spec

\* Every table keeps its type (index.ts:136-223).
THEOREM TypeCorrect == Spec => []TypeOK
<1>1. Inv => TypeOK
  BY DEF Inv
<1>2. QED
  BY Invariance, <1>1, PTL

\* usage_rollups.reserved is exactly what the active rows hold, for any number of
\* reservations, buckets and any amounts: no handler leaks or double-returns a hold.
THEOREM ReservedExact == Spec => []ReservedMatchesActive
<1>1. Inv => ReservedMatchesActive
  BY DEF Inv, Accounts
<1>2. QED
  BY Invariance, <1>1, PTL

\* usage_rollups.used is exactly what the settled rows and the legacy shards report:
\* no handler charges twice or forgets a charge.
THEOREM UsedExact == Spec => []UsedMatchesSettled
<1>1. Inv => UsedMatchesSettled
  BY DEF Inv, Accounts
<1>2. QED
  BY Invariance, <1>1, PTL

\* An idempotency key never owns two reservations.
THEOREM OneKey == Spec => []OneReservationPerKey
<1>1. Inv => OneReservationPerKey
  BY DEF Inv
<1>2. QED
  BY Invariance, <1>1, PTL

\* All three together.
THEOREM TablesAgree == Spec => []CountersExact
<1>1. Inv => CountersExact
  BY DEF Inv, Accounts, CountersExact
<1>2. QED
  BY Invariance, <1>1, PTL

\* A settled, released or expired reservation never changes again.
THEOREM OutcomeFinal == Spec => OutcomeIsFinal
<1>1. Inv /\ [Next]_vars => [Final]_vars
  BY NextStep
<1>2. QED
  BY Invariance, <1>1, PTL DEF Spec, OutcomeIsFinal, Final

\* No accounted total grows beyond the hard limit in force, whatever the owner's policy
\* was before, except by a caller that reports more than it reserved.
THEOREM GrowthBounded == Spec => GrowthWithinLimit
<1>1. Inv /\ [Next]_vars => [Growth]_vars
  BY NextStep
<1>2. QED
  BY Invariance, <1>1, PTL DEF Spec, GrowthWithinLimit, Growth

\* A fresh request for one unit is the request #usage judges a bucket by.
OneUnit(r, k, b) == [x \in {r} |-> [key |-> k, bucket |-> b, amount |-> 1]]

LEMMA OneUnitDemand ==
    ASSUME NEW r, NEW k, NEW b
    PROVE  Demand(OneUnit(r, k, b), b) = 1
<1>1. 1 \in 1..MaxAmount
  BY QuotaConstants
<1>2. HeldUnits(OneUnit(r, k, b), {r}, b) = {<<r, 1>>}
  <2>1. ASSUME NEW u \in {r} \X (1..MaxAmount), u[2] <= OneUnit(r, k, b)[u[1]].amount
        PROVE  u = <<r, 1>>
    BY <2>1, QuotaConstants DEF OneUnit
  <2>2. /\ <<r, 1>> \in {r} \X (1..MaxAmount)
        /\ OneUnit(r, k, b)[r].bucket = b
        /\ 1 <= OneUnit(r, k, b)[r].amount
    BY <1>1 DEF OneUnit
  <2>3. QED
    BY <2>1, <2>2 DEF HeldUnits
<1>3. DOMAIN OneUnit(r, k, b) = {r}
  BY DEF OneUnit
<1>4. Cardinality({<<r, 1>>}) = 1
  BY FS_Singleton
<1>5. QED
  BY <1>2, <1>3, <1>4 DEF Demand

\* A smaller total exceeds no limit that a larger one respects.
LEMMA ExceedsMonotone ==
    ASSUME TypeOK, NEW b \in Buckets, NEW m \in Nat, NEW n \in Nat, m <= n,
           ~Exceeds(b, n)
    PROVE  ~Exceeds(b, m)
<1>1. CASE b \in Included
  <2>1. policy # Unlimited => ScaledLimit[policy][b] \in Nat
    BY <1>1, QuotaConstants DEF TypeOK, Policies
  <2>2. QED
    BY <1>1, <2>1 DEF Exceeds
<1>2. CASE b \notin Included
  <2>1. DownstreamLimit[b] \in Nat
    BY QuotaConstants
  <2>2. QED
    BY <1>2, <2>1 DEF Exceeds
<1>3. QED
  BY <1>1, <1>2

\* Admission reaps before it compares, so it sees no more than the report does.
LEMMA RoomIfUnblocked == Inv => UnblockedMeansRoom
<1> SUFFICES ASSUME Inv, NEW b \in Buckets, NEW r \in Ids, NEW k \in Keys,
                    Mode(b) # "blocked", r \notin DOMAIN res, ~KnownKey(k)
             PROVE  Admitted(OneUnit(r, k, b))
  BY DEF UnblockedMeansRoom, OneUnit
<1>1. TypeOK /\ ReservedMatchesActive
  BY DEF Inv, Accounts
<1>2. used[b] \in Nat /\ reserved[b] \in Nat
  BY <1>1 DEF TypeOK
<1>3. ~Exceeds(b, used[b] + reserved[b] + 1)
  BY DEF Mode
<1>4. Returned(Expired)[b] \in Nat /\ Returned(Expired)[b] <= reserved[b]
  <2> DEFINE back == Returned(Expired)
             held == Cardinality(HeldUnits(res, Expired, b))
  <2>1. back \in [Buckets -> Nat] /\ back[b] = reserved[b] - held /\ held \in Nat
    BY <1>1, ReturnedExact, ExpiredActive
  <2>2. back[b] \in Nat
    BY <2>1
  <2> HIDE DEF back, held
  <2>3. QED
    BY <1>2, <2>1, <2>2 DEF back
<1>5. ~Exceeds(b, used[b] + Returned(Expired)[b] + 1)
  <2>1. /\ used[b] + Returned(Expired)[b] + 1 \in Nat
        /\ used[b] + reserved[b] + 1 \in Nat
        /\ used[b] + Returned(Expired)[b] + 1 <= used[b] + reserved[b] + 1
    BY <1>2, <1>4
  <2>2. QED
    BY <1>1, <1>3, <2>1, ExceedsMonotone
<1>6. /\ DOMAIN OneUnit(r, k, b) = {r}
      /\ OneUnit(r, k, b)[r].key = k
      /\ OneUnit(r, k, b)[r].bucket = b
  BY DEF OneUnit
<1>7. {OneUnit(r, k, b)[x].bucket : x \in DOMAIN OneUnit(r, k, b)} = {b}
  BY <1>6
<1>8. Demand(OneUnit(r, k, b), b) = 1
  BY OneUnitDemand
<1>9. QED
  BY <1>5, <1>6, <1>7, <1>8 DEF Admitted

\* A bucket the usage report does not call blocked admits a fresh request for one unit,
\* whatever the limits, the policy and the expired holds (index.ts, #usage and #reserve).
THEOREM UnblockedHasRoom == Spec => []UnblockedMeansRoom
  BY Invariance, RoomIfUnblocked, PTL

=============================================================================
