--------------------------- MODULE AiLedgerProofs ---------------------------
(***************************************************************************)
(* Proofs about AiLedger, for any sets of ids, keys, days and caps and any *)
(* free allowance: the tables keep their types, the daily, the monthly and *)
(* the free-allowance accounts are those of the rows, and the spend grows  *)
(* only within the cap in force.  The properties the runs check are        *)
(* inductive together (Inv): the free allowance is safe only because the   *)
(* two counters it is computed from are exact, and a counter is exact only *)
(* because a row returns its hold in the step that closes it.              *)
(***************************************************************************)
EXTENDS AiLedger, FiniteSetTheorems, TLAPS

\* A shard without a marker has added nothing.
Unimported ==
    \A s \in Shards \ markers : /\ \A d \in Days : legacyDay[s][d] = 0
                               /\ \A m \in Months : legacyMonth[s][m] = 0

Inv == TypeOK /\ CountersExact /\ Unimported

-----------------------------------------------------------------------------
(***************************************************************************)
(* Sums of amounts.                                                        *)
(***************************************************************************)

\* The units of finitely many rows are finitely many.
LEMMA SumType ==
    ASSUME NEW S, IsFiniteSet(S), NEW f
    PROVE  IsFiniteSet(Units(S, f)) /\ Sum(S, f) \in Nat
<1>1. MaxNeurons \in Int /\ 1 \in Int
  BY AiConstants
<1>2. IsFiniteSet(1..MaxNeurons)
  BY <1>1, FS_Interval
<1>3. IsFiniteSet(S \X (1..MaxNeurons))
  BY <1>2, FS_Product
<1>4. Units(S, f) \in SUBSET (S \X (1..MaxNeurons))
  BY DEF Units
<1>5. IsFiniteSet(Units(S, f))
  BY <1>3, <1>4, FS_Subset
<1>6. QED
  BY <1>5, FS_CardinalityType DEF Sum

\* Sums over disjoint sets of rows add up.
LEMMA SumUnion ==
    ASSUME NEW S, NEW T, IsFiniteSet(S), IsFiniteSet(T), S \cap T = {}, NEW f
    PROVE  Sum(S \cup T, f) = Sum(S, f) + Sum(T, f)
<1> DEFINE A == Units(S, f)
           B == Units(T, f)
<1>1. Units(S \cup T, f) = A \cup B
  BY DEF Units
<1>2. A \cap B = {}
  BY DEF Units
<1>3. IsFiniteSet(A) /\ IsFiniteSet(B) /\ Cardinality(A) \in Nat /\ Cardinality(B) \in Nat
  BY SumType DEF Sum
<1>4. Cardinality(A \cup B) = Cardinality(A) + Cardinality(B) - Cardinality(A \cap B)
  BY <1>3, FS_Union
<1>5. Cardinality(A \cap B) = 0
  BY <1>2, FS_EmptySet
<1> HIDE DEF A, B
<1>6. Cardinality(A \cup B) = Cardinality(A) + Cardinality(B)
  BY <1>3, <1>4, <1>5
<1>7. QED
  BY <1>1, <1>6 DEF A, B, Sum

\* Taking rows away takes their amounts away.
LEMMA SumRemove ==
    ASSUME NEW S, NEW T, IsFiniteSet(S), T \subseteq S, NEW f
    PROVE  Sum(S \ T, f) = Sum(S, f) - Sum(T, f) /\ Sum(T, f) <= Sum(S, f)
<1>1. IsFiniteSet(S \ T)
  BY FS_Difference
<1>2. IsFiniteSet(T)
  BY FS_Subset
<1>3. (S \ T) \cup T = S /\ (S \ T) \cap T = {}
  OBVIOUS
<1>4. Sum(S, f) = Sum(S \ T, f) + Sum(T, f)
  BY <1>1, <1>2, <1>3, SumUnion
<1>5. Sum(S, f) \in Nat /\ Sum(S \ T, f) \in Nat /\ Sum(T, f) \in Nat
  BY <1>1, <1>2, SumType
<1>6. QED
  BY <1>4, <1>5

\* A sum depends only on the amounts of the rows it is over.
LEMMA SumSame ==
    ASSUME NEW S, NEW f, NEW g, \A r \in S : f[r] = g[r]
    PROVE  Sum(S, f) = Sum(S, g)
<1>1. Units(S, f) = Units(S, g)
  BY DEF Units
<1>2. QED
  BY <1>1 DEF Sum

\* A sum grows with the amounts.
LEMMA SumMonotonic ==
    ASSUME NEW S, IsFiniteSet(S), NEW f, NEW g,
           \A r \in S : f[r] \in Nat /\ g[r] \in Nat /\ f[r] <= g[r]
    PROVE  Sum(S, f) <= Sum(S, g)
<1>1. ASSUME NEW u \in Units(S, f)
      PROVE  u \in Units(S, g)
  <2>1. u \in S \X (1..MaxNeurons) /\ u[2] <= f[u[1]]
    BY <1>1 DEF Units
  <2>2. u[1] \in S /\ u[2] \in Int
    BY <2>1, AiConstants
  <2>3. u[2] <= g[u[1]]
    BY <2>1, <2>2
  <2>4. QED
    BY <2>1, <2>3 DEF Units
<1>2. Units(S, f) \subseteq Units(S, g)
  BY <1>1
<1>3. IsFiniteSet(Units(S, g))
  BY SumType
<1>4. QED
  BY <1>2, <1>3, FS_Subset DEF Sum

\* The sum over one row is its amount.
LEMMA SumOne ==
    ASSUME NEW r, NEW f, f[r] \in 0..MaxNeurons
    PROVE  Sum({r}, f) = f[r]
<1>1. f[r] \in Int /\ MaxNeurons \in Int /\ f[r] >= 0 /\ f[r] <= MaxNeurons
  BY AiConstants
<1>2. Units({r}, f) = {r} \X (1..f[r])
  <2>1. ASSUME NEW u
        PROVE  u \in {r} \X (1..MaxNeurons) /\ u[2] <= f[u[1]]
                 <=> u \in {r} \X (1..f[r])
    BY <1>1
  <2>2. QED
    BY <2>1 DEF Units
<1>3. IsFiniteSet({r}) /\ Cardinality({r}) = 1
  BY FS_Singleton
<1>4. IsFiniteSet(1..f[r]) /\ Cardinality(1..f[r]) = f[r]
  <2> DEFINE n == f[r]
  <2>1. n \in Int /\ n >= 0 /\ 1 \in Int
    BY <1>1
  <2> HIDE DEF n
  <2>2. IsFiniteSet(1..n) /\ Cardinality(1..n) = IF 1 > n THEN 0 ELSE n - 1 + 1
    BY <2>1, FS_Interval
  <2>3. IsFiniteSet(1..n) /\ Cardinality(1..n) = n
    BY <2>1, <2>2
  <2>4. QED
    BY <2>3 DEF n
<1>5. Cardinality({r} \X (1..f[r])) = Cardinality({r}) * Cardinality(1..f[r])
  BY <1>3, <1>4, FS_Product
<1>6. Cardinality({r} \X (1..f[r])) = f[r]
  BY <1>1, <1>3, <1>4, <1>5
<1>7. QED
  BY <1>2, <1>6 DEF Sum

\* The sum over no row is nothing.
LEMMA SumNone ==
    ASSUME NEW f
    PROVE  Sum({}, f) = 0
<1>1. Units({}, f) = {}
  BY DEF Units
<1>2. QED
  BY <1>1, FS_EmptySet DEF Sum

-----------------------------------------------------------------------------
(***************************************************************************)
(* The rows and their columns.                                             *)
(***************************************************************************)

\* What the type of a row says of its amounts.
LEMMA RowFacts ==
    ASSUME TypeOK, NEW r \in DOMAIN ai
    PROVE  /\ ai[r] \in Row
           /\ Neurons[r] \in 0..MaxNeurons /\ Granted[r] \in 0..MaxNeurons
           /\ Overage[r] \in 0..MaxNeurons /\ Actual[r] \in 0..MaxNeurons
           /\ Gratis[r] \in 0..MaxNeurons /\ Paid[r] \in 0..MaxNeurons
           /\ Granted[r] <= Neurons[r]
           /\ Gratis[r] <= Granted[r] /\ Gratis[r] <= Actual[r] /\ Paid[r] <= Overage[r]
           /\ ai[r].day \in Days /\ MonthOf[ai[r].day] \in Months
<1>1. ai[r] \in Row /\ ai[r].overage = ai[r].neurons - ai[r].free
      /\ ai[r].actual <= ai[r].neurons
  BY DEF TypeOK
<1>2. /\ ai[r].neurons \in 1..MaxNeurons /\ ai[r].free \in 0..MaxNeurons
      /\ ai[r].overage \in 0..MaxNeurons /\ ai[r].actual \in 0..MaxNeurons
      /\ ai[r].day \in Days
  BY <1>1 DEF Row
<1>3. MonthOf[ai[r].day] \in Months
  BY <1>2 DEF Months
<1> DEFINE n == ai[r].neurons
           f == ai[r].free
           a == ai[r].actual
<1>4. /\ Neurons[r] = n /\ Granted[r] = f /\ Overage[r] = n - f /\ Actual[r] = a
      /\ Gratis[r] = Lesser(a, f) /\ Paid[r] = Monus(a, f)
  BY <1>1 DEF Neurons, Granted, Overage, Actual, Gratis, Paid
<1>5. MaxNeurons \in Nat /\ n \in 1..MaxNeurons /\ f \in 0..MaxNeurons
      /\ n - f \in 0..MaxNeurons /\ a \in 0..MaxNeurons /\ a <= n
  BY <1>1, <1>2, AiConstants
<1> HIDE DEF n, f, a
<1>6. /\ f <= n
      /\ Lesser(a, f) \in 0..MaxNeurons /\ Lesser(a, f) <= f /\ Lesser(a, f) <= a
      /\ Monus(a, f) \in 0..MaxNeurons /\ Monus(a, f) <= n - f
      /\ n \in 0..MaxNeurons
  BY <1>5 DEF Lesser, Monus
<1>7. QED
  BY <1>1, <1>2, <1>3, <1>4, <1>5, <1>6

\* Any part of the stored rows is finite.
LEMMA PartsFinite ==
    ASSUME TypeOK, NEW S \in SUBSET DOMAIN ai, NEW x
    PROVE  /\ IsFiniteSet(S) /\ IsFiniteSet(On(S, x)) /\ IsFiniteSet(In(S, x))
           /\ On(S, x) \subseteq S /\ In(S, x) \subseteq S
<1>1. IsFiniteSet(S)
  BY FS_Subset DEF TypeOK
<1>2. On(S, x) \in SUBSET S /\ In(S, x) \in SUBSET S
  BY DEF On, In
<1>3. QED
  BY <1>1, <1>2, FS_Subset

\* A hold that is given back is subtracted exactly: MAX(0, ...) never bites, because
\* the columns are the sums of the active rows.
LEMMA ReturnedExact ==
    ASSUME Inv, NEW S \in SUBSET Active
    PROVE  /\ DayReturned(S) \in [Days -> Nat]
           /\ \A d \in Days :
                 /\ DayReturned(S)[d] = Sum(On(Active \ S, d), Neurons)
                 /\ DayReturned(S)[d] = dayReserved[d] - Sum(On(S, d), Neurons)
                 /\ Sum(On(S, d), Neurons) \in Nat
           /\ MonthReturned(S) \in [Months -> Nat]
           /\ \A m \in Months :
                 /\ MonthReturned(S)[m] = Sum(In(Active \ S, m), Overage)
                 /\ MonthReturned(S)[m] = monthReserved[m] - Sum(In(S, m), Overage)
                 /\ Sum(In(S, m), Overage) \in Nat
<1>1. TypeOK /\ DayAccounts /\ MonthAccounts
  BY DEF Inv, CountersExact
<1>2. Active \in SUBSET DOMAIN ai /\ S \in SUBSET DOMAIN ai
  BY DEF Active, WithStatus
<1>3. ASSUME NEW d \in Days
      PROVE  /\ DayReturned(S)[d] \in Nat
             /\ DayReturned(S)[d] = Sum(On(Active \ S, d), Neurons)
             /\ DayReturned(S)[d] = dayReserved[d] - Sum(On(S, d), Neurons)
             /\ Sum(On(S, d), Neurons) \in Nat
  <2>1. On(Active \ S, d) = On(Active, d) \ On(S, d) /\ On(S, d) \subseteq On(Active, d)
    BY DEF On
  <2>2. IsFiniteSet(On(Active, d)) /\ IsFiniteSet(On(S, d))
    BY <1>1, <1>2, PartsFinite
  <2> DEFINE a == Sum(On(Active, d), Neurons)
             b == Sum(On(S, d), Neurons)
             c == Sum(On(Active \ S, d), Neurons)
  <2>3. c = a - b /\ b <= a
    BY <2>1, <2>2, SumRemove
  <2>4. a \in Nat /\ b \in Nat
    BY <2>2, SumType
  <2>5. dayReserved[d] = a /\ DayReturned(S)[d] = Monus(dayReserved[d], b)
    BY <1>1 DEF DayAccounts, DayReturned
  <2> HIDE DEF a, b, c
  <2>6. Monus(a, b) = c /\ c \in Nat /\ c = a - b
    BY <2>3, <2>4 DEF Monus
  <2>7. QED
    BY <2>4, <2>5, <2>6 DEF a, b, c
<1>4. ASSUME NEW m \in Months
      PROVE  /\ MonthReturned(S)[m] \in Nat
             /\ MonthReturned(S)[m] = Sum(In(Active \ S, m), Overage)
             /\ MonthReturned(S)[m] = monthReserved[m] - Sum(In(S, m), Overage)
             /\ Sum(In(S, m), Overage) \in Nat
  <2>1. In(Active \ S, m) = In(Active, m) \ In(S, m) /\ In(S, m) \subseteq In(Active, m)
    BY DEF In
  <2>2. IsFiniteSet(In(Active, m)) /\ IsFiniteSet(In(S, m))
    BY <1>1, <1>2, PartsFinite
  <2> DEFINE a == Sum(In(Active, m), Overage)
             b == Sum(In(S, m), Overage)
             c == Sum(In(Active \ S, m), Overage)
  <2>3. c = a - b /\ b <= a
    BY <2>1, <2>2, SumRemove
  <2>4. a \in Nat /\ b \in Nat
    BY <2>2, SumType
  <2>5. monthReserved[m] = a /\ MonthReturned(S)[m] = Monus(monthReserved[m], b)
    BY <1>1 DEF MonthAccounts, MonthReturned
  <2> HIDE DEF a, b, c
  <2>6. Monus(a, b) = c /\ c \in Nat /\ c = a - b
    BY <2>3, <2>4 DEF Monus
  <2>7. QED
    BY <2>4, <2>5, <2>6 DEF a, b, c
<1>5. DayReturned(S) \in [Days -> Nat] /\ MonthReturned(S) \in [Months -> Nat]
  BY <1>3, <1>4 DEF DayReturned, MonthReturned
<1>6. QED
  BY <1>3, <1>4, <1>5

\* The sum over a row that may or may not be in the group.
LEMMA SumIf ==
    ASSUME NEW r, NEW f, f[r] \in 0..MaxNeurons, NEW S,
           NEW p \in BOOLEAN, S = {q \in {r} : p}
    PROVE  Sum(S, f) = IF p THEN f[r] ELSE 0
<1>1. CASE p
  <2>1. S = {r}
    BY <1>1
  <2>2. QED
    BY <1>1, <2>1, SumOne
<1>2. CASE ~p
  <2>1. S = {}
    BY <1>2
  <2>2. QED
    BY <1>2, <2>1, SumNone
<1>3. QED
  BY <1>1, <1>2

-----------------------------------------------------------------------------
(***************************************************************************)
(* The sums after a step in which the rows in S leave the active ones, the *)
(* rows in U of them being settled, and the fresh rows in N become active: *)
(* every handler's effect on the tables has this shape.                    *)
(***************************************************************************)

Shape(S, U, N) ==
    /\ DOMAIN ai' = DOMAIN ai \cup N
    /\ Active' = (Active \ S) \cup N
    /\ Settled' = Settled \cup U
    /\ \A r \in DOMAIN ai :
          /\ ai'[r].day = ai[r].day
          /\ ai'[r].neurons = ai[r].neurons
          /\ ai'[r].free = ai[r].free
          /\ ai'[r].overage = ai[r].overage
          /\ r \notin U => ai'[r].actual = ai[r].actual

\* The day's sums: what the remaining and the fresh rows amount to.
LEMMA DaySums ==
    ASSUME TypeOK, NEW S \in SUBSET Active, NEW U \in SUBSET S,
           NEW N, IsFiniteSet(N), N \cap DOMAIN ai = {}, Shape(S, U, N), NEW d
    PROVE  /\ Sum(On(Active, d), Neurons)' =
                Sum(On(Active \ S, d), Neurons) + Sum(On(N, d), Neurons)'
           /\ Sum(On(Active, d), Granted)' =
                Sum(On(Active \ S, d), Granted) + Sum(On(N, d), Granted)'
           /\ Sum(On(Settled, d), Actual)' =
                Sum(On(Settled, d), Actual) + Sum(On(U, d), Actual)'
           /\ Sum(On(Settled, d), Gratis)' =
                Sum(On(Settled, d), Gratis) + Sum(On(U, d), Gratis)'
<1> DEFINE A == On(Active \ S, d)
           B == On(Settled, d)
           C == On(N, d)'
           D == On(U, d)'
<1>1. Active \in SUBSET DOMAIN ai /\ Settled \in SUBSET DOMAIN ai
      /\ Active \cap Settled = {}
  BY DEF Active, Settled, WithStatus
<1>2. /\ On(Active, d)' = A \cup C /\ A \cap C = {}
      /\ On(Settled, d)' = B \cup D /\ B \cap D = {}
  BY <1>1 DEF Shape, On
<1>3. IsFiniteSet(A) /\ IsFiniteSet(B) /\ IsFiniteSet(C) /\ IsFiniteSet(D)
  <2>1. Active \ S \in SUBSET DOMAIN ai /\ U \in SUBSET DOMAIN ai
    BY <1>1
  <2>2. IsFiniteSet(A) /\ IsFiniteSet(B) /\ IsFiniteSet(U)
    BY <1>1, <2>1, PartsFinite
  <2>3. C \in SUBSET N /\ D \in SUBSET U
    BY DEF On
  <2>4. QED
    BY <2>2, <2>3, FS_Subset
<1>4. /\ \A r \in A : Neurons'[r] = Neurons[r] /\ Granted'[r] = Granted[r]
      /\ \A r \in B : Actual'[r] = Actual[r] /\ Gratis'[r] = Gratis[r]
  <2>1. ASSUME NEW r \in A
        PROVE  Neurons'[r] = Neurons[r] /\ Granted'[r] = Granted[r]
    <3>1. r \in DOMAIN ai /\ r \in DOMAIN ai'
      BY <1>1 DEF Shape, On
    <3>2. QED
      BY <3>1 DEF Shape, Neurons, Granted
  <2>2. ASSUME NEW r \in B
        PROVE  Actual'[r] = Actual[r] /\ Gratis'[r] = Gratis[r]
    <3>1. r \in DOMAIN ai /\ r \in DOMAIN ai' /\ r \notin U
      BY <1>1 DEF Shape, On
    <3>2. QED
      BY <3>1 DEF Shape, Actual, Gratis
  <2>3. QED
    BY <2>1, <2>2
<1>5. /\ Sum(A, Neurons') = Sum(A, Neurons) /\ Sum(A, Granted') = Sum(A, Granted)
      /\ Sum(B, Actual') = Sum(B, Actual) /\ Sum(B, Gratis') = Sum(B, Gratis)
  BY <1>4, SumSame
<1> HIDE DEF A, B, C, D
<1>6. /\ Sum(A \cup C, Neurons') = Sum(A, Neurons') + Sum(C, Neurons')
      /\ Sum(A \cup C, Granted') = Sum(A, Granted') + Sum(C, Granted')
      /\ Sum(B \cup D, Actual') = Sum(B, Actual') + Sum(D, Actual')
      /\ Sum(B \cup D, Gratis') = Sum(B, Gratis') + Sum(D, Gratis')
  BY <1>2, <1>3, SumUnion
<1>7. QED
  BY <1>2, <1>5, <1>6 DEF A, B, C, D

\* The month's sums.
LEMMA MonthSums ==
    ASSUME TypeOK, NEW S \in SUBSET Active, NEW U \in SUBSET S,
           NEW N, IsFiniteSet(N), N \cap DOMAIN ai = {}, Shape(S, U, N), NEW m
    PROVE  /\ Sum(In(Active, m), Overage)' =
                Sum(In(Active \ S, m), Overage) + Sum(In(N, m), Overage)'
           /\ Sum(In(Settled, m), Paid)' =
                Sum(In(Settled, m), Paid) + Sum(In(U, m), Paid)'
<1> DEFINE A == In(Active \ S, m)
           B == In(Settled, m)
           C == In(N, m)'
           D == In(U, m)'
<1>1. Active \in SUBSET DOMAIN ai /\ Settled \in SUBSET DOMAIN ai
      /\ Active \cap Settled = {}
  BY DEF Active, Settled, WithStatus
<1>2. /\ In(Active, m)' = A \cup C /\ A \cap C = {}
      /\ In(Settled, m)' = B \cup D /\ B \cap D = {}
  BY <1>1 DEF Shape, In
<1>3. IsFiniteSet(A) /\ IsFiniteSet(B) /\ IsFiniteSet(C) /\ IsFiniteSet(D)
  <2>1. Active \ S \in SUBSET DOMAIN ai /\ U \in SUBSET DOMAIN ai
    BY <1>1
  <2>2. IsFiniteSet(A) /\ IsFiniteSet(B) /\ IsFiniteSet(U)
    BY <1>1, <2>1, PartsFinite
  <2>3. C \in SUBSET N /\ D \in SUBSET U
    BY DEF In
  <2>4. QED
    BY <2>2, <2>3, FS_Subset
<1>4. /\ \A r \in A : Overage'[r] = Overage[r]
      /\ \A r \in B : Paid'[r] = Paid[r]
  <2>1. ASSUME NEW r \in A PROVE Overage'[r] = Overage[r]
    <3>1. r \in DOMAIN ai /\ r \in DOMAIN ai'
      BY <1>1 DEF Shape, In
    <3>2. QED
      BY <3>1 DEF Shape, Overage
  <2>2. ASSUME NEW r \in B PROVE Paid'[r] = Paid[r]
    <3>1. r \in DOMAIN ai /\ r \in DOMAIN ai' /\ r \notin U
      BY <1>1 DEF Shape, In
    <3>2. QED
      BY <3>1 DEF Shape, Paid
  <2>3. QED
    BY <2>1, <2>2
<1>5. Sum(A, Overage') = Sum(A, Overage) /\ Sum(B, Paid') = Sum(B, Paid)
  BY <1>4, SumSame
<1> HIDE DEF A, B, C, D
<1>6. /\ Sum(A \cup C, Overage') = Sum(A, Overage') + Sum(C, Overage')
      /\ Sum(B \cup D, Paid') = Sum(B, Paid') + Sum(D, Paid')
  BY <1>2, <1>3, SumUnion
<1>7. QED
  BY <1>2, <1>5, <1>6 DEF A, B, C, D

\* What the active rows of a day may use for free is at most what they hold, and what
\* the settled ones did use for free at most what they used.
LEMMA AllowanceBounds ==
    ASSUME TypeOK, NEW S \in SUBSET DOMAIN ai, NEW d
    PROVE  /\ Sum(On(S, d), Granted) <= Sum(On(S, d), Neurons)
           /\ Sum(On(S, d), Gratis) <= Sum(On(S, d), Actual)
<1>1. IsFiniteSet(On(S, d)) /\ On(S, d) \subseteq DOMAIN ai
  BY PartsFinite
<1>2. \A r \in On(S, d) : /\ Granted[r] \in Nat /\ Neurons[r] \in Nat
                          /\ Granted[r] <= Neurons[r]
                          /\ Gratis[r] \in Nat /\ Actual[r] \in Nat
                          /\ Gratis[r] <= Actual[r]
  BY <1>1, RowFacts, AiConstants
<1>3. QED
  BY <1>1, <1>2, SumMonotonic

\* A step of that shape keeps the accounts exact when its counters move by what the
\* leaving, the settled and the fresh rows amount to; a fresh grant stays inside what
\* the counters leave of the allowance, and a settled row inside its own grant.
LEMMA AccountsStep ==
    ASSUME Inv, NEW S \in SUBSET Active, NEW U \in SUBSET S,
           NEW N, IsFiniteSet(N), N \cap DOMAIN ai = {}, Shape(S, U, N),
           U = {} \/ N = {},
           \A d \in Days :
              /\ dayReserved'[d] = DayReturned(S)[d] + Sum(On(N, d), Neurons)'
              /\ dayUsed'[d] = dayUsed[d] + Sum(On(U, d), Actual)'
              /\ \/ Sum(On(N, d), Granted)' = 0
                 \/ Sum(On(N, d), Granted)' + dayUsed[d] + DayReturned(S)[d] <= Free,
           \A m \in Months :
              /\ monthReserved'[m] = MonthReturned(S)[m] + Sum(In(N, m), Overage)'
              /\ monthUsed'[m] = monthUsed[m] + Sum(In(U, m), Paid)',
           \A r \in U : Gratis'[r] \in Nat /\ Gratis'[r] <= Granted[r],
           legacyDay' = legacyDay, legacyMonth' = legacyMonth
    PROVE  CountersExact'
<1>1. TypeOK /\ DayAccounts /\ MonthAccounts /\ FreeAllowanceOnce
  BY DEF Inv, CountersExact
<1>2. /\ Active \in SUBSET DOMAIN ai /\ Settled \in SUBSET DOMAIN ai
      /\ U \in SUBSET DOMAIN ai /\ S \in SUBSET DOMAIN ai /\ Active \ S \in SUBSET DOMAIN ai
  BY DEF Active, Settled, WithStatus
<1>a. \A d : /\ Sum(On(Active, d), Neurons)' =
                  Sum(On(Active \ S, d), Neurons) + Sum(On(N, d), Neurons)'
             /\ Sum(On(Active, d), Granted)' =
                  Sum(On(Active \ S, d), Granted) + Sum(On(N, d), Granted)'
             /\ Sum(On(Settled, d), Actual)' =
                  Sum(On(Settled, d), Actual) + Sum(On(U, d), Actual)'
             /\ Sum(On(Settled, d), Gratis)' =
                  Sum(On(Settled, d), Gratis) + Sum(On(U, d), Gratis)'
  BY <1>1, DaySums
<1>3. DayAccounts'
  <2> SUFFICES ASSUME NEW d \in Days
               PROVE  /\ dayReserved'[d] = Sum(On(Active, d), Neurons)'
                      /\ dayUsed'[d] = Sum(On(Settled, d), Actual)'
                                          + legacyDay["owner"][d] + legacyDay["public"][d]
    BY DEF DayAccounts
  <2>1. dayReserved'[d] = Sum(On(Active, d), Neurons)'
    <3>1. DayReturned(S)[d] = Sum(On(Active \ S, d), Neurons)
      BY ReturnedExact
    <3>2. Sum(On(Active, d), Neurons)' =
            Sum(On(Active \ S, d), Neurons) + Sum(On(N, d), Neurons)'
      BY <1>a
    <3>3. QED
      BY <3>1, <3>2
  <2>2. Sum(On(Settled, d), Actual)' = Sum(On(Settled, d), Actual) + Sum(On(U, d), Actual)'
    BY <1>a
  <2>3. dayUsed[d] = Sum(On(Settled, d), Actual) + legacyDay["owner"][d] + legacyDay["public"][d]
    BY <1>1 DEF DayAccounts
  <2>4. dayUsed'[d] = dayUsed[d] + Sum(On(U, d), Actual)'
    OBVIOUS
  <2> DEFINE a == Sum(On(Settled, d), Actual)
             b == Sum(On(U, d), Actual)'
             x == legacyDay["owner"][d]
             y == legacyDay["public"][d]
  <2>5. a \in Nat /\ b \in Nat
    <3>1. On(U, d)' \in SUBSET U /\ IsFiniteSet(U)
      BY <1>1, <1>2, PartsFinite DEF On
    <3>2. IsFiniteSet(On(U, d)') /\ IsFiniteSet(On(Settled, d))
      BY <1>1, <1>2, <3>1, PartsFinite, FS_Subset
    <3>3. QED
      BY <3>2, SumType
  <2>6. x \in Nat /\ y \in Nat
    BY <1>1 DEF TypeOK, Shards
  <2> HIDE DEF a, b, x, y
  <2>7. a + x + y + b = a + b + x + y
    BY <2>5, <2>6
  <2>8. QED
    BY <2>1, <2>2, <2>3, <2>4, <2>7 DEF a, b, x, y
<1>4. MonthAccounts'
  <2> SUFFICES ASSUME NEW m \in Months
               PROVE  /\ monthReserved'[m] = Sum(In(Active, m), Overage)'
                      /\ monthUsed'[m] = Sum(In(Settled, m), Paid)'
                                          + legacyMonth["owner"][m] + legacyMonth["public"][m]
    BY DEF MonthAccounts
  <2>1. monthReserved'[m] = Sum(In(Active, m), Overage)'
    <3>1. MonthReturned(S)[m] = Sum(In(Active \ S, m), Overage)
      BY ReturnedExact
    <3>2. Sum(In(Active, m), Overage)' =
            Sum(In(Active \ S, m), Overage) + Sum(In(N, m), Overage)'
      BY <1>1, MonthSums
    <3>3. QED
      BY <3>1, <3>2
  <2>2. Sum(In(Settled, m), Paid)' = Sum(In(Settled, m), Paid) + Sum(In(U, m), Paid)'
    BY <1>1, MonthSums
  <2>3. monthUsed[m] = Sum(In(Settled, m), Paid) + legacyMonth["owner"][m] + legacyMonth["public"][m]
    BY <1>1 DEF MonthAccounts
  <2>4. monthUsed'[m] = monthUsed[m] + Sum(In(U, m), Paid)'
    OBVIOUS
  <2> DEFINE a == Sum(In(Settled, m), Paid)
             b == Sum(In(U, m), Paid)'
             x == legacyMonth["owner"][m]
             y == legacyMonth["public"][m]
  <2>5. a \in Nat /\ b \in Nat
    <3>1. In(U, m)' \in SUBSET U /\ IsFiniteSet(U)
      BY <1>1, <1>2, PartsFinite DEF In
    <3>2. IsFiniteSet(In(U, m)') /\ IsFiniteSet(In(Settled, m))
      BY <1>1, <1>2, <3>1, PartsFinite, FS_Subset
    <3>3. QED
      BY <3>2, SumType
  <2>6. x \in Nat /\ y \in Nat
    BY <1>1 DEF TypeOK, Shards
  <2> HIDE DEF a, b, x, y
  <2>7. a + x + y + b = a + b + x + y
    BY <2>5, <2>6
  <2>8. QED
    BY <2>1, <2>2, <2>3, <2>4, <2>7 DEF a, b, x, y
<1>5. FreeAllowanceOnce'
  <2> SUFFICES ASSUME NEW d \in Days
               PROVE  Sum(On(Active, d), Granted)' + Sum(On(Settled, d), Gratis)' <= Free
    BY DEF FreeAllowanceOnce
  <2> DEFINE kept == Sum(On(Active \ S, d), Granted)
             left == Sum(On(S, d), Granted)
             fresh == Sum(On(N, d), Granted)'
             gratis == Sum(On(Settled, d), Gratis)
             more == Sum(On(U, d), Gratis)'
  <2>1. /\ Sum(On(Active, d), Granted)' = kept + fresh
        /\ Sum(On(Settled, d), Gratis)' = gratis + more
    BY <1>a
  <2>2. /\ IsFiniteSet(On(Active, d)) /\ IsFiniteSet(On(S, d)) /\ IsFiniteSet(On(U, d))
        /\ IsFiniteSet(On(Settled, d)) /\ IsFiniteSet(On(Active \ S, d))
        /\ IsFiniteSet(On(N, d)')
    <3>1. On(N, d)' \in SUBSET N
      BY DEF On
    <3>2. QED
      BY <1>1, <1>2, <3>1, PartsFinite, FS_Subset
  <2>3. kept \in Nat /\ left \in Nat /\ fresh \in Nat /\ gratis \in Nat
    BY <2>2, SumType
  <2>4. Sum(On(Active, d), Granted) = kept + left
    <3> DEFINE A == On(Active \ S, d)
               B == On(S, d)
    <3>1. On(Active, d) = A \cup B /\ A \cap B = {}
      BY DEF On
    <3>2. IsFiniteSet(A) /\ IsFiniteSet(B)
      BY <2>2
    <3>3. ASSUME NEW f PROVE Sum(A \cup B, f) = Sum(A, f) + Sum(B, f)
      <4> HIDE DEF A, B
      <4>1. QED
        BY <3>1, <3>2, SumUnion
    <3>4. QED
      BY <3>1, <3>3
  <2>5. more \in Nat /\ more <= left
    <3>1. On(U, d)' = On(U, d) /\ On(U, d) \subseteq On(S, d)
      BY <1>2 DEF On, Shape
    <3>2. \A r \in On(U, d) : /\ Gratis'[r] \in Nat /\ Granted[r] \in Nat
                              /\ Gratis'[r] <= Granted[r]
      <4>1. On(U, d) \subseteq U
        BY DEF On
      <4>2. \A r \in U : Granted[r] \in Nat
        BY <1>1, <1>2, RowFacts, AiConstants
      <4>3. QED
        BY <4>1, <4>2
    <3>3. Sum(On(U, d), Gratis') <= Sum(On(U, d), Granted)
      BY <2>2, <3>2, SumMonotonic
    <3>4. Sum(On(U, d), Granted) <= left
      BY <2>2, <3>1, SumRemove
    <3>5. Sum(On(U, d), Gratis') \in Nat /\ Sum(On(U, d), Granted) \in Nat
      BY <2>2, SumType
    <3>6. more = Sum(On(U, d), Gratis')
      BY <3>1
    <3> HIDE DEF more, left
    <3>7. QED
      BY <2>3, <3>3, <3>4, <3>5, <3>6
  <2>6. kept + left + gratis <= Free
    BY <1>1, <2>4 DEF FreeAllowanceOnce
  <2>7. kept <= DayReturned(S)[d] /\ gratis <= dayUsed[d]
    <3>1. kept <= Sum(On(Active \ S, d), Neurons) /\ gratis <= Sum(On(Settled, d), Actual)
      BY <1>1, <1>2, AllowanceBounds
    <3>2. DayReturned(S)[d] = Sum(On(Active \ S, d), Neurons)
      BY ReturnedExact
    <3>3. dayUsed[d] = Sum(On(Settled, d), Actual) + legacyDay["owner"][d] + legacyDay["public"][d]
      BY <1>1 DEF DayAccounts
    <3>4. legacyDay["owner"][d] \in Nat /\ legacyDay["public"][d] \in Nat
      BY <1>1 DEF TypeOK, Shards
    <3>5. Sum(On(Settled, d), Actual) \in Nat
      BY <2>2, SumType
    <3> HIDE DEF kept, gratis
    <3>6. QED
      BY <2>3, <3>1, <3>2, <3>3, <3>4, <3>5
  <2>8. DayReturned(S)[d] \in Nat /\ dayUsed[d] \in Nat /\ Free \in Nat
    BY <1>1, ReturnedExact, AiConstants DEF TypeOK
  <2>9. U = {} => more = 0
    <3>1. U = {} => On(U, d)' = {}
      BY DEF On
    <3>2. QED
      BY <3>1, SumNone
  <2>10. N = {} => fresh = 0
    <3>1. N = {} => On(N, d)' = {}
      BY DEF On
    <3>2. QED
      BY <3>1, SumNone
  <2>11. fresh = 0 \/ fresh + dayUsed[d] + DayReturned(S)[d] <= Free
    OBVIOUS
  <2> HIDE DEF kept, left, fresh, gratis, more
  <2>12. kept + fresh + (gratis + more) <= Free
    <3>1. CASE fresh = 0
      BY <2>3, <2>5, <2>6, <2>8, <3>1
    <3>2. CASE fresh # 0
      BY <2>3, <2>5, <2>7, <2>8, <2>9, <2>10, <2>11, <3>2
    <3>3. QED
      BY <3>1, <3>2
  <2>13. QED
    BY <2>1, <2>12
<1>6. QED
  BY <1>3, <1>4, <1>5 DEF CountersExact

-----------------------------------------------------------------------------
(***************************************************************************)
(* One lemma per handler.                                                  *)
(***************************************************************************)

\* A status change keeps the table well typed and every other column as it was.
LEMMA MarkedRows ==
    ASSUME TypeOK, NEW S \in SUBSET DOMAIN ai, NEW s \in Status
    PROVE  /\ DOMAIN Marked(S, s) = DOMAIN ai
           /\ Marked(S, s) \in [DOMAIN ai -> Row]
           /\ \A r \in DOMAIN ai :
                 /\ Marked(S, s)[r].status = IF r \in S THEN s ELSE ai[r].status
                 /\ Marked(S, s)[r].key = ai[r].key
                 /\ Marked(S, s)[r].day = ai[r].day
                 /\ Marked(S, s)[r].neurons = ai[r].neurons
                 /\ Marked(S, s)[r].free = ai[r].free
                 /\ Marked(S, s)[r].overage = ai[r].overage
                 /\ Marked(S, s)[r].actual = ai[r].actual
<1>1. ai \in [DOMAIN ai -> Row]
  BY DEF TypeOK
<1>2. ASSUME NEW r \in DOMAIN ai
      PROVE  /\ Marked(S, s)[r] \in Row
             /\ Marked(S, s)[r].status = IF r \in S THEN s ELSE ai[r].status
             /\ Marked(S, s)[r].key = ai[r].key
             /\ Marked(S, s)[r].day = ai[r].day
             /\ Marked(S, s)[r].neurons = ai[r].neurons
             /\ Marked(S, s)[r].free = ai[r].free
             /\ Marked(S, s)[r].overage = ai[r].overage
             /\ Marked(S, s)[r].actual = ai[r].actual
  <2>1. ai[r] \in Row
    BY <1>1
  <2>2. CASE r \in S
    <3>1. Marked(S, s)[r] = [ai[r] EXCEPT !.status = s]
      BY <2>2 DEF Marked
    <3>2. QED
      BY <2>1, <2>2, <3>1 DEF Row
  <2>3. CASE r \notin S
    <3>1. Marked(S, s)[r] = ai[r]
      BY <2>3 DEF Marked
    <3>2. QED
      BY <2>1, <2>3, <3>1
  <2>4. QED
    BY <2>2, <2>3
<1>3. Marked(S, s) = [r \in DOMAIN ai |-> Marked(S, s)[r]]
  BY DEF Marked
<1>4. QED
  BY <1>2, <1>3

\* #releaseAi, and #reapExpiredAi when a reserve is denied or hits its key: rows are
\* closed and what they hold is given back.
LEMMA CloseStep ==
    ASSUME Inv, NEW S \in SUBSET Active, NEW s \in {"released", "expired"},
           ai' = Marked(S, s), dayReserved' = DayReturned(S),
           monthReserved' = MonthReturned(S),
           UNCHANGED <<dayUsed, monthUsed, policy, imports, now>>
    PROVE  Inv'
<1>1. TypeOK
  BY DEF Inv
<1>2. /\ dayUsed' = dayUsed /\ monthUsed' = monthUsed /\ policy' = policy /\ now' = now
      /\ legacyDay' = legacyDay /\ legacyMonth' = legacyMonth /\ markers' = markers
  BY DEF imports
<1>3. S \in SUBSET DOMAIN ai /\ s \in Status
  BY DEF Active, WithStatus, Status
<1>4. /\ DOMAIN ai' = DOMAIN ai
      /\ ai' \in [DOMAIN ai -> Row]
      /\ \A r \in DOMAIN ai :
            /\ ai'[r].status = IF r \in S THEN s ELSE ai[r].status
            /\ ai'[r].day = ai[r].day
            /\ ai'[r].neurons = ai[r].neurons
            /\ ai'[r].free = ai[r].free
            /\ ai'[r].overage = ai[r].overage
            /\ ai'[r].actual = ai[r].actual
  BY <1>1, <1>3, MarkedRows
<1>5. Shape(S, {}, {})
  <2>1. Active' = Active \ S
    BY <1>4 DEF Active, WithStatus
  <2>2. Settled' = Settled
    BY <1>3, <1>4 DEF Settled, Active, WithStatus
  <2>3. QED
    BY <1>4, <2>1, <2>2 DEF Shape
<1>6. TypeOK'
  <2>1. dayReserved' \in [Days -> Nat] /\ monthReserved' \in [Months -> Nat]
    BY ReturnedExact
  <2>2. \A r \in DOMAIN ai' : /\ ai'[r].overage = ai'[r].neurons - ai'[r].free
                              /\ ai'[r].actual <= ai'[r].neurons
    BY <1>1, <1>4 DEF TypeOK
  <2>3. QED
    BY <1>1, <1>2, <1>4, <2>1, <2>2 DEF TypeOK
<1>7. IsFiniteSet({}) /\ {} \cap DOMAIN ai = {} /\ {} \in SUBSET S
  BY FS_EmptySet
<1>8. \A x : /\ On({}, x)' = {} /\ In({}, x)' = {}
             /\ Sum(On({}, x), Neurons)' = 0 /\ Sum(On({}, x), Actual)' = 0
             /\ Sum(On({}, x), Granted)' = 0 /\ Sum(In({}, x), Overage)' = 0
             /\ Sum(In({}, x), Paid)' = 0
  <2>1. \A x : On({}, x)' = {} /\ In({}, x)' = {}
    BY DEF On, In
  <2>2. QED
    BY <2>1, SumNone
<1>9. /\ \A d \in Days :
           /\ dayReserved'[d] = DayReturned(S)[d] + Sum(On({}, d), Neurons)'
           /\ dayUsed'[d] = dayUsed[d] + Sum(On({}, d), Actual)'
           /\ Sum(On({}, d), Granted)' = 0
      /\ \A m \in Months :
           /\ monthReserved'[m] = MonthReturned(S)[m] + Sum(In({}, m), Overage)'
           /\ monthUsed'[m] = monthUsed[m] + Sum(In({}, m), Paid)'
  <2>1. /\ \A d \in Days : DayReturned(S)[d] \in Nat /\ dayUsed[d] \in Nat
        /\ \A m \in Months : MonthReturned(S)[m] \in Nat /\ monthUsed[m] \in Nat
    BY <1>1, ReturnedExact DEF TypeOK
  <2>2. QED
    BY <1>2, <1>8, <2>1
<1>10. CountersExact'
  BY <1>2, <1>5, <1>7, <1>9, AccountsStep
<1>11. QED
  BY <1>2, <1>6, <1>10 DEF Inv, Unimported

\* What a settled row's columns become.
LEMMA SettledRow ==
    ASSUME Inv, NEW r, NEW a \in 0..MaxNeurons, SettleAi(r, a)
    PROVE  /\ r \in Active /\ r \in DOMAIN ai /\ a <= ai[r].neurons
           /\ DOMAIN ai' = DOMAIN ai
           /\ ai' \in [DOMAIN ai -> Row]
           /\ ai'[r].status = "settled" /\ ai'[r].actual = a
           /\ \A q \in DOMAIN ai :
                 /\ q # r => ai'[q] = ai[q]
                 /\ ai'[q].day = ai[q].day
                 /\ ai'[q].neurons = ai[q].neurons
                 /\ ai'[q].free = ai[q].free
                 /\ ai'[q].overage = ai[q].overage
<1>1. TypeOK
  BY DEF Inv
<1>2. r \in Active /\ r \in DOMAIN ai /\ a <= ai[r].neurons
  BY DEF SettleAi, Active, WithStatus
<1>3. ai' = [ai EXCEPT ![r].status = "settled", ![r].actual = a]
  BY DEF SettleAi
<1>4. "settled" \in Status
  BY DEF Status
<1>5. ai \in [DOMAIN ai -> Row]
  BY <1>1 DEF TypeOK
<1>6. /\ DOMAIN ai' = DOMAIN ai
      /\ ai'[r] = [ai[r] EXCEPT !.status = "settled", !.actual = a]
      /\ \A q \in DOMAIN ai : q # r => ai'[q] = ai[q]
  BY <1>2, <1>3, <1>5
<1>7. /\ ai'[r] \in Row /\ ai'[r].status = "settled" /\ ai'[r].actual = a
      /\ ai'[r].day = ai[r].day /\ ai'[r].neurons = ai[r].neurons
      /\ ai'[r].free = ai[r].free /\ ai'[r].overage = ai[r].overage
  BY <1>2, <1>4, <1>5, <1>6 DEF Row
<1>8. ai' = [q \in DOMAIN ai |-> ai'[q]]
  BY <1>3, <1>5
<1>9. ai' \in [DOMAIN ai -> Row]
  <2>1. \A q \in DOMAIN ai : ai'[q] \in Row
    BY <1>5, <1>6, <1>7
  <2>2. QED
    BY <1>8, <2>1
<1>10. QED
  BY <1>2, <1>6, <1>7, <1>9

\* Settling charges what the row really used and returns its whole hold.
LEMMA SettleStep ==
    ASSUME Inv, NEW r, NEW a \in 0..MaxNeurons, SettleAi(r, a)
    PROVE  Inv'
<1>1. TypeOK
  BY DEF Inv
<1>2. /\ dayReserved' = DayReturned({r}) /\ monthReserved' = MonthReturned({r})
      /\ dayUsed' = [dayUsed EXCEPT ![ai[r].day] = @ + a]
      /\ monthUsed' = [monthUsed EXCEPT ![MonthOf[ai[r].day]] = @ + Monus(a, ai[r].free)]
      /\ policy' = policy /\ now' = now
      /\ legacyDay' = legacyDay /\ legacyMonth' = legacyMonth /\ markers' = markers
  BY DEF SettleAi, imports
<1>3. /\ r \in Active /\ r \in DOMAIN ai /\ a <= ai[r].neurons
      /\ DOMAIN ai' = DOMAIN ai
      /\ ai' \in [DOMAIN ai -> Row]
      /\ ai'[r].status = "settled" /\ ai'[r].actual = a
      /\ \A q \in DOMAIN ai :
            /\ q # r => ai'[q] = ai[q]
            /\ ai'[q].day = ai[q].day
            /\ ai'[q].neurons = ai[q].neurons
            /\ ai'[q].free = ai[q].free
            /\ ai'[q].overage = ai[q].overage
  BY SettledRow
<1>4. {r} \in SUBSET Active /\ {r} \in SUBSET {r}
  BY <1>3
<1>5. Shape({r}, {r}, {})
  <2>1. Active' = Active \ {r}
    BY <1>3 DEF Active, WithStatus
  <2>2. Settled' = Settled \cup {r}
    BY <1>3 DEF Settled, WithStatus
  <2>3. QED
    BY <1>3, <2>1, <2>2 DEF Shape
<1>6. /\ ai[r].neurons \in 1..MaxNeurons /\ ai[r].free \in 0..MaxNeurons
      /\ ai[r].day \in Days /\ MonthOf[ai[r].day] \in Months
      /\ ai[r].overage = ai[r].neurons - ai[r].free
  BY <1>1, <1>3, RowFacts DEF TypeOK, Row
<1>7. /\ Lesser(a, ai[r].free) \in 0..MaxNeurons /\ Lesser(a, ai[r].free) <= ai[r].free
      /\ Monus(a, ai[r].free) \in 0..MaxNeurons /\ a \in Nat
  <2> DEFINE f == ai[r].free
  <2>1. f \in 0..MaxNeurons /\ MaxNeurons \in Nat
    BY <1>6, AiConstants
  <2> HIDE DEF f
  <2>2. /\ Lesser(a, f) \in 0..MaxNeurons /\ Lesser(a, f) <= f
        /\ Monus(a, f) \in 0..MaxNeurons /\ a \in Nat
    BY <2>1 DEF Lesser, Monus
  <2>3. QED
    BY <2>2 DEF f
<1>8. /\ Actual'[r] = a /\ Gratis'[r] = Lesser(a, ai[r].free)
      /\ Paid'[r] = Monus(a, ai[r].free) /\ Granted[r] = ai[r].free
  BY <1>3 DEF Actual, Gratis, Paid, Granted
<1>9. TypeOK'
  <2>1. dayReserved' \in [Days -> Nat] /\ monthReserved' \in [Months -> Nat]
    BY <1>2, <1>4, ReturnedExact
  <2>2. dayUsed' \in [Days -> Nat] /\ monthUsed' \in [Months -> Nat]
    <3>1. dayUsed \in [Days -> Nat] /\ monthUsed \in [Months -> Nat]
      BY <1>1 DEF TypeOK
    <3>2. dayUsed[ai[r].day] + a \in Nat
      BY <1>6, <1>7, <3>1
    <3>3. monthUsed[MonthOf[ai[r].day]] + Monus(a, ai[r].free) \in Nat
      <4>1. Monus(a, ai[r].free) \in Nat
        BY <1>7, AiConstants
      <4>2. QED
        BY <1>6, <3>1, <4>1
    <3>4. QED
      BY <1>2, <3>1, <3>2, <3>3
  <2>3. \A q \in DOMAIN ai' : /\ ai'[q].overage = ai'[q].neurons - ai'[q].free
                              /\ ai'[q].actual <= ai'[q].neurons
    <3>1. \A q \in DOMAIN ai : /\ ai[q].overage = ai[q].neurons - ai[q].free
                               /\ ai[q].actual <= ai[q].neurons
      BY <1>1 DEF TypeOK
    <3>2. QED
      BY <1>3, <3>1
  <2>4. QED
    BY <1>1, <1>2, <1>3, <2>1, <2>2, <2>3 DEF TypeOK
<1>10. \A d \in Days :
          /\ dayReserved'[d] = DayReturned({r})[d] + Sum(On({}, d), Neurons)'
          /\ dayUsed'[d] = dayUsed[d] + Sum(On({r}, d), Actual)'
          /\ Sum(On({}, d), Granted)' = 0
  <2> SUFFICES ASSUME NEW d \in Days
               PROVE  /\ dayReserved'[d] = DayReturned({r})[d] + Sum(On({}, d), Neurons)'
                      /\ dayUsed'[d] = dayUsed[d] + Sum(On({r}, d), Actual)'
                      /\ Sum(On({}, d), Granted)' = 0
    OBVIOUS
  <2>1. On({}, d)' = {} /\ On({r}, d)' = {q \in {r} : ai[r].day = d}
    BY <1>3 DEF On
  <2>2. Sum(On({}, d), Neurons)' = 0 /\ Sum(On({}, d), Granted)' = 0
    BY <2>1, SumNone
  <2>3. Sum(On({r}, d), Actual)' = IF ai[r].day = d THEN a ELSE 0
    <3>1. (ai[r].day = d) \in BOOLEAN
      OBVIOUS
    <3>2. Actual'[r] \in 0..MaxNeurons
      BY <1>8
    <3>3. Sum(On({r}, d)', Actual') = IF ai[r].day = d THEN Actual'[r] ELSE 0
      BY <2>1, <3>1, <3>2, SumIf
    <3>4. QED
      BY <1>8, <3>3
  <2>4. DayReturned({r})[d] \in Nat /\ dayUsed \in [Days -> Nat]
    BY <1>1, <1>4, ReturnedExact DEF TypeOK
  <2>5. QED
    BY <1>2, <1>7, <2>2, <2>3, <2>4
<1>11. \A m \in Months :
          /\ monthReserved'[m] = MonthReturned({r})[m] + Sum(In({}, m), Overage)'
          /\ monthUsed'[m] = monthUsed[m] + Sum(In({r}, m), Paid)'
  <2> SUFFICES ASSUME NEW m \in Months
               PROVE  /\ monthReserved'[m] = MonthReturned({r})[m] + Sum(In({}, m), Overage)'
                      /\ monthUsed'[m] = monthUsed[m] + Sum(In({r}, m), Paid)'
    OBVIOUS
  <2>1. In({}, m)' = {} /\ In({r}, m)' = {q \in {r} : MonthOf[ai[r].day] = m}
    BY <1>3 DEF In
  <2>2. Sum(In({}, m), Overage)' = 0
    BY <2>1, SumNone
  <2>3. Sum(In({r}, m), Paid)' = IF MonthOf[ai[r].day] = m THEN Monus(a, ai[r].free) ELSE 0
    <3>1. (MonthOf[ai[r].day] = m) \in BOOLEAN
      OBVIOUS
    <3>2. Paid'[r] \in 0..MaxNeurons
      BY <1>7, <1>8
    <3>3. Sum(In({r}, m)', Paid') = IF MonthOf[ai[r].day] = m THEN Paid'[r] ELSE 0
      BY <2>1, <3>1, <3>2, SumIf
    <3>4. QED
      BY <1>8, <3>3
  <2>4. /\ MonthReturned({r})[m] \in Nat /\ monthUsed \in [Months -> Nat]
        /\ Monus(a, ai[r].free) \in Nat
    <3>1. MonthReturned({r})[m] \in Nat
      BY <1>4, ReturnedExact
    <3>2. monthUsed \in [Months -> Nat]
      BY <1>1 DEF TypeOK
    <3>3. Monus(a, ai[r].free) \in Nat
      BY <1>7, AiConstants
    <3>4. QED
      BY <3>1, <3>2, <3>3
  <2>5. QED
    BY <1>2, <2>2, <2>3, <2>4
<1>12. \A q \in {r} : Gratis'[q] \in Nat /\ Gratis'[q] <= Granted[q]
  BY <1>7, <1>8, AiConstants
<1>13. CountersExact'
  <2>1. IsFiniteSet({}) /\ {} \cap DOMAIN ai = {}
    BY FS_EmptySet
  <2>2. QED
    BY <1>2, <1>4, <1>5, <1>10, <1>11, <1>12, <2>1, AccountsStep
<1>14. QED
  BY <1>2, <1>9, <1>13 DEF Inv, Unimported

\* An admitted reserve takes a fresh id.
LEMMA FreshId ==
    ASSUME NEW r, NEW k, NEW d, NEW n, NEW e, NEW sent,
           ReserveAi(r, k, d, n, e, sent), ~KnownKey(k)
    PROVE  r \notin DOMAIN ai
BY DEF ReserveAi, KnownKey

\* The free part of a new row fits in its neurons and in what the day's counters leave.
LEMMA FreeForFacts ==
    ASSUME Inv, NEW d \in Days, NEW n \in 1..MaxNeurons
    PROVE  /\ FreeFor(d, n) \in 0..MaxNeurons /\ FreeFor(d, n) <= n
           /\ n - FreeFor(d, n) \in 0..MaxNeurons
           /\ \/ FreeFor(d, n) = 0
              \/ FreeFor(d, n) + dayUsed[d] + DayReturned(Expired)[d] <= Free
<1> DEFINE u == dayUsed[d]
           h == DayReturned(Expired)[d]
<1>1. Expired \in SUBSET Active
  BY DEF Expired
<1>2. u \in Nat /\ h \in Nat
  BY <1>1, ReturnedExact DEF Inv, TypeOK
<1>3. FreeFor(d, n) = Lesser(Monus(Free, u + h), n)
  BY DEF FreeFor, FreeRemaining
<1>4. Free \in Nat /\ MaxNeurons \in Nat
  BY AiConstants
<1> HIDE DEF u, h
<1> DEFINE f == Lesser(Monus(Free, u + h), n)
<1>5. /\ f \in 0..MaxNeurons /\ f <= n /\ n - f \in 0..MaxNeurons
      /\ f = 0 \/ f + u + h <= Free
  BY <1>2, <1>4 DEF Lesser, Monus
<1> HIDE DEF f
<1>6. FreeFor(d, n) = f
  BY <1>3 DEF f
<1>7. QED
  BY <1>5, <1>6 DEF u, h

\* An admitted reserve reaps what has expired, and its hold and its grant are those the
\* counters leave room for.
LEMMA AdmitStep ==
    ASSUME Inv, NEW r \in Ids, NEW k \in Keys, NEW d \in Days, NEW n \in 1..MaxNeurons,
           NEW e \in Nat, NEW sent, ReserveAi(r, k, d, n, e, sent),
           ~KnownKey(k), WithinCap(d, n, sent)
    PROVE  Inv'
<1> DEFINE f == FreeFor(d, n)
           o == n - FreeFor(d, n)
<1>1. TypeOK
  BY DEF Inv
<1>2. /\ ai' = [q \in DOMAIN ai \cup {r} |->
                   IF q = r THEN NewRow(k, d, n, e) ELSE Marked(Expired, "expired")[q]]
      /\ dayReserved' = [DayReturned(Expired) EXCEPT ![d] = @ + n]
      /\ monthReserved' = [MonthReturned(Expired) EXCEPT ![MonthOf[d]] = @ + o]
      /\ dayUsed' = dayUsed /\ monthUsed' = monthUsed /\ policy' = policy /\ now' = now
      /\ legacyDay' = legacyDay /\ legacyMonth' = legacyMonth /\ markers' = markers
  BY DEF ReserveAi, imports
<1>3. r \notin DOMAIN ai
  BY FreshId
<1>4. Expired \in SUBSET Active /\ Expired \in SUBSET DOMAIN ai /\ "expired" \in Status
  BY DEF Expired, Active, WithStatus, Status
<1>5. /\ f \in 0..MaxNeurons /\ f <= n /\ o \in 0..MaxNeurons
      /\ f = 0 \/ f + dayUsed[d] + DayReturned(Expired)[d] <= Free
  BY FreeForFacts
<1>6. ai'[r] = [status |-> "active", key |-> k, day |-> d, neurons |-> n, free |-> f,
                overage |-> o, expires |-> e, actual |-> 0]
  BY <1>2 DEF NewRow
<1> HIDE DEF f, o
<1>7. /\ ai'[r].status = "active" /\ ai'[r].day = d /\ ai'[r].neurons = n
      /\ ai'[r].free = f /\ ai'[r].overage = o /\ ai'[r].actual = 0
  BY <1>6
<1>8. ai'[r] \in Row
  <2>1. 0 \in 0..MaxNeurons /\ "active" \in Status
    BY AiConstants DEF Status
  <2>2. QED
    BY <1>5, <1>6, <2>1 DEF Row
<1>9. /\ DOMAIN ai' = DOMAIN ai \cup {r}
      /\ \A q \in DOMAIN ai :
            /\ ai'[q] \in Row
            /\ ai'[q].status = IF q \in Expired THEN "expired" ELSE ai[q].status
            /\ ai'[q].day = ai[q].day
            /\ ai'[q].neurons = ai[q].neurons
            /\ ai'[q].free = ai[q].free
            /\ ai'[q].overage = ai[q].overage
            /\ ai'[q].actual = ai[q].actual
  <2>1. DOMAIN ai' = DOMAIN ai \cup {r}
    BY <1>2
  <2>2. \A q \in DOMAIN ai : ai'[q] = Marked(Expired, "expired")[q]
    BY <1>2, <1>3
  <2>3. QED
    BY <1>1, <1>4, <2>1, <2>2, MarkedRows
<1>10. Shape(Expired, {}, {r})
  <2>1. Active' = (Active \ Expired) \cup {r}
    BY <1>3, <1>7, <1>9 DEF Active, WithStatus
  <2>2. Settled' = Settled
    BY <1>3, <1>4, <1>7, <1>9 DEF Settled, Active, WithStatus
  <2>3. QED
    BY <1>9, <2>1, <2>2 DEF Shape
<1>11. /\ DayReturned(Expired) \in [Days -> Nat] /\ MonthReturned(Expired) \in [Months -> Nat]
       /\ dayUsed \in [Days -> Nat] /\ monthUsed \in [Months -> Nat]
       /\ MonthOf[d] \in Months
  BY <1>1, <1>4, ReturnedExact DEF TypeOK, Months
<1>a. MaxNeurons \in Nat /\ n \in Nat /\ f \in Nat /\ o \in Nat
  BY <1>5, AiConstants
<1>12. TypeOK'
  <2>1. DOMAIN ai' \subseteq Ids /\ IsFiniteSet(DOMAIN ai')
    <3>1. IsFiniteSet(DOMAIN ai) /\ DOMAIN ai \subseteq Ids
      BY <1>1 DEF TypeOK
    <3>2. IsFiniteSet(DOMAIN ai \cup {r})
      BY <3>1, FS_AddElement
    <3>3. QED
      BY <1>9, <3>1, <3>2
  <2>2. ai' \in [DOMAIN ai' -> Row]
    <3>1. \A q \in DOMAIN ai' : ai'[q] \in Row
      BY <1>8, <1>9
    <3>2. ai' = [q \in DOMAIN ai' |-> ai'[q]]
      BY <1>2
    <3>3. QED
      BY <3>1, <3>2
  <2>3. \A q \in DOMAIN ai' : /\ ai'[q].overage = ai'[q].neurons - ai'[q].free
                              /\ ai'[q].actual <= ai'[q].neurons
    <3>1. \A q \in DOMAIN ai : /\ ai[q].overage = ai[q].neurons - ai[q].free
                               /\ ai[q].actual <= ai[q].neurons
      BY <1>1 DEF TypeOK
    <3>2. o = n - f /\ 0 <= n
      BY <1>a DEF f, o
    <3>3. QED
      BY <1>7, <1>9, <3>1, <3>2
  <2>4. dayReserved' \in [Days -> Nat] /\ monthReserved' \in [Months -> Nat]
    <3>1. DayReturned(Expired)[d] + n \in Nat /\ MonthReturned(Expired)[MonthOf[d]] + o \in Nat
      BY <1>11, <1>a
    <3>2. QED
      BY <1>2, <1>11, <3>1
  <2>5. QED
    BY <1>1, <1>2, <2>1, <2>2, <2>3, <2>4 DEF TypeOK
<1>13. Neurons'[r] = n /\ Granted'[r] = f /\ Overage'[r] = o
  BY <1>7, <1>9 DEF Neurons, Granted, Overage
<1>14. \A x \in Days :
          /\ dayReserved'[x] = DayReturned(Expired)[x] + Sum(On({r}, x), Neurons)'
          /\ dayUsed'[x] = dayUsed[x] + Sum(On({}, x), Actual)'
          /\ \/ Sum(On({r}, x), Granted)' = 0
             \/ Sum(On({r}, x), Granted)' + dayUsed[x] + DayReturned(Expired)[x] <= Free
  <2> SUFFICES ASSUME NEW x \in Days
               PROVE  /\ dayReserved'[x] = DayReturned(Expired)[x] + Sum(On({r}, x), Neurons)'
                      /\ dayUsed'[x] = dayUsed[x] + Sum(On({}, x), Actual)'
                      /\ \/ Sum(On({r}, x), Granted)' = 0
                         \/ Sum(On({r}, x), Granted)' + dayUsed[x] + DayReturned(Expired)[x] <= Free
    OBVIOUS
  <2>1. On({}, x)' = {} /\ On({r}, x)' = {q \in {r} : d = x} /\ (d = x) \in BOOLEAN
    BY <1>7 DEF On
  <2>2. Sum(On({}, x), Actual)' = 0
    BY <2>1, SumNone
  <2>3. Sum(On({r}, x)', Neurons') = IF d = x THEN Neurons'[r] ELSE 0
    <3>1. Neurons'[r] \in 0..MaxNeurons
      BY <1>13, <1>a
    <3>2. QED
      BY <2>1, <3>1, SumIf
  <2>4. Sum(On({r}, x)', Granted') = IF d = x THEN Granted'[r] ELSE 0
    <3>1. Granted'[r] \in 0..MaxNeurons
      BY <1>5, <1>13
    <3>2. QED
      BY <2>1, <3>1, SumIf
  <2>5. dayReserved'[x] = DayReturned(Expired)[x] + Sum(On({r}, x), Neurons)'
    <3>1. CASE d = x
      BY <1>2, <1>11, <1>13, <2>3, <3>1
    <3>2. CASE d # x
      BY <1>2, <1>11, <2>3, <3>2
    <3>3. QED
      BY <3>1, <3>2
  <2>6. \/ Sum(On({r}, x), Granted)' = 0
        \/ Sum(On({r}, x), Granted)' + dayUsed[x] + DayReturned(Expired)[x] <= Free
    BY <1>5, <1>13, <2>4
  <2>7. dayUsed'[x] = dayUsed[x] + 0
    BY <1>2, <1>11
  <2>8. QED
    BY <2>2, <2>5, <2>6, <2>7
<1>15. \A m \in Months :
          /\ monthReserved'[m] = MonthReturned(Expired)[m] + Sum(In({r}, m), Overage)'
          /\ monthUsed'[m] = monthUsed[m] + Sum(In({}, m), Paid)'
  <2> SUFFICES ASSUME NEW m \in Months
               PROVE  /\ monthReserved'[m] =
                            MonthReturned(Expired)[m] + Sum(In({r}, m), Overage)'
                      /\ monthUsed'[m] = monthUsed[m] + Sum(In({}, m), Paid)'
    OBVIOUS
  <2>1. In({}, m)' = {} /\ In({r}, m)' = {q \in {r} : MonthOf[d] = m}
        /\ (MonthOf[d] = m) \in BOOLEAN
    BY <1>7 DEF In
  <2>2. Sum(In({}, m), Paid)' = 0
    BY <2>1, SumNone
  <2>3. Sum(In({r}, m)', Overage') = IF MonthOf[d] = m THEN Overage'[r] ELSE 0
    <3>1. Overage'[r] \in 0..MaxNeurons
      BY <1>5, <1>13
    <3>2. QED
      BY <2>1, <3>1, SumIf
  <2>4. monthReserved'[m] = MonthReturned(Expired)[m] + Sum(In({r}, m), Overage)'
    <3>1. CASE MonthOf[d] = m
      BY <1>2, <1>11, <1>13, <2>3, <3>1
    <3>2. CASE MonthOf[d] # m
      BY <1>2, <1>11, <2>3, <3>2
    <3>3. QED
      BY <3>1, <3>2
  <2>5. monthUsed'[m] = monthUsed[m] + 0
    BY <1>2, <1>11
  <2>6. QED
    BY <2>2, <2>4, <2>5
<1>16. CountersExact'
  <2>1. IsFiniteSet({r}) /\ {r} \cap DOMAIN ai = {} /\ {} \in SUBSET Expired
    BY <1>3, FS_Singleton
  <2>2. \A q \in {} : Gratis'[q] \in Nat /\ Gratis'[q] <= Granted[q]
    OBVIOUS
  <2>3. QED
    BY <1>2, <1>4, <1>10, <1>14, <1>15, <2>1, <2>2, AccountsStep
<1>17. QED
  BY <1>2, <1>12, <1>16 DEF Inv, Unimported

\* A legacy shard is imported once; its export adds to the day and month counters and
\* to the record of what that shard added.
LEMMA ImportStep ==
    ASSUME Inv, NEW s \in Shards, NEW u \in LegacyUsage, ImportLegacy(s, u[1], u[2])
    PROVE  Inv'
<1> DEFINE daily == u[1]
           monthly == u[2]
<1>1. TypeOK /\ CountersExact /\ Unimported
  BY DEF Inv
<1>2. daily \in [Days -> Nat] /\ monthly \in [Months -> Nat]
  BY AiConstants
<1> HIDE DEF daily, monthly
<1>3. /\ s \notin markers
      /\ dayUsed' = [d \in Days |-> dayUsed[d] + daily[d]]
      /\ monthUsed' = [m \in Months |-> monthUsed[m] + monthly[m]]
      /\ legacyDay' = [legacyDay EXCEPT ![s] = daily]
      /\ legacyMonth' = [legacyMonth EXCEPT ![s] = monthly]
      /\ markers' = markers \cup {s}
      /\ ai' = ai /\ dayReserved' = dayReserved /\ monthReserved' = monthReserved
      /\ policy' = policy /\ now' = now
  BY DEF ImportLegacy, daily, monthly
<1>4. TypeOK'
  BY <1>1, <1>2, <1>3 DEF TypeOK
<1>5. Unimported'
  BY <1>1, <1>3 DEF Unimported, TypeOK
<1>6. /\ Active' = Active /\ Settled' = Settled /\ Neurons' = Neurons
      /\ Granted' = Granted /\ Overage' = Overage /\ Actual' = Actual
      /\ Gratis' = Gratis /\ Paid' = Paid
      /\ \A x : On(Active, x)' = On(Active, x) /\ On(Settled, x)' = On(Settled, x)
      /\ \A x : In(Active, x)' = In(Active, x) /\ In(Settled, x)' = In(Settled, x)
  BY <1>3 DEF Active, Settled, WithStatus, Neurons, Granted, Overage, Actual, Gratis,
              Paid, On, In
<1>7. FreeAllowanceOnce'
  BY <1>1, <1>6 DEF FreeAllowanceOnce, CountersExact
<1>8. /\ Active \in SUBSET DOMAIN ai /\ Settled \in SUBSET DOMAIN ai
      /\ s \in {"owner", "public"}
  BY DEF Active, Settled, WithStatus, Shards
<1>9. DayAccounts'
  <2> SUFFICES ASSUME NEW d \in Days
               PROVE  /\ dayReserved'[d] = Sum(On(Active, d), Neurons)'
                      /\ dayUsed'[d] = Sum(On(Settled, d), Actual)'
                                          + legacyDay'["owner"][d] + legacyDay'["public"][d]
    BY DEF DayAccounts
  <2> DEFINE a == Sum(On(Settled, d), Actual)
             x == legacyDay["owner"][d]
             y == legacyDay["public"][d]
             z == daily[d]
  <2>1. dayReserved'[d] = Sum(On(Active, d), Neurons)'
    BY <1>1, <1>3, <1>6 DEF DayAccounts, CountersExact
  <2>2. Sum(On(Settled, d), Actual)' = a
    BY <1>6
  <2>3. dayUsed[d] = a + x + y /\ dayUsed'[d] = dayUsed[d] + z
    BY <1>1, <1>3 DEF DayAccounts, CountersExact
  <2>4. a \in Nat /\ x \in Nat /\ y \in Nat /\ z \in Nat
    <3>1. IsFiniteSet(On(Settled, d))
      BY <1>1, <1>8, PartsFinite
    <3>2. a \in Nat
      BY <3>1, SumType
    <3>3. QED
      BY <1>1, <1>2, <3>2 DEF TypeOK, Shards
  <2>5. /\ s = "owner" => x = 0 /\ legacyDay'["owner"][d] = z /\ legacyDay'["public"][d] = y
        /\ s = "public" => y = 0 /\ legacyDay'["owner"][d] = x /\ legacyDay'["public"][d] = z
    BY <1>1, <1>3, <1>8 DEF Unimported, TypeOK, Shards
  <2> HIDE DEF a, x, y, z
  <2>6. dayUsed'[d] = a + legacyDay'["owner"][d] + legacyDay'["public"][d]
    BY <1>8, <2>3, <2>4, <2>5
  <2>7. QED
    BY <2>1, <2>2, <2>6
<1>10. MonthAccounts'
  <2> SUFFICES ASSUME NEW m \in Months
               PROVE  /\ monthReserved'[m] = Sum(In(Active, m), Overage)'
                      /\ monthUsed'[m] = Sum(In(Settled, m), Paid)'
                                          + legacyMonth'["owner"][m] + legacyMonth'["public"][m]
    BY DEF MonthAccounts
  <2> DEFINE a == Sum(In(Settled, m), Paid)
             x == legacyMonth["owner"][m]
             y == legacyMonth["public"][m]
             z == monthly[m]
  <2>1. monthReserved'[m] = Sum(In(Active, m), Overage)'
    BY <1>1, <1>3, <1>6 DEF MonthAccounts, CountersExact
  <2>2. Sum(In(Settled, m), Paid)' = a
    BY <1>6
  <2>3. monthUsed[m] = a + x + y /\ monthUsed'[m] = monthUsed[m] + z
    BY <1>1, <1>3 DEF MonthAccounts, CountersExact
  <2>4. a \in Nat /\ x \in Nat /\ y \in Nat /\ z \in Nat
    <3>1. IsFiniteSet(In(Settled, m))
      BY <1>1, <1>8, PartsFinite
    <3>2. a \in Nat
      BY <3>1, SumType
    <3>3. QED
      BY <1>1, <1>2, <3>2 DEF TypeOK, Shards
  <2>5. /\ s = "owner" => x = 0 /\ legacyMonth'["owner"][m] = z /\ legacyMonth'["public"][m] = y
        /\ s = "public" => y = 0 /\ legacyMonth'["owner"][m] = x /\ legacyMonth'["public"][m] = z
    BY <1>1, <1>3, <1>8 DEF Unimported, TypeOK, Shards
  <2> HIDE DEF a, x, y, z
  <2>6. monthUsed'[m] = a + legacyMonth'["owner"][m] + legacyMonth'["public"][m]
    BY <1>8, <2>3, <2>4, <2>5
  <2>7. QED
    BY <2>1, <2>2, <2>6
<1>11. QED
  BY <1>4, <1>5, <1>7, <1>9, <1>10 DEF Inv, CountersExact

\* Storing a cap, the clock and a stutter touch no account.
LEMMA QuietStep ==
    ASSUME Inv, UNCHANGED <<ai, usage, imports>>,
           policy' \in Policies \cup {NoPolicy}, now' \in Nat
    PROVE  Inv'
<1>1. TypeOK /\ CountersExact /\ Unimported
  BY DEF Inv
<1>2. /\ ai' = ai /\ dayUsed' = dayUsed /\ dayReserved' = dayReserved
      /\ monthUsed' = monthUsed /\ monthReserved' = monthReserved
      /\ legacyDay' = legacyDay /\ legacyMonth' = legacyMonth /\ markers' = markers
  BY DEF usage, imports
<1>3. TypeOK'
  BY <1>1, <1>2 DEF TypeOK
<1>4. Unimported'
  BY <1>1, <1>2 DEF Unimported
<1>5. /\ Active' = Active /\ Settled' = Settled /\ Neurons' = Neurons
      /\ Granted' = Granted /\ Overage' = Overage /\ Actual' = Actual
      /\ Gratis' = Gratis /\ Paid' = Paid
      /\ \A x : On(Active, x)' = On(Active, x) /\ On(Settled, x)' = On(Settled, x)
      /\ \A x : In(Active, x)' = In(Active, x) /\ In(Settled, x)' = In(Settled, x)
  BY <1>2 DEF Active, Settled, WithStatus, Neurons, Granted, Overage, Actual, Gratis,
              Paid, On, In
<1>6. DayAccounts'
  BY <1>1, <1>2, <1>5 DEF DayAccounts, CountersExact
<1>7. MonthAccounts'
  BY <1>1, <1>2, <1>5 DEF MonthAccounts, CountersExact
<1>8. FreeAllowanceOnce'
  BY <1>1, <1>5 DEF FreeAllowanceOnce, CountersExact
<1>9. QED
  BY <1>3, <1>4, <1>6, <1>7, <1>8 DEF Inv, CountersExact

-----------------------------------------------------------------------------
(***************************************************************************)
(* The invariant, and what a step may do to the spend.                     *)
(***************************************************************************)

LEMMA InitInv == Init => Inv
<1> SUFFICES ASSUME Init PROVE Inv
  OBVIOUS
<1>1. TypeOK
  <2>1. DOMAIN ai = {} /\ IsFiniteSet({})
    BY FS_EmptySet DEF Init
  <2>2. QED
    BY <2>1 DEF Init, TypeOK
<1>2. \A x : /\ On(Active, x) = {} /\ On(Settled, x) = {}
             /\ In(Active, x) = {} /\ In(Settled, x) = {}
  BY DEF Init, Active, Settled, WithStatus, On, In
<1>3. /\ \A d \in Days : /\ dayUsed[d] = 0 /\ dayReserved[d] = 0
                         /\ legacyDay["owner"][d] = 0 /\ legacyDay["public"][d] = 0
      /\ \A m \in Months : /\ monthUsed[m] = 0 /\ monthReserved[m] = 0
                           /\ legacyMonth["owner"][m] = 0 /\ legacyMonth["public"][m] = 0
  BY DEF Init, Shards
<1>4. DayAccounts
  BY <1>2, <1>3, SumNone DEF DayAccounts
<1>5. MonthAccounts
  BY <1>2, <1>3, SumNone DEF MonthAccounts
<1>6. FreeAllowanceOnce
  BY <1>2, SumNone, AiConstants DEF FreeAllowanceOnce
<1>7. Unimported
  BY DEF Init, Unimported
<1>8. QED
  BY <1>1, <1>4, <1>5, <1>6, <1>7 DEF Inv, CountersExact

LEMMA NextInv == Inv /\ [Next]_vars => Inv'
<1> SUFFICES ASSUME Inv, [Next]_vars PROVE Inv'
  OBVIOUS
<1>1. ASSUME NEW r \in Ids, NEW k \in Keys, NEW d \in Days, NEW n \in 1..MaxNeurons,
             NEW e \in now..(now + TTL), NEW sent \in Policies,
             ReserveAi(r, k, d, n, e, sent)
      PROVE  Inv'
  <2>1. CASE ~KnownKey(k) /\ WithinCap(d, n, sent)
    <3>1. e \in Nat
      BY AiConstants DEF Inv, TypeOK
    <3>2. QED
      BY <1>1, <2>1, <3>1, AdmitStep
  <2>2. CASE ~(~KnownKey(k) /\ WithinCap(d, n, sent))
    <3>1. /\ ai' = Marked(Expired, "expired") /\ dayReserved' = DayReturned(Expired)
          /\ monthReserved' = MonthReturned(Expired)
          /\ UNCHANGED <<dayUsed, monthUsed, policy, imports, now>>
      BY <1>1, <2>2 DEF ReserveAi
    <3>2. Expired \in SUBSET Active /\ "expired" \in {"released", "expired"}
      BY DEF Expired
    <3>3. QED
      BY <3>1, <3>2, CloseStep
  <2>3. QED
    BY <2>1, <2>2
<1>2. ASSUME NEW r \in Ids, NEW a \in 0..MaxNeurons, SettleAi(r, a)
      PROVE  Inv'
  BY <1>2, SettleStep
<1>3. ASSUME NEW r \in Ids, ReleaseAi(r)
      PROVE  Inv'
  <2>1. {r} \in SUBSET Active /\ "released" \in {"released", "expired"}
    BY <1>3 DEF ReleaseAi
  <2>2. QED
    BY <1>3, <2>1, CloseStep DEF ReleaseAi
<1>4. ASSUME NEW c \in Policies, SetAiPolicy(c)
      PROVE  Inv'
  BY <1>4, QuietStep DEF SetAiPolicy, Inv, TypeOK
<1>5. ASSUME NEW s \in Shards, NEW u \in LegacyUsage, ImportLegacy(s, u[1], u[2])
      PROVE  Inv'
  BY <1>5, ImportStep
<1>6. CASE Tick
  BY <1>6, QuietStep DEF Tick, Inv, TypeOK
<1>7. CASE UNCHANGED vars
  BY <1>7, QuietStep DEF vars, Inv, TypeOK
<1>8. QED
  BY <1>1, <1>2, <1>3, <1>4, <1>5, <1>6, <1>7 DEF Next

\* The action of SpendWithinCap.
SpendStep ==
    \A m \in Months :
        \/ markers' # markers
        \/ (monthUsed[m] + monthReserved[m])' <= monthUsed[m] + monthReserved[m]
        \/ policy \in {NoPolicy, Unlimited}
        \/ (monthUsed[m] + monthReserved[m])' <= policy

\* Returning holds makes no month's total grow.
LEMMA CloseSpend ==
    ASSUME Inv, NEW S \in SUBSET Active, monthReserved' = MonthReturned(S),
           monthUsed' = monthUsed
    PROVE  SpendStep
<1> SUFFICES ASSUME NEW m \in Months
             PROVE  (monthUsed[m] + monthReserved[m])' <= monthUsed[m] + monthReserved[m]
  BY DEF SpendStep
<1>1. monthUsed[m] \in Nat /\ monthReserved[m] \in Nat
  BY DEF Inv, TypeOK
<1>2. /\ MonthReturned(S)[m] = monthReserved[m] - Sum(In(S, m), Overage)
      /\ Sum(In(S, m), Overage) \in Nat
  BY ReturnedExact
<1>3. QED
  BY <1>1, <1>2

\* An admitted reserve stays within the stored cap.
LEMMA AdmitSpend ==
    ASSUME Inv, NEW r, NEW k, NEW d \in Days, NEW n \in 1..MaxNeurons, NEW e, NEW sent,
           ReserveAi(r, k, d, n, e, sent), ~KnownKey(k), WithinCap(d, n, sent)
    PROVE  SpendStep
<1> DEFINE o == n - FreeFor(d, n)
<1>1. /\ monthReserved' = [MonthReturned(Expired) EXCEPT ![MonthOf[d]] = @ + o]
      /\ monthUsed' = monthUsed
  BY DEF ReserveAi
<1>2. Expired \in SUBSET Active
  BY DEF Expired
<1>3. o \in Nat
  BY FreeForFacts, AiConstants
<1>4. \/ policy \in {NoPolicy, Unlimited}
      \/ monthUsed[MonthOf[d]] + MonthReturned(Expired)[MonthOf[d]] + o <= policy
  BY DEF WithinCap, CapOf
<1> HIDE DEF o
<1> SUFFICES ASSUME NEW m \in Months
             PROVE  \/ (monthUsed[m] + monthReserved[m])' <= monthUsed[m] + monthReserved[m]
                    \/ policy \in {NoPolicy, Unlimited}
                    \/ (monthUsed[m] + monthReserved[m])' <= policy
  BY DEF SpendStep
<1>5. monthUsed[m] \in Nat /\ monthReserved[m] \in Nat
  BY DEF Inv, TypeOK
<1>6. /\ MonthReturned(Expired) \in [Months -> Nat]
      /\ MonthReturned(Expired)[m] = monthReserved[m] - Sum(In(Expired, m), Overage)
      /\ Sum(In(Expired, m), Overage) \in Nat
  BY <1>2, ReturnedExact
<1>7. CASE m = MonthOf[d]
  <2>1. (monthUsed[m] + monthReserved[m])' = monthUsed[m] + (MonthReturned(Expired)[m] + o)
    BY <1>1, <1>6, <1>7
  <2>2. MonthReturned(Expired)[m] \in Nat
    BY <1>6
  <2>3. monthUsed[m] + (MonthReturned(Expired)[m] + o) =
          monthUsed[m] + MonthReturned(Expired)[m] + o
    BY <1>3, <1>5, <2>2
  <2>4. QED
    BY <1>4, <1>7, <2>1, <2>3
<1>8. CASE m # MonthOf[d]
  <2>1. (monthUsed[m] + monthReserved[m])' = monthUsed[m] + MonthReturned(Expired)[m]
    BY <1>1, <1>6, <1>8
  <2>2. QED
    BY <1>5, <1>6, <2>1
<1>9. QED
  BY <1>7, <1>8

\* What a settled row pays is at most the overage it held.
LEMMA SettleSpend ==
    ASSUME Inv, NEW r, NEW a \in 0..MaxNeurons, SettleAi(r, a)
    PROVE  SpendStep
<1> DEFINE p == Monus(a, ai[r].free)
           o == ai[r].overage
           x == MonthOf[ai[r].day]
<1>1. /\ r \in Active /\ r \in DOMAIN ai /\ a <= ai[r].neurons
      /\ monthReserved' = MonthReturned({r})
      /\ monthUsed' = [monthUsed EXCEPT ![x] = @ + p]
  BY DEF SettleAi, Active, WithStatus
<1>2. /\ ai[r].neurons \in 1..MaxNeurons /\ ai[r].free \in 0..MaxNeurons
      /\ o = ai[r].neurons - ai[r].free /\ o \in 0..MaxNeurons /\ x \in Months
  BY <1>1, RowFacts DEF Inv, TypeOK, Row
<1>3. p \in Nat /\ o \in Nat /\ p <= o
  <2> DEFINE f == ai[r].free
             n == ai[r].neurons
  <2>1. f \in Nat /\ n \in Nat /\ a \in Nat /\ a <= n /\ o = n - f /\ o \in Nat
    BY <1>1, <1>2, AiConstants
  <2>2. p = Monus(a, f)
    OBVIOUS
  <2> HIDE DEF f, n, o, p
  <2>3. QED
    BY <2>1, <2>2 DEF Monus
<1> SUFFICES ASSUME NEW m \in Months
             PROVE  (monthUsed[m] + monthReserved[m])' <= monthUsed[m] + monthReserved[m]
  BY DEF SpendStep
<1>4. monthUsed \in [Months -> Nat] /\ monthReserved[m] \in Nat
  BY DEF Inv, TypeOK
<1>5. /\ MonthReturned({r})[m] = monthReserved[m] - Sum(In({r}, m), Overage)
      /\ Sum(In({r}, m), Overage) \in Nat
  <2>1. {r} \in SUBSET Active
    BY <1>1
  <2>2. QED
    BY <2>1, ReturnedExact
<1>6. Sum(In({r}, m), Overage) = IF x = m THEN o ELSE 0
  <2>1. In({r}, m) = {q \in {r} : x = m} /\ (x = m) \in BOOLEAN
    BY DEF In
  <2>2. Overage[r] = o /\ Overage[r] \in 0..MaxNeurons
    BY <1>1, <1>2 DEF Overage
  <2>3. Sum(In({r}, m), Overage) = IF x = m THEN Overage[r] ELSE 0
    BY <2>1, <2>2, SumIf
  <2>4. QED
    BY <2>2, <2>3
<1>7. (monthUsed[m] + monthReserved[m])' =
        (IF x = m THEN monthUsed[m] + p ELSE monthUsed[m]) + MonthReturned({r})[m]
  BY <1>1, <1>4
<1> HIDE DEF p, o, x
<1>8. QED
  BY <1>3, <1>4, <1>5, <1>6, <1>7

LEMMA NextSpend == Inv /\ [Next]_vars => SpendStep
<1> SUFFICES ASSUME Inv, [Next]_vars PROVE SpendStep
  OBVIOUS
<1>1. ASSUME NEW r \in Ids, NEW k \in Keys, NEW d \in Days, NEW n \in 1..MaxNeurons,
             NEW e \in now..(now + TTL), NEW sent \in Policies,
             ReserveAi(r, k, d, n, e, sent)
      PROVE  SpendStep
  <2>1. CASE ~KnownKey(k) /\ WithinCap(d, n, sent)
    BY <1>1, <2>1, AdmitSpend
  <2>2. CASE ~(~KnownKey(k) /\ WithinCap(d, n, sent))
    <3>1. monthReserved' = MonthReturned(Expired) /\ monthUsed' = monthUsed
      BY <1>1, <2>2 DEF ReserveAi
    <3>2. Expired \in SUBSET Active
      BY DEF Expired
    <3>3. QED
      BY <3>1, <3>2, CloseSpend
  <2>3. QED
    BY <2>1, <2>2
<1>2. ASSUME NEW r \in Ids, NEW a \in 0..MaxNeurons, SettleAi(r, a)
      PROVE  SpendStep
  BY <1>2, SettleSpend
<1>3. ASSUME NEW r \in Ids, ReleaseAi(r)
      PROVE  SpendStep
  <2>1. {r} \in SUBSET Active
    BY <1>3 DEF ReleaseAi
  <2>2. QED
    BY <1>3, <2>1, CloseSpend DEF ReleaseAi
<1>4. ASSUME NEW s \in Shards, NEW u \in LegacyUsage, ImportLegacy(s, u[1], u[2])
      PROVE  SpendStep
  BY <1>4 DEF ImportLegacy, SpendStep
<1>5. CASE (\E c \in Policies : SetAiPolicy(c)) \/ Tick \/ UNCHANGED vars
  <2>1. monthUsed' = monthUsed /\ monthReserved' = monthReserved
    BY <1>5 DEF SetAiPolicy, Tick, vars, usage
  <2>2. \A m \in Months : monthUsed[m] \in Nat /\ monthReserved[m] \in Nat
    BY DEF Inv, TypeOK
  <2>3. QED
    BY <2>1, <2>2 DEF SpendStep
<1>6. QED
  BY <1>1, <1>2, <1>3, <1>4, <1>5 DEF Next

LEMMA Invariance == Spec => []Inv
BY InitInv, NextInv, PTL DEF Spec

-----------------------------------------------------------------------------

\* Type correctness of the AI half of the quota object.
THEOREM AiTypeCorrect == Spec => []TypeOK
<1>1. Inv => TypeOK
  BY DEF Inv
<1>2. QED
  BY <1>1, Invariance, PTL

\* The daily and monthly counters are exactly the rows' (whatever is settled, released,
\* reaped or imported in between), and the free allowance of a day is granted once.
THEOREM AiAccountsExact == Spec => []CountersExact
<1>1. Inv => CountersExact
  BY DEF Inv
<1>2. QED
  BY <1>1, Invariance, PTL

\* Outside a migration import the spend a month commits grows only within the cap in
\* force, for every order of reserves, settlements and changes of the cap.
THEOREM AiSpendWithinCap == Spec => SpendWithinCap
<1>1. Inv /\ [Next]_vars => [SpendStep]_vars
  BY NextSpend
<1>2. Spec => [][SpendStep]_vars
  BY <1>1, Invariance, PTL DEF Spec
<1>3. QED
  BY <1>2 DEF SpendStep, SpendWithinCap

=============================================================================
