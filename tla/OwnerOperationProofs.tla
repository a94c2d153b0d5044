------------------------ MODULE OwnerOperationProofs ------------------------
(***************************************************************************)
(* Proofs about OwnerOperation: every operation takes effect at most once  *)
(* and is charged at most once after its effect (the refinement of         *)
(* MeteredOperation), and success is answered only when it was charged.    *)
(***************************************************************************)
EXTENDS OwnerOperation, FiniteSetTheorems, TLAPS

-----------------------------------------------------------------------------
(***************************************************************************)
(* The inductive invariant.  Rows belong to the request that minted their  *)
(* id; a key owns one row, so it has one settled row; the idempotency      *)
(* table and the effects agree; a handler past its call to the             *)
(* conversation, and a settled row, imply the effect.                      *)
(***************************************************************************)

RowsOwned ==
    /\ DOMAIN res \subseteq Requests
    /\ \A r \in DOMAIN res : res[r] \in Ledger!Row /\ res[r].key = KeyOf[r]

OneRow == \A r, q \in DOMAIN res : res[r].key = res[q].key => r = q

StoredRan == \A k \in Keys : runs[k] = 1 <=> k \in stored

AppliedRan == \A r \in Requests : at[r] = "applied" => KeyOf[r] \in stored

SettledRan ==
    \A r \in DOMAIN res :
        res[r].status = "settled" => KeyOf[r] \in stored /\ res[r].actual = 1

OkSettled ==
    \A r \in Requests :
        answer[r] = "ok" => \E q \in DOMAIN res : /\ res[q].key = KeyOf[r]
                                                  /\ res[q].status = "settled"

Inv == TypeOK /\ RowsOwned /\ OneRow /\ StoredRan /\ AppliedRan /\ SettledRan /\ OkSettled

-----------------------------------------------------------------------------
(***************************************************************************)
(* What a step may do to the ledger's table, stated without the counters.  *)
(***************************************************************************)

\* Rows keep their key, a settled row stays as it is, no row disappears.
Kept ==
    \A q \in DOMAIN res :
        /\ q \in DOMAIN res'
        /\ res'[q] \in Ledger!Row
        /\ res'[q].key = res[q].key
        /\ res[q].status = "settled" => res'[q] = res[q]

\* Nothing is settled by the step.
NoneSettled ==
    \A q \in DOMAIN res' :
        res'[q].status = "settled" => q \in DOMAIN res /\ res[q].status = "settled"

\* Marking active rows keeps the table.
LEMMA MarkedKept ==
    ASSUME RowsOwned, NEW S, S \subseteq Ledger!Active,
           NEW s \in {"released", "expired"}, res' = Ledger!Marked(S, s)
    PROVE  DOMAIN res' = DOMAIN res /\ Kept /\ NoneSettled
<1>1. DOMAIN res' = DOMAIN res
  BY DEF Ledger!Marked
<1>2. ASSUME NEW q \in DOMAIN res
      PROVE  /\ res'[q] \in Ledger!Row
             /\ res'[q].key = res[q].key
             /\ res[q].status = "settled" => res'[q] = res[q]
             /\ res'[q].status = "settled" => res[q].status = "settled"
  <2>1. res[q] \in Ledger!Row
    BY DEF RowsOwned
  <2>2. CASE q \in S
    <3>1. res'[q] = [res[q] EXCEPT !.status = s] /\ res[q].status = "active"
      BY <2>2 DEF Ledger!Marked, Ledger!Active, Ledger!WithStatus
    <3>2. QED
      BY <2>1, <3>1 DEF Ledger!Row, Ledger!Status
  <2>3. CASE q \notin S
    BY <2>1, <2>3 DEF Ledger!Marked
  <2>4. QED
    BY <2>2, <2>3
<1>3. QED
  BY <1>1, <1>2 DEF Kept, NoneSettled

LEMMA ReserveTable ==
    ASSUME RowsOwned, NEW r \in Requests, r \notin DOMAIN res, NEW e \in Nat,
           KeyOf[r] \in Keys,
           Ledger!Reserve(r, Unit(KeyOf[r]), e)
    PROVE  /\ Kept /\ NoneSettled
           /\ \/ DOMAIN res' = DOMAIN res
              \/ /\ DOMAIN res' = DOMAIN res \cup {r}
                 /\ res'[r] \in Ledger!Row
                 /\ res'[r].key = KeyOf[r]
                 /\ \A q \in DOMAIN res : res[q].key # KeyOf[r]
<1> DEFINE items == [x \in {r} |-> Unit(KeyOf[r])]
<1> DEFINE old == Ledger!Marked(Ledger!Expired, "expired")
<1>1. Ledger!ReserveItems(items, e)
  BY DEF Ledger!Reserve
<1>2. Ledger!Expired \subseteq Ledger!Active
  BY DEF Ledger!Expired
<1>3. CASE ~Ledger!Admitted(items)
  <2>1. res' = old
    BY <1>1, <1>3 DEF Ledger!ReserveItems
  <2>2. QED
    BY <1>2, <2>1, MarkedKept
<1>4. CASE Ledger!Admitted(items)
  <2>1. res' = Ledger!Inserted(items, e)
    BY <1>1, <1>4 DEF Ledger!ReserveItems
  <2>2. DOMAIN res' = DOMAIN res \cup {r}
    BY <2>1 DEF Ledger!Inserted
  <2>3. res'[r] = [status |-> "active", key |-> KeyOf[r], bucket |-> bucket,
                   amount |-> 1, expires |-> e, actual |-> 0]
    BY <2>1 DEF Ledger!Inserted, Unit
  <2>4. res'[r] \in Ledger!Row /\ res'[r].key = KeyOf[r] /\ res'[r].status = "active"
    BY <2>3 DEF Ledger!Row, Ledger!Status, Ledger!MaxActual
  <2>5. \A q \in DOMAIN res : res[q].key # KeyOf[r]
    BY <1>4 DEF Ledger!Admitted, Ledger!KnownKey, Unit
  <2>6. ASSUME NEW q \in DOMAIN res
        PROVE  /\ res'[q] \in Ledger!Row
               /\ res'[q].key = res[q].key
               /\ res[q].status = "settled" => res'[q] = res[q]
               /\ res'[q].status = "settled" => res[q].status = "settled"
    <3>1. res'[q] = old[q] /\ res[q] \in Ledger!Row
      BY <2>1 DEF Ledger!Inserted, RowsOwned
    <3>2. CASE q \in Ledger!Expired
      <4>1. res'[q] = [res[q] EXCEPT !.status = "expired"] /\ res[q].status = "active"
        BY <1>2, <3>1, <3>2 DEF Ledger!Marked, Ledger!Active, Ledger!WithStatus
      <4>2. QED
        BY <3>1, <4>1 DEF Ledger!Row, Ledger!Status
    <3>3. CASE q \notin Ledger!Expired
      BY <3>1, <3>3 DEF Ledger!Marked
    <3>4. QED
      BY <3>2, <3>3
  <2>7. QED
    BY <2>2, <2>4, <2>5, <2>6 DEF Kept, NoneSettled
<1>5. QED
  BY <1>3, <1>4

LEMMA SettleTable ==
    ASSUME RowsOwned, NEW r \in DOMAIN res, Ledger!Settle(r, 1)
    PROVE  /\ DOMAIN res' = DOMAIN res /\ Kept
           /\ res'[r].status = "settled"
           /\ res[r].status # "settled" => res'[r].actual = 1
           /\ \A q \in DOMAIN res : q # r => res'[q] = res[q]
<1> DEFINE charged == {r} \cap Ledger!Active
<1>1. /\ {r} \subseteq Ledger!Active \cup Ledger!WithStatus("settled")
      /\ res' = [q \in DOMAIN res |->
                    IF q \in charged
                    THEN [res[q] EXCEPT !.status = "settled",
                                        !.actual = [x \in {r} |-> 1][q]]
                    ELSE res[q]]
  BY DEF Ledger!Settle, Ledger!SettleItems
<1>2. DOMAIN res' = DOMAIN res
  BY <1>1
<1>3. \A q \in DOMAIN res : q # r => res'[q] = res[q]
  BY <1>1
<1>4. res[r] \in Ledger!Row
  BY DEF RowsOwned
<1>5. CASE res[r].status = "active"
  <2>1. res'[r] = [res[r] EXCEPT !.status = "settled", !.actual = 1]
    BY <1>1, <1>5 DEF Ledger!Active, Ledger!WithStatus
  <2>2. /\ res'[r] \in Ledger!Row /\ res'[r].key = res[r].key
        /\ res'[r].status = "settled" /\ res'[r].actual = 1
    <3>1. 1 \in 0..Ledger!MaxActual
      BY DEF Ledger!MaxActual
    <3>2. "settled" \in Ledger!Status
      BY DEF Ledger!Status
    <3>3. QED
      BY ONLY <1>4, <2>1, <3>1, <3>2 DEF Ledger!Row
  <2>3. QED
    BY <1>2, <1>3, <1>5, <2>2 DEF Kept, RowsOwned
<1>6. CASE res[r].status # "active"
  <2>1. res'[r] = res[r] /\ res[r].status = "settled"
    BY <1>1, <1>6 DEF Ledger!Active, Ledger!WithStatus
  <2>2. QED
    BY <1>2, <1>3, <2>1 DEF Kept, RowsOwned
<1>7. QED
  BY <1>5, <1>6

LEMMA ReleaseTable ==
    ASSUME RowsOwned, NEW r \in DOMAIN res, Ledger!Release(r)
    PROVE  DOMAIN res' = DOMAIN res /\ Kept /\ NoneSettled
<1>1. res' = Ledger!Marked({r} \cap Ledger!Active, "released")
  BY DEF Ledger!Release, Ledger!ReleaseItems
<1>2. QED
  BY <1>1, MarkedKept

LEMMA SameTable ==
    ASSUME RowsOwned, res' = res
    PROVE  DOMAIN res' = DOMAIN res /\ Kept /\ NoneSettled
BY DEF Kept, NoneSettled, RowsOwned

-----------------------------------------------------------------------------
(***************************************************************************)
(* The parts of the invariant that only the table and the history matter   *)
(* to are preserved by every step that keeps the table.                    *)
(***************************************************************************)

LEMMA TableInv ==
    ASSUME Inv, Kept, NoneSettled, stored \subseteq stored', NEW r \in Requests,
           \/ DOMAIN res' = DOMAIN res
           \/ /\ DOMAIN res' = DOMAIN res \cup {r}
              /\ res'[r] \in Ledger!Row
              /\ res'[r].key = KeyOf[r]
              /\ \A q \in DOMAIN res : res[q].key # KeyOf[r]
    PROVE  RowsOwned' /\ OneRow' /\ SettledRan'
BY DEF Inv, Kept, NoneSettled, RowsOwned, OneRow, SettledRan

LEMMA OkKept ==
    ASSUME TypeOK, OkSettled, Kept,
           \/ answer' = answer
           \/ \E r \in Requests, a \in Answers :
                 a # "ok" /\ answer' = [answer EXCEPT ![r] = a]
    PROVE  OkSettled'
BY DEF TypeOK, OkSettled, Kept

\* A handler that moves on without applying anything.
LEMMA MoveInv ==
    ASSUME Inv, NEW r \in Requests, Kept, NoneSettled, UNCHANGED <<stored, runs>>,
           \/ DOMAIN res' = DOMAIN res
           \/ /\ DOMAIN res' = DOMAIN res \cup {r}
              /\ res'[r] \in Ledger!Row
              /\ res'[r].key = KeyOf[r]
              /\ \A q \in DOMAIN res : res[q].key # KeyOf[r],
           \/ \E p \in {"reserved", "failed"} : Goto(r, p)
           \/ \E a \in Answers \ {"ok"} : Reply(r, a)
    PROVE  Inv'
<1>1. /\ answer' \in [Requests -> Answers]
      /\ \/ answer' = answer
         \/ \E a \in Answers : a # "ok" /\ answer' = [answer EXCEPT ![r] = a]
  BY DEF Inv, TypeOK, Goto, Reply
<1>2. /\ at' \in [Requests -> Places]
      /\ \A q \in Requests : at'[q] = "start" => at[q] = "start" /\ q # r
      /\ \A q \in Requests : at'[q] = "applied" => at[q] = "applied"
  BY DEF Inv, TypeOK, Goto, Reply, Places
<1>3. RowsOwned' /\ OneRow' /\ SettledRan'
  BY TableInv
<1>4. OkSettled'
  BY <1>1, OkKept DEF Inv
<1>5. TypeOK'
  BY <1>1, <1>2 DEF Inv, TypeOK
<1>6. StoredRan' /\ AppliedRan'
  BY <1>2 DEF Inv, StoredRan, AppliedRan
<1>7. QED
  BY <1>3, <1>4, <1>5, <1>6 DEF Inv

LEMMA ReserveInv ==
    ASSUME Inv, now \in Nat, NEW r \in Requests, ReserveOwner(r)
    PROVE  Inv' /\ Kept /\ NoneSettled
<1>1. r \notin DOMAIN res /\ KeyOf[r] \in Keys /\ now + TTL \in Nat
  BY OwnerConstants DEF Inv, TypeOK, ReserveOwner
<1>2. /\ Kept /\ NoneSettled
      /\ \/ DOMAIN res' = DOMAIN res
         \/ /\ DOMAIN res' = DOMAIN res \cup {r}
            /\ res'[r] \in Ledger!Row
            /\ res'[r].key = KeyOf[r]
            /\ \A q \in DOMAIN res : res[q].key # KeyOf[r]
  BY <1>1, ReserveTable DEF Inv, ReserveOwner
<1>3. \/ Goto(r, "reserved")
      \/ \E a \in Answers \ {"ok"} : Reply(r, a)
  BY DEF ReserveOwner, ReserveReply, Answers
<1>4. UNCHANGED <<stored, runs>>
  BY DEF ReserveOwner
<1>5. QED
  BY <1>2, <1>3, <1>4, MoveInv

LEMMA ApplyInv ==
    ASSUME Inv, NEW r \in Requests, Apply(r)
    PROVE  Inv'
<1>1. res' = res /\ KeyOf[r] \in Keys
  BY OwnerConstants DEF Apply, quota
<1>2. DOMAIN res' = DOMAIN res /\ Kept /\ NoneSettled
  BY <1>1, SameTable DEF Inv
<1>3. /\ stored' = stored \cup {KeyOf[r]}
      /\ runs' = [runs EXCEPT ![KeyOf[r]] = 1]
  BY <1>1 DEF Inv, TypeOK, StoredRan, Apply, Perform
<1>4. /\ answer' = answer
      /\ at' \in [Requests -> Places]
      /\ \A q \in Requests : at'[q] = "start" => at[q] = "start"
      /\ \A q \in Requests : at'[q] = "applied" => at[q] = "applied" \/ q = r
  BY DEF Inv, TypeOK, Apply, Goto, Places
<1>5. RowsOwned' /\ OneRow' /\ SettledRan'
  BY <1>2, <1>3, TableInv
<1>6. OkSettled'
  BY <1>2, <1>4, OkKept DEF Inv
<1>7. TypeOK'
  BY <1>1, <1>3, <1>4 DEF Inv, TypeOK
<1>8. StoredRan' /\ AppliedRan'
  BY <1>1, <1>3, <1>4 DEF Inv, TypeOK, StoredRan, AppliedRan
<1>9. QED
  BY <1>5, <1>6, <1>7, <1>8 DEF Inv

LEMMA SettleInv ==
    ASSUME Inv, NEW r \in Requests, SettleOwner(r)
    PROVE  Inv'
<1>1. /\ DOMAIN res' = DOMAIN res /\ Kept
      /\ r \in DOMAIN res
      /\ res'[r].status = "settled"
      /\ res[r].status # "settled" => res'[r].actual = 1
      /\ \A q \in DOMAIN res : q # r => res'[q] = res[q]
  BY SettleTable DEF Inv, SettleOwner, CanSettle
<1>2. UNCHANGED <<stored, runs>> /\ KeyOf[r] \in stored
  BY DEF Inv, AppliedRan, SettleOwner
<1>3. /\ at' = [at EXCEPT ![r] = "done"]
      /\ \E a \in {"ok", "error"} : answer' = [answer EXCEPT ![r] = a]
  BY DEF SettleOwner, Reply
<1>4. RowsOwned' /\ OneRow'
  BY <1>1 DEF Inv, Kept, RowsOwned, OneRow
<1>5. SettledRan'
  BY <1>1, <1>2 DEF Inv, Kept, SettledRan
<1>6. OkSettled'
  <2>1. res'[r].key = KeyOf[r]
    BY <1>1 DEF Inv, Kept, RowsOwned
  <2>2. QED
    BY <1>1, <1>3, <2>1 DEF Inv, TypeOK, OkSettled, Kept
<1>7. TypeOK'
  BY <1>1, <1>2, <1>3 DEF Inv, TypeOK, Places, Answers
<1>8. StoredRan' /\ AppliedRan'
  BY <1>2, <1>3 DEF Inv, TypeOK, StoredRan, AppliedRan
<1>9. QED
  BY <1>4, <1>5, <1>6, <1>7, <1>8 DEF Inv

LEMMA ReleaseInv ==
    ASSUME Inv, NEW r \in Requests, ReleaseOwner(r)
    PROVE  Inv' /\ Kept /\ NoneSettled
<1>1. DOMAIN res' = DOMAIN res /\ Kept /\ NoneSettled
  BY ReleaseTable, SameTable DEF Inv, ReleaseOwner, quota
<1>2. UNCHANGED <<stored, runs>> /\ \E a \in Answers \ {"ok"} : Reply(r, a)
  BY DEF ReleaseOwner, Answers
<1>3. QED
  BY <1>1, <1>2, MoveInv

\* The steps that leave the ledger and the conversation alone.
LEMMA QuietInv ==
    ASSUME Inv, NEW r \in Requests,
           \/ ReserveUnreachable(r) \/ ApplyRefused(r) \/ SettleRefused(r)
           \/ SettleUnreachable(r) \/ Crash(r)
    PROVE  Inv' /\ Kept /\ NoneSettled
<1>1. UNCHANGED <<stored, runs>> /\ res' = res
  BY DEF ReserveUnreachable, ApplyRefused, SettleRefused, SettleUnreachable, Crash, quota
<1>2. DOMAIN res' = DOMAIN res /\ Kept /\ NoneSettled
  BY <1>1, SameTable DEF Inv
<1>3. \/ Goto(r, "failed")
      \/ \E a \in Answers \ {"ok"} : Reply(r, a)
  BY DEF ReserveUnreachable, ApplyRefused, SettleRefused, SettleUnreachable, Crash, Answers
<1>4. QED
  BY <1>1, <1>2, <1>3, MoveInv

\* Time passes, or nothing at all happens.
LEMMA IdleInv ==
    ASSUME Inv, UNCHANGED <<res, stored, runs, at, answer>>
    PROVE  Inv' /\ Kept /\ NoneSettled
<1>1. Kept /\ NoneSettled
  BY SameTable DEF Inv
<1>2. QED
  BY <1>1 DEF Inv, TypeOK, RowsOwned, OneRow, StoredRan, AppliedRan, SettledRan, OkSettled

-----------------------------------------------------------------------------

\* The clock is a number: all that is needed of the ledger's own variables.
Clock == now \in Nat

LEMMA InitInv == Init => Inv /\ Clock
BY DEF Init, Ledger!Init, Inv, Clock, TypeOK, RowsOwned, OneRow, StoredRan, AppliedRan,
       SettledRan, OkSettled, Places, Answers

LEMMA ClockStep ==
    ASSUME Clock, [Next]_vars
    PROVE  Clock'
<1>1. ASSUME NEW r \in Requests, Step(r)
      PROVE  now' = now
  BY <1>1 DEF Step, ReserveOwner, ReserveUnreachable, Apply, ApplyRefused, SettleOwner,
       SettleRefused, SettleUnreachable, ReleaseOwner, Crash, quota, Ledger!Reserve,
       Ledger!ReserveItems, Ledger!Settle, Ledger!SettleItems, Ledger!Release,
       Ledger!ReleaseItems
<1>2. QED
  BY <1>1 DEF Clock, Next, Tick, Ledger!Tick, vars, quota

LEMMA NextStep ==
    ASSUME Inv, Clock, [Next]_vars
    PROVE  Inv'
<1>1. ASSUME NEW r \in Requests, Step(r)
      PROVE  Inv'
  BY <1>1, ReserveInv, ApplyInv, SettleInv, ReleaseInv, QuietInv DEF Step, Clock
<1>2. CASE Tick
  BY <1>2, IdleInv DEF Tick, Ledger!Tick
<1>3. CASE UNCHANGED vars
  BY <1>3, IdleInv DEF vars, quota
<1>4. QED
  BY <1>1, <1>2, <1>3 DEF Next

\* Every reachable state satisfies the inductive invariant.
THEOREM Invariance == Spec => [](Inv /\ Clock)
<1>1. Inv /\ Clock /\ [Next]_vars => (Inv /\ Clock)'
  BY NextStep, ClockStep
<1>2. QED
  BY <1>1, InitInv, PTL DEF Spec

\* The handlers' places and answers are typed, a request has no reservation before it
\* asked for one, and no key takes effect twice.
THEOREM TypeCorrect == Spec => []TypeOK
<1>1. Inv /\ Clock => TypeOK
  BY DEF Inv
<1>2. QED
  BY <1>1, Invariance, PTL

\* A mutation answered with success took effect and was charged its one unit.
THEOREM OkCharged == Spec => []OkMeansCharged
<1>1. Inv /\ Clock => OkMeansCharged
  <2>1. SUFFICES ASSUME Inv, NEW r \in Requests, answer[r] = "ok"
                 PROVE  /\ runs[KeyOf[r]] = 1
                        /\ \E q \in SettledFor(KeyOf[r]) : res[q].actual = 1
    BY DEF OkMeansCharged
  <2>2. PICK q \in DOMAIN res : res[q].key = KeyOf[r] /\ res[q].status = "settled"
    BY <2>1 DEF Inv, OkSettled
  <2>3. KeyOf[q] = KeyOf[r] /\ KeyOf[q] \in stored /\ res[q].actual = 1
    BY <2>1, <2>2 DEF Inv, RowsOwned, SettledRan
  <2>4. KeyOf[r] \in Keys
    BY <2>1, OwnerConstants
  <2>5. QED
    BY <2>1, <2>2, <2>3, <2>4 DEF Inv, StoredRan, SettledFor
<1>2. QED
  BY <1>1, Invariance, PTL

-----------------------------------------------------------------------------
(***************************************************************************)
(* The refinement of MeteredOperation.                                     *)
(***************************************************************************)

charged == [k \in Keys |-> Cardinality(SettledFor(k))]

LEMMA ChargedSame ==
    ASSUME Inv, Kept, NoneSettled
    PROVE  charged' = charged
<1>1. ASSUME NEW k \in Keys
      PROVE  SettledFor(k)' = SettledFor(k)
  BY DEF Kept, NoneSettled, SettledFor
<1>2. QED
  BY <1>1 DEF charged

LEMMA ChargedOnce ==
    ASSUME Inv, NEW r \in Requests, SettleOwner(r)
    PROVE  Metered!Charge(KeyOf[r]) \/ UNCHANGED <<runs, charged>>
<1>1. /\ DOMAIN res' = DOMAIN res
      /\ r \in DOMAIN res
      /\ res'[r].status = "settled"
      /\ res'[r].key = res[r].key
      /\ res[r].key = KeyOf[r]
      /\ \A q \in DOMAIN res : q # r => res'[q] = res[q]
  BY SettleTable DEF Inv, RowsOwned, Kept, SettleOwner, CanSettle
<1>2. KeyOf[r] \in Keys /\ runs[KeyOf[r]] = 1 /\ runs' = runs
  BY OwnerConstants DEF Inv, AppliedRan, StoredRan, SettleOwner
<1>3. ASSUME NEW k \in Keys, k # KeyOf[r]
      PROVE  SettledFor(k)' = SettledFor(k)
  BY <1>1, <1>3 DEF SettledFor
<1>4. SettledFor(KeyOf[r])' = {r}
  BY <1>1 DEF Inv, OneRow, SettledFor
<1>5. CASE res[r].status = "settled"
  <2>1. SettledFor(KeyOf[r]) = {r}
    BY <1>1, <1>5 DEF Inv, OneRow, SettledFor
  <2>2. charged' = charged
    BY <1>3, <1>4, <2>1 DEF charged
  <2>3. QED
    BY <1>2, <2>2
<1>6. CASE res[r].status # "settled"
  <2>1. SettledFor(KeyOf[r]) = {}
    BY <1>1, <1>6 DEF Inv, OneRow, SettledFor
  <2>2. Cardinality(SettledFor(KeyOf[r])) = 0 /\ Cardinality(SettledFor(KeyOf[r])') = 1
    BY <1>4, <2>1, FS_EmptySet, FS_Singleton
  <2>3. charged' = [charged EXCEPT ![KeyOf[r]] = 1] /\ charged[KeyOf[r]] = 0
    BY <1>2, <1>3, <2>2 DEF charged
  <2>4. QED
    BY <1>2, <2>3 DEF charged, Metered!Charge
<1>7. QED
  BY <1>5, <1>6

LEMMA RefinesInit == Init => Metered!Init
<1>1. SUFFICES ASSUME Init
               PROVE  /\ runs = [k \in Keys |-> 0]
                      /\ charged = [k \in Keys |-> 0]
  BY DEF Metered!Init, charged
<1>2. \A k \in Keys : SettledFor(k) = {}
  BY <1>1 DEF Init, Ledger!Init, SettledFor
<1>3. QED
  BY <1>1, <1>2, FS_EmptySet DEF Init, charged

LEMMA RefinesStep ==
    ASSUME Inv, Clock, [Next]_vars
    PROVE  [Metered!Next]_<<runs, charged>>
<1>1. ASSUME NEW r \in Requests, Step(r)
      PROVE  [Metered!Next]_<<runs, charged>>
  <2>1. CASE ReserveOwner(r) \/ ReleaseOwner(r)
    <3>1. Kept /\ NoneSettled /\ runs' = runs
      BY <2>1, ReserveInv, ReleaseInv DEF Clock, ReserveOwner, ReleaseOwner
    <3>2. QED
      BY <3>1, ChargedSame
  <2>2. CASE \/ ReserveUnreachable(r) \/ ApplyRefused(r) \/ SettleRefused(r)
             \/ SettleUnreachable(r) \/ Crash(r)
    <3>1. Kept /\ NoneSettled /\ runs' = runs
      BY <2>2, QuietInv DEF ReserveUnreachable, ApplyRefused, SettleRefused,
           SettleUnreachable, Crash
    <3>2. QED
      BY <3>1, ChargedSame
  <2>3. CASE Apply(r)
    <3>1. Kept /\ NoneSettled
      BY <2>3, SameTable DEF Inv, Apply, quota
    <3>2. charged' = charged
      BY <3>1, ChargedSame
    <3>3. KeyOf[r] \in Keys
      BY OwnerConstants
    <3>4. \/ runs' = runs
          \/ runs[KeyOf[r]] = 0 /\ runs' = [runs EXCEPT ![KeyOf[r]] = 1]
      BY <2>3, <3>3 DEF Inv, TypeOK, StoredRan, Apply, Perform
    <3>5. QED
      BY <3>2, <3>3, <3>4 DEF charged, Metered!Next, Metered!Run
  <2>4. CASE SettleOwner(r)
    <3>1. KeyOf[r] \in Keys
      BY OwnerConstants
    <3>2. QED
      BY <2>4, <3>1, ChargedOnce DEF Metered!Next
  <2>5. QED
    BY <1>1, <2>1, <2>2, <2>3, <2>4 DEF Step
<1>2. CASE Tick \/ UNCHANGED vars
  <2>1. UNCHANGED <<res, stored, runs, at, answer>>
    BY <1>2 DEF Tick, Ledger!Tick, vars, quota
  <2>2. QED
    BY <2>1, IdleInv, ChargedSame
<1>3. QED
  BY <1>1, <1>2 DEF Next

\* The handlers implement the promise of MeteredOperation: at most one effect and at
\* most one charge per key, the charge after the effect, for every number of requests,
\* keys and retries, with lost replies, crashes and expiring reservations.
THEOREM Refinement == Spec => ChargedOncePerEffect
<1>1. Init => Metered!Init
  BY RefinesInit
<1>2. Inv /\ Clock /\ [Next]_vars => [Metered!Next]_<<runs, charged>>
  BY RefinesStep
<1>3. QED
  BY <1>1, <1>2, Invariance, PTL DEF Spec, ChargedOncePerEffect, Metered!Spec, charged

-----------------------------------------------------------------------------
(***************************************************************************)
(* The composition, seen through the ledger's variables, is the ledger.    *)
(***************************************************************************)

LEMMA LedgerStep ==
    ASSUME Inv, Clock, [Next]_vars
    PROVE  [Ledger!Next]_(Ledger!vars)
<1>1. ASSUME NEW r \in Requests, Step(r)
      PROVE  [Ledger!Next]_(Ledger!vars)
  <2>1. CASE ReserveOwner(r)
    <3>1. Ledger!Reserve(r, Unit(KeyOf[r]), now + TTL)
      BY <2>1 DEF ReserveOwner
    <3>2. Unit(KeyOf[r]) \in Ledger!Item
      BY OwnerConstants DEF Unit, Ledger!Item
    <3>3. now + TTL \in now..(now + TTL)
      BY OwnerConstants DEF Clock
    <3>4. QED
      BY <3>1, <3>2, <3>3 DEF Ledger!Next
  <2>2. CASE SettleOwner(r)
    <3>1. r \in DOMAIN res /\ Ledger!Settle(r, 1)
      BY <2>2 DEF SettleOwner, CanSettle
    <3>2. 1 \in 0..(res[r].amount + 0)
      BY <3>1 DEF Inv, RowsOwned, Ledger!Row
    <3>3. QED
      BY <3>1, <3>2 DEF Ledger!Next
  <2>3. CASE ReleaseOwner(r)
    <3>1. (r \in DOMAIN res /\ Ledger!Release(r)) \/ UNCHANGED quota
      BY <2>3 DEF ReleaseOwner
    <3>2. QED
      BY <3>1 DEF Ledger!Next, Ledger!vars, quota
  <2>4. CASE \/ ReserveUnreachable(r) \/ Apply(r) \/ ApplyRefused(r) \/ SettleRefused(r)
             \/ SettleUnreachable(r) \/ Crash(r)
    BY <2>4 DEF ReserveUnreachable, Apply, ApplyRefused, SettleRefused, SettleUnreachable,
         Crash, Ledger!vars, quota
  <2>5. QED
    BY <1>1, <2>1, <2>2, <2>3, <2>4 DEF Step
<1>2. CASE Tick
  BY <1>2 DEF Tick, Ledger!Next
<1>3. CASE UNCHANGED vars
  BY <1>3 DEF vars, quota, Ledger!vars
<1>4. QED
  BY <1>1, <1>2, <1>3 DEF Next

\* Every handler of the assistant calls the quota ledger as the ledger assumes it is
\* called, so what is proved of QuotaLedger holds of the composition.
THEOREM KeepsDiscipline == Spec => LedgerDiscipline
<1>1. Init => Ledger!Init
  BY DEF Init
<1>2. Inv /\ Clock /\ [Next]_vars => [Ledger!Next]_(Ledger!vars)
  BY LedgerStep
<1>3. [Ledger!Next]_(Ledger!vars) => [UNCHANGED quota \/ Ledger!Next]_quota
  BY DEF quota, Ledger!vars
<1>4. QED
  BY <1>1, <1>2, <1>3, Invariance, PTL DEF Spec, LedgerDiscipline

\* The handlers implement MeteredOperation on a ledger that behaves as QuotaLedger, and
\* answer with success what was charged only.
THEOREM Metering == Spec => MeteredOnce
BY Refinement, KeepsDiscipline, OkCharged, PTL DEF MeteredOnce

=============================================================================
