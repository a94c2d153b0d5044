------------------------- MODULE AuditLedgerProofs -------------------------
(***************************************************************************)
(* Proofs about AuditLedger, for any sets of events, any retention period  *)
(* and any delay of events shorter than it, whatever dates requests bring. *)
(* The chain does not fork because an append holds the gate from its read  *)
(* of the last hash to its insert, so that what it read is still the end   *)
(* of the chain; the row of a segment counts its events because the only   *)
(* closed segment an event still enters is today's, which a request closed *)
(* early; an alarm under way erases what it chose because no event of so   *)
(* old a day is on its way.  Events that arrive on their day leave a       *)
(* snapshot of alarm() true until it is recorded, however requests         *)
(* interleave with it.                                                     *)
(***************************************************************************)
EXTENDS AuditLedger, FiniteSetTheorems, WellFoundedInduction, TLAPS

Snapshots == UNION {[S -> Summary] : S \in SUBSET Days}

Execution ==
    [at : {"idle", "put", "record", "mark", "erase"}, todo : Snapshots, erase : SUBSET Days]

Append == [occ : Days, prev : Events \cup {None}, at : {"hash", "alarm"}]

\* The tables are functions, and the two executions and the appends are what they are.
Types ==
    /\ TypeOK
    /\ segs \in [DOMAIN segs -> Segment]
    /\ erased \subseteq Events
    /\ pending \in [DOMAIN pending -> Append]
    /\ run \in [Procs -> Execution]

\* Who is inside blockConcurrencyWhile is alone, and an execution that writes a checkpoint
\* has one to write.
Gated ==
    /\ DOMAIN pending # {} => gate = "append"
    /\ \A e, f \in DOMAIN pending : e = f
    /\ \A p \in Procs : run[p].at \in {"record", "mark"} => DOMAIN run[p].todo # {}

Ids == {log[i].id : i \in DOMAIN log}

\* An event is stored once and erased for good; it names an older one, and nobody names the
\* last, which is what an append that awaits its digest has read.
Chained ==
    /\ \A i, j \in DOMAIN log : log[i].id = log[j].id => i = j
    /\ Ids \cap erased = {}
    /\ \A i \in DOMAIN log : log[i].prev \in Ids \cup erased \cup {None}
    /\ \A i, j \in DOMAIN log : i <= j => log[i].prev # log[j].id
    /\ \A e \in DOMAIN pending :
          pending[e].at = "hash" => /\ pending[e].prev = LastHash
                                    /\ e \notin Ids \cup erased

\* What was not closed early lies in the past; alarm() closes what lies in the past and
\* erases what is past its retention period, a request what its caller says, but alone with
\* it; what is about to be erased is closed, and no event of its day is on its way.
Dated ==
    /\ \A d \in DOMAIN segs : Closed(d) => d < today \/ segs[d].early
    /\ \A d \in DOMAIN segs : segs[d].early => Closed(d)
    /\ gate # "request" => DOMAIN run["request"].todo = {} /\ run["request"].erase = {}
    /\ \A d \in DOMAIN run["alarm"].todo : d < today
    /\ \A d \in run["alarm"].erase : d + Retain < today
    /\ \A p \in Procs : \A d \in run[p].erase : d \in DOMAIN segs => Closed(d)
    /\ \A e \in DOMAIN pending :
          pending[e].at = "hash" => \A p \in Procs : pending[e].occ \notin run[p].erase

Inv == Types /\ Gated /\ Chained /\ LogConsistent /\ Dated

\* When events arrive on their day, a snapshot stays what it was taken of, and so does what
\* has been written of it to R2 and D1.
Written(p, d) ==
    /\ run[p].at \in {"record", "mark"} => d \in DOMAIN r2 /\ r2[d] = segs[d].sum
    /\ run[p].at = "mark" => d \in DOMAIN d1 /\ d1[d] = segs[d].sum

Snapped ==
    /\ \A p \in Procs : \A d \in DOMAIN run[p].todo \cap DOMAIN segs :
          /\ run[p].todo[d] = segs[d].sum
          /\ d = FirstDue(p) => Written(p, d)
    /\ \A e \in DOMAIN pending :
          pending[e].at = "hash" => \A p \in Procs : pending[e].occ \notin DOMAIN run[p].todo

PunctualInv == Snapped /\ CheckpointVerifiable

-----------------------------------------------------------------------------
(***************************************************************************)
(* Numbers: a set of naturals has a least element, and a greatest one when *)
(* it is bounded.                                                          *)
(***************************************************************************)

LEMMA Least ==
    ASSUME NEW S \in SUBSET Nat, S # {}
    PROVE  Min(S) \in S /\ \A x \in S : Min(S) <= x
<1> DEFINE R == OpToRel(<, Nat)
<1>1. IsWellFoundedOn(R, Nat)
  BY NatLessThanWellFounded
<1>2. \A x, y \in Nat : x < y => <<x, y>> \in R
  BY DEF OpToRel
<1> HIDE DEF R
<1>3. \E x \in S : \A y \in S : <<y, x>> \notin R
  BY <1>1, WFMin
<1>4. PICK x \in S : \A y \in S : <<y, x>> \notin R
  BY <1>3
<1>5. \A y \in S : x <= y
  <2>1. \A y \in S : ~(y < x)
    BY <1>2, <1>4
  <2>2. QED
    BY <2>1
<1>6. \E z \in S : \A y \in S : z <= y
  BY <1>4, <1>5
<1>7. QED
  BY <1>6 DEF Min

LEMMA Greatest ==
    ASSUME NEW n \in Nat, NEW S \in SUBSET (1..n), S # {}
    PROVE  Max(S) \in S /\ \A x \in S : x <= Max(S)
<1> DEFINE B == {m \in Nat : \A x \in S : x <= m}
<1>1. B # {}
  <2>1. n \in B
    OBVIOUS
  <2>2. QED
    BY <2>1
<1>2. Min(B) \in B /\ \A x \in B : Min(B) <= x
  BY <1>1, Least
<1> DEFINE m == Min(B)
<1>3. m \in Nat /\ (\A x \in S : x <= m) /\ \A x \in B : m <= x
  BY <1>2
<1> HIDE DEF m
<1>4. m \in S
  <2>1. SUFFICES ASSUME m \notin S PROVE FALSE
    OBVIOUS
  <2>2. \A x \in S : x <= m - 1
    BY <1>3, <2>1
  <2>3. m - 1 \in Nat
    <3>1. PICK x \in S : TRUE
      OBVIOUS
    <3>2. QED
      BY <2>2, <3>1, <1>3
  <2>4. m - 1 \in B
    BY <2>2, <2>3
  <2>5. QED
    BY <1>3, <2>4
<1>5. \E x \in S : \A y \in S : x >= y
  BY <1>3, <1>4
<1>6. QED
  BY <1>5 DEF Max

-----------------------------------------------------------------------------
(***************************************************************************)
(* The types, and who is where.                                            *)
(***************************************************************************)

Base == Types /\ Gated

LEMMA SnapshotFacts ==
    /\ \A f \in Snapshots : DOMAIN f \subseteq Days /\ f \in [DOMAIN f -> Summary]
    /\ \A S \in SUBSET Days : [S -> Summary] \subseteq Snapshots
BY DEF Snapshots

LEMMA FirstDueFacts ==
    ASSUME Types, NEW p \in Procs, DOMAIN run[p].todo # {}
    PROVE  /\ FirstDue(p) \in DOMAIN run[p].todo
           /\ FirstDue(p) \in Days
           /\ run[p].todo[FirstDue(p)] \in Summary
<1>1. run[p] \in Execution
  BY DEF Types
<1>2. run[p].todo \in Snapshots
  BY <1>1 DEF Execution
<1>3. DOMAIN run[p].todo \subseteq Days /\ run[p].todo \in [DOMAIN run[p].todo -> Summary]
  BY <1>2, SnapshotFacts
<1>4. DOMAIN run[p].todo \in SUBSET Nat
  BY <1>3 DEF Days
<1>5. FirstDue(p) \in DOMAIN run[p].todo
  BY <1>4, Least DEF FirstDue
<1>6. QED
  BY <1>3, <1>5

LEMMA PutType ==
    ASSUME NEW T, NEW f, f \in [DOMAIN f -> T], NEW k, NEW v \in T
    PROVE  Put(f, k, v) \in [DOMAIN f \cup {k} -> T]
BY DEF Put

\* What #closeSegments selects.
LEMMA ClosableFacts ==
    ASSUME Types, NEW through
    PROVE  /\ Closable(through) \in Snapshots
           /\ DOMAIN Closable(through)
                 = {d \in DOMAIN segs : segs[d].status = "active" /\ d <= through}
           /\ \A d \in DOMAIN Closable(through) : Closable(through)[d] = segs[d].sum
<1> DEFINE S == {d \in DOMAIN segs : segs[d].status = "active" /\ d <= through}
<1>1. Closable(through) = [d \in S |-> segs[d].sum]
  BY DEF Closable
<1>2. S \in SUBSET Days /\ \A d \in S : segs[d].sum \in Summary
  BY DEF Types, TypeOK, Segment
<1>3. Closable(through) \in [S -> Summary]
  BY <1>1, <1>2
<1>4. Closable(through) \in Snapshots
  BY <1>2, <1>3, SnapshotFacts
<1>5. QED
  BY <1>1, <1>4

LEMMA ErasableType ==
    ASSUME Types, NEW before
    PROVE  Erasable(before) \in SUBSET Days
BY DEF Erasable, Types, TypeOK

\* An execution goes on, and everything else it carries stays.
LEMMA RunFacts ==
    ASSUME Types, NEW p \in Procs
    PROVE  /\ run[p] \in Execution
           /\ run[p].at \in {"idle", "put", "record", "mark", "erase"}
           /\ run[p].todo \in Snapshots
           /\ run[p].erase \in SUBSET Days
BY DEF Types, Execution

LEMMA IdleType == Idle \in Execution /\ DOMAIN Idle.todo = {} /\ Idle.erase = {}
<1>1. [d \in {} |-> d] \in [{} -> Summary] /\ {} \in SUBSET Days
  OBVIOUS
<1>2. [d \in {} |-> d] \in Snapshots
  BY <1>1, SnapshotFacts
<1>3. QED
  BY <1>2 DEF Idle, Execution

LEMMA InitBase == Init => Base
<1> SUFFICES ASSUME Init PROVE Base
  OBVIOUS
<1>1. run \in [Procs -> Execution] /\ \A p \in Procs : run[p] = Idle
  BY IdleType DEF Init
<1>2. "request" \in Procs
  BY DEF Procs
<1>3. today \in Days
  BY AuditConstants DEF Init, Days
<1>4. Types
  BY <1>1, <1>2, <1>3 DEF Init, Types, TypeOK, Idle
<1>5. Gated
  BY <1>1 DEF Init, Gated, Idle
<1>6. QED
  BY <1>4, <1>5 DEF Base

-----------------------------------------------------------------------------
(***************************************************************************)
(* Where each action leaves the executions.                                *)
(***************************************************************************)

Moves(p, a, T, E) ==
    /\ run' \in [Procs -> Execution]
    /\ run'[p].at = a /\ run'[p].todo = T /\ run'[p].erase = E
    /\ \A q \in Procs \ {p} : run'[q] = run[q]

LEMMA MovesTo ==
    ASSUME Types, NEW p \in Procs, NEW x \in Execution, run' = [run EXCEPT ![p] = x]
    PROVE  Moves(p, x.at, x.todo, x.erase)
BY DEF Types, Moves

LEMMA MovesFields ==
    ASSUME Types, NEW p \in Procs,
           NEW a \in {"idle", "put", "record", "mark", "erase"}, NEW T \in Snapshots,
           NEW E \in SUBSET Days,
           run' = [run EXCEPT ![p] = [at |-> a, todo |-> T, erase |-> E]]
    PROVE  Moves(p, a, T, E)
<1> DEFINE x == [at |-> a, todo |-> T, erase |-> E]
<1>1. x \in Execution
  BY DEF Execution
<1>2. x.at = a /\ x.todo = T /\ x.erase = E
  OBVIOUS
<1> HIDE DEF x
<1>3. run' = [run EXCEPT ![p] = x]
  BY DEF x
<1>4. QED
  BY <1>1, <1>2, <1>3, MovesTo

\* An execution with some of its fields changed.
LEMMA FieldsMove ==
    ASSUME Types, NEW p \in Procs, NEW a \in {"idle", "put", "record", "mark", "erase"},
           NEW T \in Snapshots, NEW E \in SUBSET Days, NEW x,
           run' = [run EXCEPT ![p] = x],
           \/ x = [run[p] EXCEPT !.at = a] /\ T = run[p].todo /\ E = run[p].erase
           \/ x = [run[p] EXCEPT !.at = a, !.todo = T] /\ E = run[p].erase
           \/ x = [run[p] EXCEPT !.at = a, !.erase = E] /\ T = run[p].todo
           \/ x = [run[p] EXCEPT !.erase = E] /\ a = run[p].at /\ T = run[p].todo
    PROVE  Moves(p, a, T, E)
<1>1. run[p] \in Execution
  BY RunFacts
<1>2. x \in Execution /\ x.at = a /\ x.todo = T /\ x.erase = E
  <2>1. CASE x = [run[p] EXCEPT !.at = a] /\ T = run[p].todo /\ E = run[p].erase
    BY <1>1, <2>1 DEF Execution
  <2>2. CASE x = [run[p] EXCEPT !.at = a, !.todo = T] /\ E = run[p].erase
    BY <1>1, <2>2 DEF Execution
  <2>3. CASE x = [run[p] EXCEPT !.at = a, !.erase = E] /\ T = run[p].todo
    BY <1>1, <2>3 DEF Execution
  <2>4. CASE x = [run[p] EXCEPT !.erase = E] /\ a = run[p].at /\ T = run[p].todo
    BY <1>1, <2>4 DEF Execution
  <2>5. QED
    BY <2>1, <2>2, <2>3, <2>4
<1>3. QED
  BY <1>2, MovesTo

LEMMA GotoMoves ==
    ASSUME Types, NEW p \in Procs, NEW a \in {"idle", "put", "record", "mark", "erase"},
           Goto(p, a)
    PROVE  Moves(p, a, run[p].todo, run[p].erase)
<1> DEFINE x == [run[p] EXCEPT !.at = a]
<1>1. run' = [run EXCEPT ![p] = x]
  BY DEF Goto, Types
<1> HIDE DEF x
<1>2. x = [run[p] EXCEPT !.at = a]
  BY DEF x
<1>3. QED
  BY <1>1, <1>2, RunFacts, FieldsMove

LEMMA StartMoves ==
    ASSUME Types, StartAlarm
    PROVE  Moves("alarm", "put", Closable(Through), {})
BY ClosableFacts, MovesFields DEF StartAlarm, Procs

LEMMA RequestMoves ==
    ASSUME Types, NEW c
    PROVE  /\ RequestClose(c) => Moves("request", "put", Closable(c), {})
           /\ RequestRetention(c) =>
                 /\ Moves("request", "erase", run'["request"].todo, Erasable(c))
                 /\ DOMAIN run'["request"].todo = {}
<1>1. ASSUME RequestClose(c) PROVE Moves("request", "put", Closable(c), {})
  BY <1>1, ClosableFacts, MovesFields DEF RequestClose, Procs
<1>2. ASSUME RequestRetention(c)
      PROVE  /\ Moves("request", "erase", run'["request"].todo, Erasable(c))
             /\ DOMAIN run'["request"].todo = {}
  <2> DEFINE x == [Idle EXCEPT !.at = "erase", !.erase = Erasable(c)]
  <2>1. run' = [run EXCEPT !["request"] = x]
    BY <1>2 DEF RequestRetention
  <2>2. x = [Idle EXCEPT !.at = "erase", !.erase = Erasable(c)]
    OBVIOUS
  <2> HIDE DEF x
  <2>3. Idle.todo \in Snapshots /\ DOMAIN Idle.todo = {}
    BY IdleType DEF Execution
  <2>4. x \in Execution /\ x.at = "erase" /\ x.todo = Idle.todo /\ x.erase = Erasable(c)
    BY <2>2, <2>3, IdleType, ErasableType DEF Execution
  <2>5. Moves("request", "erase", Idle.todo, Erasable(c))
    BY <2>1, <2>4, MovesTo DEF Procs
  <2>6. run'["request"].todo = Idle.todo
    BY <2>5 DEF Moves
  <2>7. QED
    BY <2>3, <2>5, <2>6
<1>3. QED
  BY <1>1, <1>2

Rest(p) == [x \in DOMAIN run[p].todo \ {FirstDue(p)} |-> run[p].todo[x]]

LEMMA RestFacts ==
    ASSUME Types, NEW p \in Procs
    PROVE  /\ Rest(p) \in Snapshots
           /\ DOMAIN Rest(p) = DOMAIN run[p].todo \ {FirstDue(p)}
           /\ \A x \in DOMAIN Rest(p) : Rest(p)[x] = run[p].todo[x]
<1> DEFINE S == DOMAIN run[p].todo \ {FirstDue(p)}
<1>1. DOMAIN run[p].todo \subseteq Days /\ run[p].todo \in [DOMAIN run[p].todo -> Summary]
  BY RunFacts, SnapshotFacts
<1>2. Rest(p) \in [S -> Summary] /\ S \in SUBSET Days
  BY <1>1 DEF Rest
<1>3. Rest(p) \in Snapshots
  BY <1>2, SnapshotFacts
<1>4. QED
  BY <1>3 DEF Rest

LEMMA WriteMoves ==
    ASSUME Types, NEW p \in Procs
    PROVE  /\ PutCheckpoint(p) => Moves(p, "record", run[p].todo, run[p].erase)
           /\ RecordCheckpoint(p) => Moves(p, "mark", run[p].todo, run[p].erase)
           /\ MarkClosed(p) => Moves(p, "put", Rest(p), run[p].erase)
<1>1. PutCheckpoint(p) => Moves(p, "record", run[p].todo, run[p].erase)
  BY GotoMoves DEF PutCheckpoint
<1>2. RecordCheckpoint(p) => Moves(p, "mark", run[p].todo, run[p].erase)
  BY GotoMoves DEF RecordCheckpoint
<1>3. ASSUME MarkClosed(p) PROVE Moves(p, "put", Rest(p), run[p].erase)
  <2> DEFINE x == [run[p] EXCEPT !.at = "put", !.todo = Rest(p)]
  <2>1. run' = [run EXCEPT ![p] = x]
    <3>1. run' = [run EXCEPT ![p].at = "put", ![p].todo = Rest(p)]
      BY <1>3 DEF MarkClosed, Rest
    <3>2. run \in [Procs -> Execution]
      BY DEF Types
    <3>3. [run EXCEPT ![p].at = "put", ![p].todo = Rest(p)] = [run EXCEPT ![p] = x]
      BY <3>2
    <3>4. QED
      BY <3>1, <3>3
  <2>2. x = [run[p] EXCEPT !.at = "put", !.todo = Rest(p)]
    OBVIOUS
  <2> HIDE DEF x
  <2>3. QED
    BY <2>1, <2>2, RunFacts, RestFacts, FieldsMove
<1>4. QED
  BY <1>1, <1>2, <1>3

LEMMA CloseMoves ==
    ASSUME Types, NEW p \in Procs, CloseDone(p)
    PROVE  IF p = "alarm" THEN Moves(p, "erase", run[p].todo, Erasable(Cutoff))
                          ELSE Moves(p, "idle", Idle.todo, {})
<1>1. CASE p = "alarm"
  <2> DEFINE x == [run[p] EXCEPT !.at = "erase", !.erase = Erasable(Cutoff)]
  <2>1. run' = [run EXCEPT ![p] = x]
    <3>1. run' = [run EXCEPT ![p].at = "erase", ![p].erase = Erasable(Cutoff)]
      BY <1>1 DEF CloseDone
    <3>2. run \in [Procs -> Execution]
      BY DEF Types
    <3>3. [run EXCEPT ![p].at = "erase", ![p].erase = Erasable(Cutoff)] = [run EXCEPT ![p] = x]
      BY <3>2
    <3>4. QED
      BY <3>1, <3>3
  <2>2. x = [run[p] EXCEPT !.at = "erase", !.erase = Erasable(Cutoff)]
    OBVIOUS
  <2> HIDE DEF x
  <2>3. QED
    BY <1>1, <2>1, <2>2, RunFacts, ErasableType, FieldsMove
<1>2. CASE p # "alarm"
  <2>1. run' = [run EXCEPT ![p] = Idle]
    BY <1>2 DEF CloseDone
  <2>2. Idle.at = "idle" /\ Idle.erase = {}
    BY DEF Idle
  <2>3. QED
    BY <1>2, <2>1, <2>2, IdleType, MovesTo
<1>3. QED
  BY <1>1, <1>2

LEMMA EraseMoves ==
    ASSUME Types, NEW p \in Procs, NEW d,
           run' = [run EXCEPT ![p].erase = @ \ {d}]
    PROVE  Moves(p, run[p].at, run[p].todo, run[p].erase \ {d})
<1> DEFINE x == [run[p] EXCEPT !.erase = run[p].erase \ {d}]
<1>1. run' = [run EXCEPT ![p] = x]
  BY DEF Types
<1>2. x = [run[p] EXCEPT !.erase = run[p].erase \ {d}]
  OBVIOUS
<1> HIDE DEF x
<1>3. run[p].erase \ {d} \in SUBSET Days
  BY RunFacts
<1>4. QED
  BY <1>1, <1>2, <1>3, RunFacts, FieldsMove

LEMMA EndMoves ==
    ASSUME Types, NEW p \in Procs, run' = [run EXCEPT ![p] = Idle]
    PROVE  Moves(p, "idle", Idle.todo, {})
<1>1. Idle.at = "idle" /\ Idle.erase = {}
  BY DEF Idle
<1>2. QED
  BY <1>1, IdleType, MovesTo

-----------------------------------------------------------------------------
(***************************************************************************)
(* Types and gate, action by action.                                       *)
(***************************************************************************)

\* A step of an execution that leaves the tables and the appends alone.
LEMMA RunBase ==
    ASSUME Base, NEW p \in Procs, NEW a, NEW T, NEW E, Moves(p, a, T, E),
           UNCHANGED <<store, pending>>,
           today' \in Days, alarmAt' \in 1..(MaxDay + 1) \cup {None},
           gate' \in {"open", "append", "request"},
           \A d \in DOMAIN r2' : d \in Days /\ r2'[d] \in Summary,
           \A d \in DOMAIN d1' : d \in Days /\ d1'[d] \in Summary,
           gate = "append" => gate' = "append",
           run'["request"].at # "idle" => gate' = "request",
           a \in {"record", "mark"} => DOMAIN T # {}
    PROVE  Base'
<1>1. run' \in [Procs -> Execution]
  BY DEF Moves
<1>2. Types'
  BY <1>1 DEF Base, Types, TypeOK, store
<1>3. \A q \in Procs : run'[q].at \in {"record", "mark"} => DOMAIN run'[q].todo # {}
  BY DEF Moves, Base, Gated
<1>4. Gated'
  BY <1>3 DEF Base, Gated
<1>5. QED
  BY <1>2, <1>4 DEF Base

LEMMA AlarmDays ==
    ASSUME Types
    PROVE  /\ today + 1 \in 1..(MaxDay + 1) \cup {None}
           /\ Retried \in 1..(MaxDay + 1) \cup {None}
<1>1. today \in Days /\ alarmAt \in 1..(MaxDay + 1) \cup {None} /\ MaxDay \in Nat
  BY AuditConstants DEF Types, TypeOK
<1>2. today \in 1..(MaxDay + 1) /\ today + 1 \in 1..(MaxDay + 1)
  BY <1>1 DEF Days
<1>3. QED
  BY <1>1, <1>2 DEF Retried

LEMMA BaseCloser ==
    ASSUME Base, NEW p \in Procs,
           PutCheckpoint(p) \/ RecordCheckpoint(p) \/ CloseDone(p) \/ EraseDone(p)
    PROVE  Base'
<1> USE DEF Base
<1>1. /\ today \in Days /\ alarmAt \in 1..(MaxDay + 1) \cup {None}
      /\ gate \in {"open", "append", "request"}
      /\ \A d \in DOMAIN r2 : d \in Days /\ r2[d] \in Summary
      /\ \A d \in DOMAIN d1 : d \in Days /\ d1[d] \in Summary
      /\ run["request"].at # "idle" => gate = "request"
  BY DEF Types, TypeOK
<1>2. CASE PutCheckpoint(p)
  <2>1. DOMAIN run[p].todo # {}
    BY <1>2 DEF PutCheckpoint
  <2>2. Moves(p, "record", run[p].todo, run[p].erase)
    BY <1>2, WriteMoves
  <2>3. /\ r2' = Put(r2, FirstDue(p), run[p].todo[FirstDue(p)])
        /\ FirstDue(p) \in Days /\ run[p].todo[FirstDue(p)] \in Summary
    BY <1>2, <2>1, FirstDueFacts DEF PutCheckpoint
  <2>4. \A d \in DOMAIN r2' : d \in Days /\ r2'[d] \in Summary
    BY <1>1, <2>3 DEF Put
  <2>5. run'["request"].at # "idle" => gate' = "request"
    BY <1>1, <1>2, <2>2 DEF Moves, PutCheckpoint, MayRun, Procs
  <2>6. /\ UNCHANGED <<store, d1, pending, today, alarmAt, gate>>
    BY <1>2 DEF PutCheckpoint
  <2>7. QED
    BY <1>1, <2>1, <2>2, <2>4, <2>5, <2>6, RunBase
<1>3. CASE RecordCheckpoint(p)
  <2>1. DOMAIN run[p].todo # {}
    BY <1>3 DEF RecordCheckpoint, Gated
  <2>2. Moves(p, "mark", run[p].todo, run[p].erase)
    BY <1>3, WriteMoves
  <2>3. /\ d1' = Put(d1, FirstDue(p), run[p].todo[FirstDue(p)])
        /\ FirstDue(p) \in Days /\ run[p].todo[FirstDue(p)] \in Summary
    BY <1>3, <2>1, FirstDueFacts DEF RecordCheckpoint
  <2>4. \A d \in DOMAIN d1' : d \in Days /\ d1'[d] \in Summary
    BY <1>1, <2>3 DEF Put
  <2>5. run'["request"].at # "idle" => gate' = "request"
    BY <1>1, <1>3, <2>2 DEF Moves, RecordCheckpoint, MayRun, Procs
  <2>6. /\ UNCHANGED <<store, r2, pending, today, alarmAt, gate>>
    BY <1>3 DEF RecordCheckpoint
  <2>7. QED
    BY <1>1, <2>1, <2>2, <2>4, <2>5, <2>6, RunBase
<1>4. CASE CloseDone(p)
  <2>1. PICK a, T, E : /\ a \in {"idle", "erase"}
                         /\ Moves(p, a, T, E) /\ (p # "alarm" => a = "idle")
    BY <1>4, CloseMoves
  <2>2. UNCHANGED <<store, remote, today, alarmAt, pending>>
    BY <1>4 DEF CloseDone
  <2>3. run'["request"].at # "idle" => gate' = "request"
    BY <1>1, <1>4, <2>1 DEF Moves, CloseDone, Procs
  <2>4. gate # "append" /\ gate' \in {"open", "append", "request"}
    BY <1>1, <1>4 DEF CloseDone, MayRun
  <2>5. r2' = r2 /\ d1' = d1 /\ today' = today /\ alarmAt' = alarmAt
    BY <2>2 DEF remote
  <2>6. UNCHANGED <<store, pending>>
    BY <2>2
  <2> HIDE DEF Base
  <2>7. QED
    BY <1>1, <2>1, <2>3, <2>4, <2>5, <2>6, RunBase
<1>5. CASE EraseDone(p)
  <2>1. Moves(p, "idle", Idle.todo, {})
    BY <1>5, EndMoves DEF EraseDone
  <2>2. UNCHANGED <<store, remote, today, pending>>
    BY <1>5 DEF EraseDone
  <2>3. run'["request"].at # "idle" => gate' = "request"
    BY <1>1, <1>5, <2>1 DEF Moves, EraseDone, MayRun, Procs
  <2>4. gate # "append" /\ gate' \in {"open", "append", "request"}
    BY <1>1, <1>5 DEF EraseDone, MayRun
  <2>5. r2' = r2 /\ d1' = d1 /\ today' = today
    BY <2>2 DEF remote
  <2>6. UNCHANGED <<store, pending>>
    BY <2>2
  <2>7. alarmAt' \in 1..(MaxDay + 1) \cup {None}
    BY <1>1, <1>5, AlarmDays DEF EraseDone
  <2> HIDE DEF Base
  <2>8. QED
    BY <1>1, <2>1, <2>3, <2>4, <2>5, <2>6, <2>7, RunBase
<1>6. QED
  BY <1>2, <1>3, <1>4, <1>5

LEMMA BaseBegin ==
    ASSUME Base, StartAlarm \/ Requested
    PROVE  Base'
<1> USE DEF Base
<1>1. /\ today \in Days /\ alarmAt \in 1..(MaxDay + 1) \cup {None}
      /\ gate \in {"open", "append", "request"}
      /\ \A d \in DOMAIN r2 : d \in Days /\ r2[d] \in Summary
      /\ \A d \in DOMAIN d1 : d \in Days /\ d1[d] \in Summary
      /\ run["request"].at # "idle" => gate = "request"
  BY DEF Types, TypeOK
<1>2. CASE StartAlarm
  <2>1. Moves("alarm", "put", Closable(Through), {})
    BY <1>2, StartMoves
  <2>2. UNCHANGED <<store, pending>> /\ r2' = r2 /\ d1' = d1 /\ today' = today
        /\ alarmAt' = None /\ gate' = gate
    BY <1>2 DEF StartAlarm, remote
  <2>3. run'["request"] = run["request"]
    BY <2>1 DEF Moves, Procs
  <2> HIDE DEF Base
  <2>4. QED
    BY <1>1, <2>1, <2>2, <2>3, RunBase DEF Procs
<1>3. CASE \E through \in Days : RequestClose(through)
  <2>1. PICK through \in Days : RequestClose(through)
    BY <1>3
  <2>2. Moves("request", "put", Closable(through), {})
    BY <2>1, RequestMoves
  <2>3. UNCHANGED <<store, pending>> /\ r2' = r2 /\ d1' = d1 /\ today' = today
        /\ alarmAt' = alarmAt /\ gate = "open" /\ gate' = "request"
    BY <2>1 DEF RequestClose, remote
  <2> HIDE DEF Base
  <2>4. QED
    BY <1>1, <2>2, <2>3, RunBase DEF Procs
<1>4. CASE \E before \in CallerDates : RequestRetention(before)
  <2>1. PICK before \in CallerDates : RequestRetention(before)
    BY <1>4
  <2>2. Moves("request", "erase", run'["request"].todo, Erasable(before))
    BY <2>1, RequestMoves
  <2>3. UNCHANGED <<store, pending>> /\ r2' = r2 /\ d1' = d1 /\ today' = today
        /\ alarmAt' = alarmAt /\ gate = "open" /\ gate' = "request"
    BY <2>1 DEF RequestRetention, remote
  <2> HIDE DEF Base
  <2>4. QED
    BY <1>1, <2>2, <2>3, RunBase DEF Procs
<1>5. QED
  BY <1>2, <1>3, <1>4 DEF Requested

LEMMA BaseFailure ==
    ASSUME Base, AlarmFails \/ Reset \/ Tick
    PROVE  Base'
<1> USE DEF Base
<1>1. /\ today \in Days /\ alarmAt \in 1..(MaxDay + 1) \cup {None}
      /\ gate \in {"open", "append", "request"}
      /\ \A d \in DOMAIN r2 : d \in Days /\ r2[d] \in Summary
      /\ \A d \in DOMAIN d1 : d \in Days /\ d1[d] \in Summary
      /\ run["request"].at # "idle" => gate = "request"
  BY DEF Types, TypeOK
<1>2. CASE AlarmFails
  <2>1. Moves("alarm", "idle", Idle.todo, {})
    BY <1>2, EndMoves DEF AlarmFails, Procs
  <2>2. UNCHANGED <<store, pending>> /\ r2' = r2 /\ d1' = d1 /\ today' = today
        /\ alarmAt' = Retried /\ gate' = gate
    BY <1>2 DEF AlarmFails, remote
  <2>3. run'["request"] = run["request"]
    BY <2>1 DEF Moves, Procs
  <2> HIDE DEF Base
  <2>4. Base => Types
    BY DEF Base
  <2>5. QED
    BY <1>1, <2>1, <2>2, <2>3, <2>4, AlarmDays, RunBase DEF Procs
<1>3. CASE Reset
  <2>1. run' = [p \in Procs |-> Idle] /\ Idle.at = "idle" /\ "request" \in Procs
    BY <1>3 DEF Reset, Idle, Procs
  <2>2. run' \in [Procs -> Execution]
    BY <2>1, IdleType
  <2>3. UNCHANGED store /\ r2' = r2 /\ d1' = d1 /\ today' = today /\ alarmAt' = Retried
        /\ gate' = "open" /\ pending' = [e \in {} |-> e]
    BY <1>3 DEF Reset, remote
  <2>4. Types'
    BY <1>1, <2>1, <2>2, <2>3, AlarmDays DEF Types, TypeOK, store
  <2>5. Gated'
    BY <2>1, <2>3 DEF Gated
  <2>6. QED
    BY <2>4, <2>5
<1>4. CASE Tick
  <2>1. UNCHANGED <<store, remote, alarmAt, gate, pending, run>> /\ today' \in Days
    BY <1>1, <1>4, AuditConstants DEF Tick, Days
  <2>2. Types'
    BY <2>1 DEF Types, TypeOK, store, remote
  <2>3. Gated'
    BY <2>1 DEF Gated
  <2>4. QED
    BY <2>2, <2>3
<1>5. QED
  BY <1>2, <1>3, <1>4

\* An append: where it is, and what it does to the tables.
LEMMA BeginFacts ==
    ASSUME Base, NEW e \in Events, NEW occ \in Occurred, BeginAppend(e, occ)
    PROVE  /\ DOMAIN pending = {} /\ DOMAIN pending' = {e}
           /\ pending'[e] = [occ |-> occ, prev |-> LastHash, at |-> "hash"]
           /\ gate = "open" /\ gate' = "append"
           /\ UNCHANGED <<store, remote, today, alarmAt, run, bounds>>
<1>1. DOMAIN pending = {}
  BY DEF BeginAppend, Base, Gated
<1>2. pending' = Put(pending, e, [occ |-> occ, prev |-> LastHash, at |-> "hash"])
  BY DEF BeginAppend
<1>3. QED
  BY <1>1, <1>2 DEF BeginAppend, Put

LEMMA InsertFacts ==
    ASSUME Base, NEW e \in DOMAIN pending, InsertEvent(e)
    PROVE  /\ DOMAIN pending' = {e} /\ DOMAIN pending = {e} /\ e \in Events
           /\ pending[e] \in Append /\ pending[e].at = "hash"
           /\ pending' \in [{e} -> Append] /\ pending'[e].at = "alarm"
           /\ gate = "append" /\ sequence \in Nat
           /\ DOMAIN log' = DOMAIN log \cup {sequence + 1} /\ sequence + 1 \notin DOMAIN log
           /\ \A i \in DOMAIN log : log'[i] = log[i] /\ i < sequence + 1
           /\ log'[sequence + 1] = [id |-> e, seg |-> SegmentFor(pending[e].occ),
                                    prev |-> pending[e].prev]
           /\ segs' = Counted(SegmentFor(pending[e].occ), e)
           /\ sequence' = sequence + 1
           /\ SegmentFor(pending[e].occ) \in Days
           /\ UNCHANGED <<erased, remote, today, alarmAt, gate, run, bounds>>
<1>1. DOMAIN pending = {e} /\ gate = "append"
  BY DEF Base, Gated
<1>2. e \in Events /\ pending \in [{e} -> Append] /\ sequence \in Nat
      /\ DOMAIN log \subseteq 1..sequence /\ today \in Days
  BY <1>1 DEF Base, Types, TypeOK
<1>3. pending' = [pending EXCEPT ![e].at = "alarm"] /\ pending[e].at = "hash"
  BY DEF InsertEvent
<1>4. pending' \in [{e} -> Append] /\ pending'[e].at = "alarm"
  BY <1>2, <1>3 DEF Append
<1>5. pending[e] \in Append /\ pending[e].occ \in Days
  BY <1>2 DEF Append
<1>6. SegmentFor(pending[e].occ) \in Days
  BY <1>2, <1>5 DEF SegmentFor
<1>7. log' = Put(log, sequence + 1, [id |-> e, seg |-> SegmentFor(pending[e].occ),
                                     prev |-> pending[e].prev])
      /\ sequence' = sequence + 1
  BY DEF InsertEvent
<1>8. sequence + 1 \notin DOMAIN log /\ \A i \in DOMAIN log : i < sequence + 1
  BY <1>2
<1>9. /\ DOMAIN log' = DOMAIN log \cup {sequence + 1}
      /\ \A i \in DOMAIN log : log'[i] = log[i]
      /\ log'[sequence + 1] = [id |-> e, seg |-> SegmentFor(pending[e].occ),
                               prev |-> pending[e].prev]
  BY <1>7, <1>8 DEF Put
<1>10. segs' = Counted(SegmentFor(pending[e].occ), e)
       /\ UNCHANGED <<erased, remote, today, alarmAt, gate, run, bounds>>
  BY DEF InsertEvent
<1>11. DOMAIN pending' = {e}
  BY <1>4
<1>12. QED
  BY <1>1, <1>2, <1>3, <1>4, <1>5, <1>6, <1>7, <1>8, <1>9, <1>10, <1>11

\* The row of the segment an event goes to.
LEMMA CountedFacts ==
    ASSUME Types, NEW d \in Days, NEW e \in Events
    PROVE  /\ DOMAIN Counted(d, e) = DOMAIN segs \cup {d}
           /\ Counted(d, e) \in [DOMAIN segs \cup {d} -> Segment]
           /\ \A x \in DOMAIN segs : x # d => Counted(d, e)[x] = segs[x]
           /\ d \notin DOMAIN segs => Counted(d, e)[d] = Fresh(e)
           /\ d \in DOMAIN segs /\ ~Closed(d) =>
                 /\ Counted(d, e)[d].status = segs[d].status
                 /\ Counted(d, e)[d].early = segs[d].early
                 /\ Counted(d, e)[d].sum.first = segs[d].sum.first
                 /\ Counted(d, e)[d].sum.last = e
                 /\ Counted(d, e)[d].sum.count = segs[d].sum.count + 1
           /\ Closed(d) => Counted(d, e) = segs
<1>1. segs \in [DOMAIN segs -> Segment]
  BY DEF Types
<1>2. CASE d \notin DOMAIN segs
  <2>1. Counted(d, e) = Put(segs, d, Fresh(e))
    BY <1>2 DEF Counted
  <2>2. Fresh(e) \in Segment
    BY DEF Fresh, Segment, Summary
  <2>3. Put(segs, d, Fresh(e)) \in [DOMAIN segs \cup {d} -> Segment]
    BY <1>1, <2>2, PutType
  <2>4. ~Closed(d)
    BY <1>2 DEF Closed
  <2>5. QED
    BY <1>2, <2>1, <2>3, <2>4 DEF Put
<1>3. CASE d \in DOMAIN segs /\ ~Closed(d)
  <2>1. Counted(d, e) = Put(segs, d, Extended(segs[d], e))
    BY <1>3 DEF Counted
  <2>2. segs[d] \in Segment
    BY <1>1, <1>3
  <2>3. segs[d].sum \in Summary
    BY <2>2 DEF Segment
  <2>4. [first |-> segs[d].sum.first, last |-> e, count |-> segs[d].sum.count + 1] \in Summary
    BY <2>3 DEF Summary
  <2>5. /\ Extended(segs[d], e) \in Segment
        /\ Extended(segs[d], e).status = segs[d].status
        /\ Extended(segs[d], e).early = segs[d].early
        /\ Extended(segs[d], e).sum
             = [first |-> segs[d].sum.first, last |-> e, count |-> segs[d].sum.count + 1]
    BY <2>2, <2>4 DEF Extended, Segment
  <2>6. Put(segs, d, Extended(segs[d], e)) \in [DOMAIN segs \cup {d} -> Segment]
    BY <1>1, <2>5, PutType
  <2>7. /\ Extended(segs[d], e).sum.first = segs[d].sum.first
        /\ Extended(segs[d], e).sum.last = e
        /\ Extended(segs[d], e).sum.count = segs[d].sum.count + 1
    BY <2>5
  <2>8. /\ DOMAIN Put(segs, d, Extended(segs[d], e)) = DOMAIN segs \cup {d}
        /\ Put(segs, d, Extended(segs[d], e))[d] = Extended(segs[d], e)
        /\ \A x \in DOMAIN segs : x # d => Put(segs, d, Extended(segs[d], e))[x] = segs[x]
    BY DEF Put
  <2>9. QED
    BY <1>3, <2>1, <2>5, <2>6, <2>7, <2>8
<1>4. CASE Closed(d)
  <2>1. Counted(d, e) = segs /\ d \in DOMAIN segs
    BY <1>4 DEF Counted, Closed
  <2>2. QED
    BY <1>1, <1>4, <2>1
<1>5. QED
  BY <1>2, <1>3, <1>4

LEMMA BaseAppend ==
    ASSUME Base
    PROVE  /\ \A e \in Events, occ \in Occurred : BeginAppend(e, occ) => Base'
           /\ \A e \in DOMAIN pending : InsertEvent(e) \/ ArmAlarm(e) => Base'
<1>1. ASSUME NEW e \in Events, NEW occ \in Occurred, BeginAppend(e, occ)
      PROVE  Base'
  <2>1. /\ DOMAIN pending = {} /\ DOMAIN pending' = {e}
        /\ pending'[e] = [occ |-> occ, prev |-> LastHash, at |-> "hash"]
        /\ gate = "open" /\ gate' = "append"
        /\ UNCHANGED <<store, remote, today, alarmAt, run, bounds>>
    BY <1>1, BeginFacts
  <2>2. LastHash \in Events \cup {None}
    <3>1. CASE DOMAIN log = {}
      BY <3>1 DEF LastHash
    <3>2. CASE DOMAIN log # {}
      <4>1. Max(DOMAIN log) \in DOMAIN log
        BY <3>2, Greatest DEF Base, Types, TypeOK
      <4>2. log[Max(DOMAIN log)].id \in Events
        BY <4>1 DEF Base, Types, TypeOK, Event
      <4>3. QED
        BY <3>2, <4>2 DEF LastHash
    <3>3. QED
      BY <3>1, <3>2
  <2>3. pending'[e] \in Append
    BY <2>1, <2>2 DEF Occurred, Append
  <2>4. pending' = Put(pending, e, [occ |-> occ, prev |-> LastHash, at |-> "hash"])
    BY <1>1 DEF BeginAppend
  <2>5. pending' \in [{e} -> Append]
    BY <2>1, <2>3, <2>4 DEF Put
  <2>6. Types'
    BY <2>1, <2>5 DEF Base, Types, TypeOK, store, remote
  <2>7. Gated'
    BY <2>1 DEF Base, Gated
  <2>8. QED
    BY <2>6, <2>7 DEF Base
<1>2. ASSUME NEW e \in DOMAIN pending, InsertEvent(e)
      PROVE  Base'
  <2> DEFINE d == SegmentFor(pending[e].occ)
  <2>1. /\ DOMAIN pending' = {e} /\ pending' \in [{e} -> Append] /\ e \in Events
        /\ DOMAIN log' = DOMAIN log \cup {sequence + 1}
        /\ \A i \in DOMAIN log : log'[i] = log[i]
        /\ log'[sequence + 1] = [id |-> e, seg |-> d, prev |-> pending[e].prev]
        /\ segs' = Counted(d, e) /\ sequence' = sequence + 1 /\ d \in Days
        /\ UNCHANGED <<erased, remote, today, alarmAt, gate, run>>
        /\ pending[e] \in Append /\ gate = "append"
    BY <1>2, InsertFacts
  <2> HIDE DEF d
  <2>2. DOMAIN segs' = DOMAIN segs \cup {d} /\ segs' \in [DOMAIN segs \cup {d} -> Segment]
    BY <2>1, CountedFacts DEF Base
  <2>3. sequence \in Nat /\ DOMAIN log \subseteq 1..sequence
        /\ \A i \in DOMAIN log : log[i] \in Event /\ log[i].seg \in DOMAIN segs
    BY DEF Base, Types, TypeOK
  <2>4. sequence' \in Nat /\ DOMAIN log' \subseteq 1..sequence'
    BY <2>1, <2>3
  <2>5. log'[sequence + 1] \in Event /\ log'[sequence + 1].seg \in DOMAIN segs'
    BY <2>1, <2>2 DEF Event, Append
  <2>6. \A i \in DOMAIN log' : log'[i] \in Event /\ log'[i].seg \in DOMAIN segs'
    BY <2>1, <2>2, <2>3, <2>5
  <2>7. \A x \in DOMAIN segs' : x \in Days /\ segs'[x] \in Segment
    BY <2>1, <2>2 DEF Base, Types, TypeOK
  <2>8. TypeOK'
    BY <2>1, <2>4, <2>6, <2>7 DEF Base, Types, TypeOK, remote
  <2>9. Types'
    BY <2>1, <2>2, <2>8 DEF Base, Types
  <2>10. Gated'
    BY <2>1 DEF Base, Gated
  <2>11. QED
    BY <2>9, <2>10 DEF Base
<1>3. ASSUME NEW e \in DOMAIN pending, ArmAlarm(e)
      PROVE  Base'
  <2>1. DOMAIN pending = {e} /\ gate = "append"
    BY DEF Base, Gated
  <2>2. DOMAIN pending' = {} /\ pending' \in [{} -> Append] /\ gate' = "open"
        /\ UNCHANGED <<store, remote, today, run>>
    BY <1>3, <2>1 DEF ArmAlarm
  <2>3. alarmAt' \in 1..(MaxDay + 1) \cup {None}
    BY <1>3, AlarmDays DEF ArmAlarm, Base, Types, TypeOK
  <2>4. Types'
    BY <2>1, <2>2, <2>3 DEF Base, Types, TypeOK, store, remote
  <2>5. Gated'
    BY <2>2 DEF Base, Gated
  <2>6. QED
    BY <2>4, <2>5 DEF Base
<1>4. QED
  BY <1>1, <1>2, <1>3

LEMMA MarkFacts ==
    ASSUME Base, NEW p \in Procs, MarkClosed(p)
    PROVE  /\ DOMAIN segs' = DOMAIN segs /\ segs' \in [DOMAIN segs -> Segment]
           /\ \A x \in DOMAIN segs :
                 /\ segs'[x].sum = segs[x].sum
                 /\ segs'[x].status = IF x = FirstDue(p) THEN "closed" ELSE segs[x].status
                 /\ segs'[x].early = IF x = FirstDue(p) /\ ~Closed(x)
                                     THEN x >= today ELSE segs[x].early
           /\ FirstDue(p) \in DOMAIN run[p].todo
           /\ DOMAIN pending # {} => gate = "append"
           /\ gate # "append"
           /\ UNCHANGED <<log, sequence, erased, remote, today, alarmAt, gate, pending, bounds>>
<1>1. segs \in [DOMAIN segs -> Segment]
  BY DEF Base, Types
<1>2. DOMAIN run[p].todo # {}
  BY DEF MarkClosed, Base, Gated
<1>3. FirstDue(p) \in DOMAIN run[p].todo
  BY <1>2, FirstDueFacts DEF Base
<1>4. CASE FirstDue(p) \in DOMAIN segs /\ ~Closed(FirstDue(p))
  <2> DEFINE y == [segs[FirstDue(p)] EXCEPT !.status = "closed", !.early = FirstDue(p) >= today]
  <2>1. segs' = [segs EXCEPT ![FirstDue(p)].status = "closed",
                             ![FirstDue(p)].early = FirstDue(p) >= today]
    BY <1>4 DEF MarkClosed
  <2>2. segs' = [segs EXCEPT ![FirstDue(p)] = y]
    BY <1>1, <1>4, <2>1
  <2>3. segs[FirstDue(p)] \in Segment /\ (FirstDue(p) >= today) \in BOOLEAN
    BY <1>1, <1>4
  <2>4. /\ y \in Segment /\ y.sum = segs[FirstDue(p)].sum /\ y.status = "closed"
        /\ y.early = (FirstDue(p) >= today)
    BY <2>3 DEF Segment
  <2> HIDE DEF y
  <2>6. DOMAIN segs' = DOMAIN segs /\ segs' \in [DOMAIN segs -> Segment]
    BY <1>1, <2>2, <2>4
  <2>7. \A x \in DOMAIN segs : segs'[x] = IF x = FirstDue(p) THEN y ELSE segs[x]
    BY <1>1, <2>2
  <2>8. QED
    BY <1>3, <1>4, <2>4, <2>6, <2>7 DEF MarkClosed, MayRun, Base, Gated
<1>5. CASE ~(FirstDue(p) \in DOMAIN segs /\ ~Closed(FirstDue(p)))
  <2>1. segs' = segs
    BY <1>5 DEF MarkClosed
  <2>2. \A x \in DOMAIN segs : x = FirstDue(p) => segs[x].status = "closed" /\ Closed(x)
    BY <1>5 DEF Closed
  <2>3. QED
    BY <1>1, <1>3, <2>1, <2>2 DEF MarkClosed, MayRun, Base, Gated
<1>6. QED
  BY <1>4, <1>5

Kept(d) == DOMAIN log \ Rows(d)

\* An erasure either leaves the tables alone or takes the whole segment.
LEMMA EraseFacts ==
    ASSUME Base, NEW p \in Procs, EraseSegment(p)
    PROVE  \E d \in run[p].erase :
              /\ Moves(p, run[p].at, run[p].todo, run[p].erase \ {d})
              /\ DOMAIN pending = {} /\ run[p].at = "erase"
              /\ UNCHANGED <<sequence, remote, today, alarmAt, gate, pending, bounds>>
              /\ \/ UNCHANGED store
                 \/ /\ d \in DOMAIN d1 /\ d \in DOMAIN r2
                    /\ erased' = erased \cup EventsOf(d)
                    /\ DOMAIN log' = Kept(d) /\ \A i \in Kept(d) : log'[i] = log[i]
                    /\ DOMAIN segs' = {y \in DOMAIN segs : ~(y = d /\ Closed(d))}
                    /\ \A x \in DOMAIN segs' : segs'[x] = segs[x]
                    /\ segs' \in [DOMAIN segs' -> Segment]
<1>1. PICK d \in run[p].erase :
              /\ run' = [run EXCEPT ![p].erase = @ \ {d}]
              /\ IF d \in DOMAIN d1 /\ d \in DOMAIN r2
                 THEN /\ erased' = erased \cup EventsOf(d)
                      /\ log' = Restrict(log, DOMAIN log \ Rows(d))
                      /\ segs' = Restrict(segs, {y \in DOMAIN segs : ~(y = d /\ Closed(d))})
                      /\ UNCHANGED sequence
                 ELSE UNCHANGED store
  BY DEF EraseSegment
<1>2. Moves(p, run[p].at, run[p].todo, run[p].erase \ {d})
  BY <1>1, EraseMoves DEF Base
<1>3. DOMAIN pending = {} /\ run[p].at = "erase"
      /\ UNCHANGED <<remote, today, alarmAt, gate, pending, bounds>>
  BY DEF EraseSegment, MayRun, Base, Gated
<1>4. segs \in [DOMAIN segs -> Segment]
  BY DEF Base, Types
<1>5. CASE d \in DOMAIN d1 /\ d \in DOMAIN r2
  <2>1. log' = [i \in Kept(d) |-> log[i]]
    BY <1>1, <1>5 DEF Restrict, Kept
  <2>2. segs' = [x \in {y \in DOMAIN segs : ~(y = d /\ Closed(d))} |-> segs[x]]
    BY <1>1, <1>5 DEF Restrict
  <2>3. /\ DOMAIN segs' = {y \in DOMAIN segs : ~(y = d /\ Closed(d))}
        /\ \A x \in DOMAIN segs' : segs'[x] = segs[x]
        /\ segs' \in [DOMAIN segs' -> Segment]
    BY <1>4, <2>2
  <2>4. QED
    BY <1>1, <1>2, <1>3, <1>5, <2>1, <2>3
<1>6. CASE ~(d \in DOMAIN d1 /\ d \in DOMAIN r2)
  BY <1>1, <1>2, <1>3, <1>6 DEF store
<1>7. QED
  BY <1>5, <1>6

LEMMA BaseMark ==
    ASSUME Base, NEW p \in Procs, MarkClosed(p)
    PROVE  Base'
<1>1. Moves(p, "put", Rest(p), run[p].erase)
  BY WriteMoves DEF Base
<1>2. /\ DOMAIN segs' = DOMAIN segs /\ segs' \in [DOMAIN segs -> Segment]
      /\ UNCHANGED <<log, sequence, erased, remote, today, alarmAt, gate, pending, bounds>>
  BY MarkFacts
<1>3. run'["request"].at # "idle" => run["request"].at # "idle"
  BY <1>1 DEF Moves, MarkClosed, Procs
<1>4. Types'
  BY <1>1, <1>2, <1>3 DEF Base, Types, TypeOK, remote, Moves
<1>5. Gated'
  BY <1>1, <1>2 DEF Base, Gated, Moves
<1>6. QED
  BY <1>4, <1>5 DEF Base

LEMMA BaseErase ==
    ASSUME Base, NEW p \in Procs, EraseSegment(p),
           \A d \in run[p].erase : d \in DOMAIN segs => Closed(d)
    PROVE  Base'
<1>1. PICK d \in run[p].erase :
              /\ Moves(p, run[p].at, run[p].todo, run[p].erase \ {d})
              /\ DOMAIN pending = {} /\ run[p].at = "erase"
              /\ UNCHANGED <<sequence, remote, today, alarmAt, gate, pending, bounds>>
              /\ \/ UNCHANGED store
                 \/ /\ d \in DOMAIN d1 /\ d \in DOMAIN r2
                    /\ erased' = erased \cup EventsOf(d)
                    /\ DOMAIN log' = Kept(d) /\ \A i \in Kept(d) : log'[i] = log[i]
                    /\ DOMAIN segs' = {y \in DOMAIN segs : ~(y = d /\ Closed(d))}
                    /\ \A x \in DOMAIN segs' : segs'[x] = segs[x]
                    /\ segs' \in [DOMAIN segs' -> Segment]
  BY EraseFacts
<1>2. run'["request"].at = run["request"].at /\ run' \in [Procs -> Execution]
  BY <1>1 DEF Moves, Procs
<1>3. Gated'
  BY <1>1 DEF Base, Gated, Moves
<1>4. Types'
  <2>1. CASE UNCHANGED store
    BY <1>1, <1>2, <2>1 DEF Base, Types, TypeOK, store, remote
  <2>2. CASE ~UNCHANGED store
    <3>1. \A i \in DOMAIN log' : i \in DOMAIN log /\ log'[i] = log[i] /\ log[i].seg # d
      BY <1>1, <2>2 DEF Kept, Rows
    <3>2. \A i \in DOMAIN log' : log'[i] \in Event /\ log'[i].seg \in DOMAIN segs'
      BY <1>1, <2>2, <3>1 DEF Base, Types, TypeOK
    <3>3. DOMAIN log' \subseteq 1..sequence'
      BY <1>1, <3>1 DEF Base, Types, TypeOK
    <3>4. \A x \in DOMAIN segs' : x \in Days /\ segs'[x] \in Segment
      BY <1>1, <2>2 DEF Base, Types, TypeOK
    <3>5. EventsOf(d) \subseteq Events
      BY DEF EventsOf, Rows, Base, Types, TypeOK, Event
    <3>6. TypeOK'
      BY <1>1, <1>2, <3>2, <3>3, <3>4 DEF Base, Types, TypeOK, remote
    <3>7. QED
      BY <1>1, <1>2, <2>2, <3>5, <3>6 DEF Base, Types
  <2>3. QED
    BY <2>1, <2>2
<1>5. QED
  BY <1>3, <1>4 DEF Base

LEMMA BaseStep ==
    ASSUME Base, Next,
           \A p \in Procs : \A d \in run[p].erase : d \in DOMAIN segs => Closed(d)
    PROVE  Base'
<1>1. CASE \E e \in Events, occ \in Occurred : BeginAppend(e, occ)
  BY <1>1, BaseAppend
<1>2. CASE AppendStep
  BY <1>2, BaseAppend DEF AppendStep
<1>3. CASE StartAlarm \/ Requested
  BY <1>3, BaseBegin
<1>4. ASSUME NEW p \in Procs, CloserStep(p) PROVE Base'
  <2>1. CASE PutCheckpoint(p) \/ RecordCheckpoint(p) \/ CloseDone(p) \/ EraseDone(p)
    BY <2>1, BaseCloser
  <2>2. CASE MarkClosed(p)
    BY <2>2, BaseMark
  <2>3. CASE EraseSegment(p)
    BY <2>3, BaseErase
  <2>4. QED
    BY <1>4, <2>1, <2>2, <2>3 DEF CloserStep
<1>5. CASE AlarmFails \/ Reset \/ Tick
  BY <1>5, BaseFailure
<1>6. QED
  BY <1>1, <1>2, <1>3, <1>4, <1>5 DEF Next

-----------------------------------------------------------------------------
(***************************************************************************)
(* The chain.                                                              *)
(***************************************************************************)

Chain == Chained /\ ChainUnforked

\* A step that leaves the events alone and begins no append.
LEMMA ChainFrame ==
    ASSUME Chain, UNCHANGED <<log, erased>>,
           \A e \in DOMAIN pending' :
              pending'[e].at = "hash" => e \in DOMAIN pending /\ pending'[e] = pending[e]
    PROVE  Chain'
<1>1. Ids' = Ids /\ LastHash' = LastHash
  BY DEF Ids, LastHash
<1>2. Chained'
  BY <1>1 DEF Chain, Chained
<1>3. ChainUnforked'
  BY DEF Chain, ChainUnforked
<1>4. QED
  BY <1>2, <1>3 DEF Chain

LEMMA ChainBegin ==
    ASSUME Base, Chain, NEW e \in Events, NEW occ \in Occurred, BeginAppend(e, occ)
    PROVE  Chain'
<1>1. /\ DOMAIN pending' = {e}
      /\ pending'[e] = [occ |-> occ, prev |-> LastHash, at |-> "hash"]
      /\ UNCHANGED store
  BY BeginFacts
<1>2. log' = log /\ erased' = erased
  BY <1>1 DEF store
<1>3. Ids' = Ids /\ LastHash' = LastHash
  BY <1>2 DEF Ids, LastHash
<1>4. e \notin Ids \cup erased
  BY DEF BeginAppend, InLog, Ids
<1>5. Chained'
  BY <1>1, <1>2, <1>3, <1>4 DEF Chain, Chained
<1>6. ChainUnforked'
  BY <1>2 DEF Chain, ChainUnforked
<1>7. QED
  BY <1>5, <1>6 DEF Chain

LEMMA ChainInsert ==
    ASSUME Base, Chain, NEW e \in DOMAIN pending, InsertEvent(e)
    PROVE  Chain'
<1> DEFINE n == sequence + 1
           prev == pending[e].prev
<1>1. /\ e \in Events /\ pending[e].at = "hash"
      /\ DOMAIN log' = DOMAIN log \cup {n} /\ n \notin DOMAIN log
      /\ \A i \in DOMAIN log : log'[i] = log[i] /\ i < n
      /\ log'[n].id = e /\ log'[n].prev = prev
      /\ erased' = erased
      /\ DOMAIN pending' = {e} /\ pending'[e].at = "alarm"
  <2>1. log'[n] = [id |-> e, seg |-> SegmentFor(pending[e].occ), prev |-> prev]
    BY InsertFacts
  <2>2. /\ e \in Events /\ pending[e].at = "hash"
        /\ DOMAIN log' = DOMAIN log \cup {n} /\ n \notin DOMAIN log
        /\ \A i \in DOMAIN log : log'[i] = log[i] /\ i < n
        /\ erased' = erased
        /\ DOMAIN pending' = {e} /\ pending'[e].at = "alarm"
    BY InsertFacts
  <2>3. QED
    BY <2>1, <2>2
<1>2. DOMAIN log \subseteq 1..sequence /\ sequence \in Nat /\ n \in Nat
  BY DEF Base, Types, TypeOK
<1>3. prev = LastHash /\ e \notin Ids \cup erased
  BY <1>1 DEF Chain, Chained
<1>4. CASE DOMAIN log = {}
  <2>1. prev = None
    BY <1>3, <1>4 DEF LastHash
  <2>2. DOMAIN log' = {n} /\ Ids' = {e} /\ e # None
    BY <1>1, <1>4, AuditConstants DEF Ids
  <2>3. Chained'
    BY <1>1, <1>3, <2>1, <2>2 DEF Chained
  <2>4. ChainUnforked'
    BY <2>2, <1>2 DEF ChainUnforked
  <2>5. QED
    BY <2>3, <2>4 DEF Chain
<1>5. CASE DOMAIN log # {}
  <2> DEFINE m == Max(DOMAIN log)
  <2>1. m \in DOMAIN log /\ \A i \in DOMAIN log : i <= m
    BY <1>2, <1>5, Greatest
  <2>2. prev = log[m].id
    BY <1>3, <1>5 DEF LastHash
  <2> HIDE DEF m, n, prev
  <2>3. prev \in Ids /\ prev # None /\ prev # e
    <3>1. log[m].id \in Events
      BY <2>1 DEF Base, Types, TypeOK, Event
    <3>2. prev \in Ids
      BY <2>1, <2>2 DEF Ids
    <3>3. QED
      BY <1>3, <2>2, <3>1, <3>2, AuditConstants
  <2>4. \A i \in DOMAIN log : log[i].prev # prev
    BY <2>1, <2>2 DEF Chain, Chained
  <2>5. \A i \in DOMAIN log : log[i].prev # e /\ log[i].id # e
    <3>1. \A i \in DOMAIN log : log[i].prev \in Ids \cup erased \cup {None}
      BY DEF Chain, Chained
    <3>2. e # None
      BY <1>1, AuditConstants
    <3>3. \A i \in DOMAIN log : log[i].id \in Ids
      BY DEF Ids
    <3>4. QED
      BY <1>3, <3>1, <3>2, <3>3
  <2>6. Ids' = Ids \cup {e}
    BY <1>1 DEF Ids
  <2>7. \A i, j \in DOMAIN log' : log'[i].id = log'[j].id => i = j
    BY <1>1, <2>5 DEF Chain, Chained
  <2>8. Ids' \cap erased' = {}
    BY <1>1, <1>3, <2>6 DEF Chain, Chained
  <2>9. \A i \in DOMAIN log' : log'[i].prev \in Ids' \cup erased' \cup {None}
    BY <1>1, <2>3, <2>6 DEF Chain, Chained
  <2>10. \A i, j \in DOMAIN log' : i <= j => log'[i].prev # log'[j].id
    <3> SUFFICES ASSUME NEW i \in DOMAIN log', NEW j \in DOMAIN log', i <= j
                 PROVE  log'[i].prev # log'[j].id
      OBVIOUS
    <3>1. CASE i \in DOMAIN log /\ j \in DOMAIN log
      BY <1>1, <3>1 DEF Chain, Chained
    <3>2. CASE j = n
      BY <1>1, <2>3, <2>5, <3>2
    <3>3. CASE i = n /\ j \in DOMAIN log
      <4>1. j < n /\ n <= j /\ j \in Nat
        BY <1>1, <1>2, <3>3
      <4>2. QED
        BY <1>2, <4>1
    <3>4. QED
      BY <1>1, <3>1, <3>2, <3>3
  <2>11. \A f \in DOMAIN pending' : pending'[f].at # "hash"
    BY <1>1
  <2>12. Chained'
    BY <2>7, <2>8, <2>9, <2>10, <2>11 DEF Chained
  <2>13. ChainUnforked'
    <3> SUFFICES ASSUME NEW i \in DOMAIN log', NEW j \in DOMAIN log', i < j
                 PROVE  log'[i].prev # log'[j].prev /\ log'[j].prev # None
      BY DEF ChainUnforked
    <3>1. CASE i \in DOMAIN log /\ j \in DOMAIN log
      BY <1>1, <3>1 DEF Chain, ChainUnforked
    <3>2. CASE i \in DOMAIN log /\ j = n
      BY <1>1, <2>3, <2>4, <3>2
    <3>3. CASE i = n /\ j \in DOMAIN log
      <4>1. j < n /\ n < j /\ j \in Nat
        BY <1>1, <1>2, <3>3
      <4>2. QED
        BY <1>2, <4>1
    <3>4. CASE i = n /\ j = n
      BY <1>2, <3>4
    <3>5. QED
      BY <1>1, <3>1, <3>2, <3>3, <3>4
  <2>14. QED
    BY <2>12, <2>13 DEF Chain
<1>6. QED
  BY <1>4, <1>5

LEMMA ChainErase ==
    ASSUME Base, Chain, NEW p \in Procs, EraseSegment(p)
    PROVE  Chain'
<1>1. PICK d \in run[p].erase :
              /\ DOMAIN pending = {} /\ pending' = pending
              /\ \/ UNCHANGED store
                 \/ /\ erased' = erased \cup EventsOf(d)
                    /\ DOMAIN log' = Kept(d) /\ \A i \in Kept(d) : log'[i] = log[i]
  BY EraseFacts
<1>2. CASE UNCHANGED store
  BY <1>1, <1>2, ChainFrame DEF store
<1>3. CASE ~UNCHANGED store
  <2>1. /\ erased' = erased \cup EventsOf(d)
        /\ \A i \in DOMAIN log' : i \in DOMAIN log /\ i \notin Rows(d) /\ log'[i] = log[i]
        /\ \A i \in DOMAIN log : i \in Rows(d) \/ i \in DOMAIN log'
    BY <1>1, <1>3 DEF Kept
  <2>2. \A i \in Rows(d) : i \in DOMAIN log /\ log[i].id \in EventsOf(d)
    BY DEF Rows, EventsOf
  <2>3. \A x \in EventsOf(d) : \E i \in Rows(d) : log[i].id = x
    BY DEF EventsOf
  <2>4. Ids' \subseteq Ids /\ Ids \subseteq Ids' \cup EventsOf(d)
    BY <2>1, <2>2 DEF Ids
  <2>5. \A i, j \in DOMAIN log' : log'[i].id = log'[j].id => i = j
    BY <2>1 DEF Chain, Chained
  <2>6. Ids' \cap erased' = {}
    <3> SUFFICES ASSUME NEW i \in DOMAIN log', log'[i].id \in erased' PROVE FALSE
      BY DEF Ids
    <3>1. i \in DOMAIN log /\ i \notin Rows(d) /\ log[i].id \in erased \cup EventsOf(d)
      BY <2>1
    <3>2. log[i].id \notin erased
      BY <3>1 DEF Chain, Chained, Ids
    <3>3. PICK j \in Rows(d) : log[j].id = log[i].id
      BY <2>3, <3>1, <3>2
    <3>4. j = i
      BY <2>2, <3>1, <3>3 DEF Chain, Chained
    <3>5. QED
      BY <3>1, <3>3, <3>4
  <2>7. \A i \in DOMAIN log' : log'[i].prev \in Ids' \cup erased' \cup {None}
    BY <2>1, <2>4 DEF Chain, Chained
  <2>8. \A i, j \in DOMAIN log' : i <= j => log'[i].prev # log'[j].id
    BY <2>1 DEF Chain, Chained
  <2>9. Chained'
    BY <1>1, <2>5, <2>6, <2>7, <2>8 DEF Chained
  <2>10. ChainUnforked'
    BY <2>1 DEF Chain, ChainUnforked
  <2>11. QED
    BY <2>9, <2>10 DEF Chain
<1>4. QED
  BY <1>2, <1>3

LEMMA ChainStep ==
    ASSUME Base, Chain, Next
    PROVE  Chain'
<1> DEFINE Quiet == /\ UNCHANGED <<log, erased>>
                    /\ \A e \in DOMAIN pending' : pending'[e].at = "hash" =>
                          e \in DOMAIN pending /\ pending'[e] = pending[e]
<1>1. ASSUME NEW e \in Events, NEW occ \in Occurred, BeginAppend(e, occ) PROVE Chain'
  BY <1>1, ChainBegin
<1>2. ASSUME NEW e \in DOMAIN pending, InsertEvent(e) PROVE Chain'
  BY <1>2, ChainInsert
<1>3. ASSUME NEW e \in DOMAIN pending, ArmAlarm(e) PROVE Quiet
  BY <1>3 DEF ArmAlarm, store
<1>4. ASSUME StartAlarm \/ Requested \/ AlarmFails \/ Tick
      PROVE  Quiet
  BY <1>4 DEF StartAlarm, Requested, RequestClose, RequestRetention, AlarmFails, Tick, store
<1>5. ASSUME Reset PROVE Quiet
  BY <1>5 DEF Reset, store
<1>6. ASSUME NEW p \in Procs, CloserStep(p) PROVE Quiet \/ Chain'
  <2>1. CASE PutCheckpoint(p) \/ RecordCheckpoint(p) \/ CloseDone(p) \/ EraseDone(p)
    BY <2>1 DEF PutCheckpoint, RecordCheckpoint, CloseDone, EraseDone, store
  <2>2. CASE MarkClosed(p)
    BY <2>2 DEF MarkClosed
  <2>3. CASE EraseSegment(p)
    BY <2>3, ChainErase
  <2>4. QED
    BY <1>6, <2>1, <2>2, <2>3 DEF CloserStep
<1>7. Quiet => Chain'
  BY ChainFrame
<1> HIDE DEF Quiet
<1>8. QED
  BY <1>1, <1>2, <1>3, <1>4, <1>5, <1>6, <1>7 DEF Next, AppendStep, Quiet

-----------------------------------------------------------------------------
(***************************************************************************)
(* The segments: what is closed lies in the past.                          *)
(***************************************************************************)

LEMMA Numbers ==
    ASSUME Base
    PROVE  /\ Late \in Nat /\ Retain \in Nat /\ Late < Retain /\ today \in Int
           /\ Days \subseteq Int
           /\ \A d \in DOMAIN segs : d \in Int
           /\ \A p \in Procs : /\ \A d \in DOMAIN run[p].todo : d \in Int
                               /\ \A d \in run[p].erase : d \in Int
<1>1. \A p \in Procs : DOMAIN run[p].todo \subseteq Days /\ run[p].erase \subseteq Days
  BY RunFacts, SnapshotFacts DEF Base
<1>2. Days \subseteq Int /\ today \in Days /\ DOMAIN segs \subseteq Days
  BY DEF Days, Base, Types, TypeOK
<1>3. QED
  BY <1>1, <1>2, AuditConstants

\* An execution's step that closes nothing and opens nothing.
LEMMA DatedMove ==
    ASSUME Base, Dated, NEW p \in Procs, NEW a, NEW T, NEW E, Moves(p, a, T, E),
           segs' = segs, pending' = pending, today' = today,
           p = "alarm" => /\ \A d \in DOMAIN T : d < today
                          /\ \A d \in E : d + Retain < today,
           \A d \in E : d \in DOMAIN segs => Closed(d),
           \A e \in DOMAIN pending : pending[e].at = "hash" => pending[e].occ \notin E,
           gate' # "request" => IF p = "request" THEN DOMAIN T = {} /\ E = {}
                                                 ELSE gate # "request"
    PROVE  Dated'
<1>1. \A d : Closed(d)' = Closed(d)
  BY DEF Closed
<1>2. \A q \in Procs : IF q = p THEN run'[q].todo = T /\ run'[q].erase = E
                                ELSE run'[q] = run[q]
  BY DEF Moves
<1>3. /\ \A d \in DOMAIN run'["alarm"].todo : d < today
      /\ \A d \in run'["alarm"].erase : d + Retain < today
  BY <1>2 DEF Dated, Procs
<1>4. gate' # "request" => DOMAIN run'["request"].todo = {} /\ run'["request"].erase = {}
  BY <1>2 DEF Dated, Procs
<1>5. \A q \in Procs : \A d \in run'[q].erase : d \in DOMAIN segs => Closed(d)
  BY <1>2 DEF Dated
<1>6. \A e \in DOMAIN pending :
        pending[e].at = "hash" => \A q \in Procs : pending[e].occ \notin run'[q].erase
  BY <1>2 DEF Dated
<1>7. QED
  BY <1>1, <1>3, <1>4, <1>5, <1>6 DEF Dated

LEMMA DatedRun ==
    ASSUME Base, Dated, NEW p \in Procs,
           PutCheckpoint(p) \/ RecordCheckpoint(p) \/ CloseDone(p) \/ EraseDone(p)
    PROVE  Dated'
<1>1. segs' = segs /\ pending' = pending /\ today' = today
  BY DEF PutCheckpoint, RecordCheckpoint, CloseDone, EraseDone, store
<1>2. PICK a, T, E :
              /\ Moves(p, a, T, E)
              /\ DOMAIN T \subseteq DOMAIN run[p].todo
              /\ \/ E \subseteq run[p].erase
                 \/ E = Erasable(Cutoff) /\ DOMAIN pending = {}
              /\ gate' # "request" => IF p = "request" THEN DOMAIN T = {} /\ E = {}
                                                       ELSE gate # "request"
  <2>1. CASE PutCheckpoint(p) \/ RecordCheckpoint(p)
    <3>1. gate' = gate /\ MayRun(p)
      BY <2>1 DEF PutCheckpoint, RecordCheckpoint
    <3>2. (p = "request" => gate' = "request") /\ (p # "request" => gate # "request")
      BY <3>1 DEF MayRun
    <3>3. QED
      BY <2>1, <3>2, WriteMoves DEF Base
  <2>2. CASE CloseDone(p)
    <3>1. p = "alarm" => DOMAIN pending = {} /\ gate # "request"
      BY <2>2 DEF CloseDone, MayRun, Base, Gated
    <3>2. p = "alarm" \/ p = "request"
      BY DEF Procs
    <3>3. QED
      BY <2>2, <3>1, <3>2, CloseMoves, IdleType DEF Base
  <2>3. CASE EraseDone(p)
    <3>1. p # "request" => gate # "request"
      BY <2>3 DEF EraseDone, MayRun
    <3>2. QED
      BY <2>3, <3>1, EndMoves, IdleType DEF Base, EraseDone
  <2>4. QED
    BY <2>1, <2>2, <2>3
<1>3. p = "alarm" => /\ \A d \in DOMAIN T : d < today
                     /\ \A d \in E : d + Retain < today
  <2>1. \A d \in Erasable(Cutoff) : d + Retain < today
    BY Numbers DEF Erasable, Cutoff
  <2>2. QED
    BY <1>2, <2>1 DEF Dated
<1>4. \A d \in E : d \in DOMAIN segs => Closed(d)
  <2>1. CASE E \subseteq run[p].erase
    BY <2>1 DEF Dated
  <2>2. CASE E = Erasable(Cutoff)
    BY <2>2 DEF Erasable
  <2>3. QED
    BY <1>2, <2>1, <2>2
<1>5. \A e \in DOMAIN pending : pending[e].at = "hash" => pending[e].occ \notin E
  BY <1>2 DEF Dated
<1>6. QED
  BY <1>1, <1>2, <1>3, <1>4, <1>5, DatedMove

LEMMA DatedStart ==
    ASSUME Base, Dated, StartAlarm \/ Requested \/ AlarmFails
    PROVE  Dated'
<1>1. segs' = segs /\ pending' = pending /\ today' = today /\ DOMAIN pending = {}
  BY DEF StartAlarm, Requested, RequestClose, RequestRetention, AlarmFails, store, Base, Gated
<1>2. CASE StartAlarm
  <2>1. Moves("alarm", "put", Closable(Through), {}) /\ gate # "request"
    BY <1>2, StartMoves DEF StartAlarm, Base
  <2>2. \A d \in DOMAIN Closable(Through) : d < today
    BY Numbers DEF Closable, Through
  <2>3. QED
    BY <1>1, <2>1, <2>2, DatedMove DEF Procs
<1>3. CASE AlarmFails
  <2>1. Moves("alarm", "idle", Idle.todo, {}) /\ gate # "request"
    BY <1>3, EndMoves DEF AlarmFails, Base, Procs
  <2>2. QED
    BY <1>1, <2>1, IdleType, DatedMove DEF Procs
<1>4. ASSUME NEW through \in Days, RequestClose(through) PROVE Dated'
  <2>1. Moves("request", "put", Closable(through), {}) /\ gate' = "request"
    BY <1>4, RequestMoves DEF RequestClose, Base
  <2>2. QED
    BY <1>1, <2>1, DatedMove DEF Procs
<1>5. ASSUME NEW before \in CallerDates, RequestRetention(before) PROVE Dated'
  <2>1. /\ Moves("request", "erase", run'["request"].todo, Erasable(before))
        /\ gate' = "request"
    BY <1>5, RequestMoves DEF RequestRetention, Base
  <2>2. \A d \in Erasable(before) : Closed(d)
    BY DEF Erasable
  <2>3. QED
    BY <1>1, <2>1, <2>2, DatedMove DEF Procs
<1>6. QED
  BY <1>2, <1>3, <1>4, <1>5 DEF Requested

LEMMA DatedMark ==
    ASSUME Base, Dated, NEW p \in Procs, MarkClosed(p)
    PROVE  Dated'
<1>1. Moves(p, "put", Rest(p), run[p].erase)
  BY WriteMoves DEF Base
<1>2. /\ DOMAIN segs' = DOMAIN segs
      /\ \A x \in DOMAIN segs :
            /\ segs'[x].status = IF x = FirstDue(p) THEN "closed" ELSE segs[x].status
            /\ segs'[x].early = IF x = FirstDue(p) /\ ~Closed(x)
                                THEN x >= today ELSE segs[x].early
      /\ FirstDue(p) \in DOMAIN run[p].todo /\ DOMAIN pending = {}
      /\ pending' = pending /\ today' = today /\ gate' = gate
  BY MarkFacts
<1>3. \A x : Closed(x)' => Closed(x) \/ x = FirstDue(p)
  BY <1>2 DEF Closed
<1>4. \A x : Closed(x) => Closed(x)'
  BY <1>2 DEF Closed
<1>5. DOMAIN Rest(p) \subseteq DOMAIN run[p].todo
  BY RestFacts DEF Base
<1>6. \A q \in Procs : /\ DOMAIN run'[q].todo \subseteq DOMAIN run[q].todo
                       /\ run'[q].erase = run[q].erase
  BY <1>1, <1>5 DEF Moves
<1>7. \A d \in DOMAIN segs' : Closed(d)' => d < today' \/ segs'[d].early
  <2> SUFFICES ASSUME NEW d \in DOMAIN segs, Closed(d)' PROVE d < today \/ segs'[d].early
    BY <1>2
  <2>1. CASE Closed(d)
    BY <1>2, <2>1 DEF Dated
  <2>2. CASE ~Closed(d)
    <3>1. d >= today => segs'[d].early
      BY <1>2, <1>3, <2>2
    <3>2. d \in Int /\ today \in Int
      BY Numbers
    <3>3. QED
      BY <3>1, <3>2
  <2>3. QED
    BY <2>1, <2>2
<1>8. \A d \in DOMAIN segs' : segs'[d].early => Closed(d)'
  <2> SUFFICES ASSUME NEW d \in DOMAIN segs, segs'[d].early PROVE Closed(d)'
    BY <1>2
  <2>1. CASE d = FirstDue(p)
    BY <1>2, <2>1 DEF Closed
  <2>2. CASE d # FirstDue(p)
    BY <1>2, <1>4, <2>2 DEF Dated
  <2>3. QED
    BY <2>1, <2>2
<1>9. gate' # "request" => DOMAIN run'["request"].todo = {} /\ run'["request"].erase = {}
  BY <1>2, <1>6 DEF Dated, Procs
<1>10. /\ \A d \in DOMAIN run'["alarm"].todo : d < today'
       /\ \A d \in run'["alarm"].erase : d + Retain < today'
  BY <1>2, <1>6 DEF Dated, Procs
<1>11. \A q \in Procs : \A d \in run'[q].erase : d \in DOMAIN segs' => Closed(d)'
  BY <1>2, <1>4, <1>6 DEF Dated
<1>12. QED
  BY <1>2, <1>7, <1>8, <1>9, <1>10, <1>11 DEF Dated

LEMMA DatedErase ==
    ASSUME Base, Dated, NEW p \in Procs, EraseSegment(p)
    PROVE  Dated'
<1>1. PICK d \in run[p].erase :
              /\ Moves(p, run[p].at, run[p].todo, run[p].erase \ {d})
              /\ DOMAIN pending = {} /\ pending' = pending /\ today' = today /\ gate' = gate
              /\ \/ UNCHANGED store
                 \/ /\ DOMAIN segs' = {y \in DOMAIN segs : ~(y = d /\ Closed(d))}
                    /\ \A x \in DOMAIN segs' : segs'[x] = segs[x]
  BY EraseFacts
<1>2. DOMAIN segs' \subseteq DOMAIN segs /\ \A x \in DOMAIN segs' : segs'[x] = segs[x]
  BY <1>1 DEF store
<1>3. \A x \in DOMAIN segs' : Closed(x)' <=> Closed(x)
  BY <1>2 DEF Closed
<1>4. \A q \in Procs : run'[q].todo = run[q].todo /\ run'[q].erase \subseteq run[q].erase
  BY <1>1 DEF Moves
<1>5. \A x \in DOMAIN segs' : /\ Closed(x)' => x < today' \/ segs'[x].early
                              /\ segs'[x].early => Closed(x)'
  BY <1>1, <1>2, <1>3 DEF Dated
<1>6. gate' # "request" => DOMAIN run'["request"].todo = {} /\ run'["request"].erase = {}
  BY <1>1, <1>4 DEF Dated, Procs
<1>7. QED
  BY <1>1, <1>2, <1>3, <1>4, <1>5, <1>6 DEF Dated, Procs

LEMMA DatedBegin ==
    ASSUME Base, Dated, NEW e \in Events, NEW occ \in Occurred, BeginAppend(e, occ)
    PROVE  Dated'
<1>1. /\ DOMAIN pending' = {e}
      /\ pending'[e] = [occ |-> occ, prev |-> LastHash, at |-> "hash"]
      /\ segs' = segs /\ today' = today /\ run' = run /\ gate = "open"
  BY BeginFacts DEF store
<1>2. occ \in Int /\ today - Late <= occ
  BY Numbers DEF Occurred
<1>3. \A d \in run["alarm"].erase : d < occ
  <2> SUFFICES ASSUME NEW d \in run["alarm"].erase PROVE d < occ
    OBVIOUS
  <2>1. d + Retain < today /\ d \in Int
    BY Numbers DEF Dated, Procs
  <2>2. QED
    BY <1>2, <2>1, Numbers
<1>4. run["request"].erase = {} /\ DOMAIN run["request"].todo = {}
  BY <1>1 DEF Dated
<1>5. \A p \in Procs : occ \notin run[p].erase
  BY <1>2, <1>3, <1>4 DEF Procs
<1>6. \A d : Closed(d)' = Closed(d)
  BY <1>1 DEF Closed
<1>7. QED
  BY <1>1, <1>4, <1>5, <1>6 DEF Dated

\* The segment an event goes to is not about to be erased, and it is closed only when that
\* is today's.
LEMMA Destination ==
    ASSUME Base, Dated, NEW e \in DOMAIN pending, pending[e].at = "hash"
    PROVE  /\ Closed(SegmentFor(pending[e].occ)) =>
                 /\ SegmentFor(pending[e].occ) = today
                 /\ segs[today].early
           /\ \A p \in Procs : SegmentFor(pending[e].occ) \notin run[p].erase
<1>1. CASE Closed(pending[e].occ)
  <2>1. SegmentFor(pending[e].occ) = today
    BY <1>1 DEF SegmentFor
  <2>2. Closed(today) => segs[today].early
    <3>1. Closed(today) => today \in DOMAIN segs
      BY DEF Closed
    <3>2. QED
      BY <3>1, Numbers DEF Dated
  <2>3. today \notin run["alarm"].erase
    BY Numbers DEF Dated
  <2>4. run["request"].erase = {}
    BY DEF Dated, Base, Gated
  <2>5. QED
    BY <2>1, <2>2, <2>3, <2>4 DEF Procs
<1>2. CASE ~Closed(pending[e].occ)
  BY <1>2 DEF SegmentFor, Dated
<1>3. QED
  BY <1>1, <1>2

LEMMA DatedInsert ==
    ASSUME Base, Dated, NEW e \in DOMAIN pending, InsertEvent(e)
    PROVE  Dated'
<1> DEFINE d == SegmentFor(pending[e].occ)
<1>1. /\ DOMAIN pending' = {e} /\ pending'[e].at = "alarm" /\ pending[e].at = "hash"
      /\ segs' = Counted(d, e) /\ d \in Days /\ e \in Events
      /\ today' = today /\ run' = run /\ gate' = gate
  BY InsertFacts
<1>2. \A p \in Procs : d \notin run[p].erase
  BY <1>1, Destination
<1> HIDE DEF d
<1>3. CASE Closed(d)
  <2>1. segs' = segs
    BY <1>1, <1>3, CountedFacts DEF Base
  <2>2. \A x : Closed(x)' = Closed(x)
    BY <2>1 DEF Closed
  <2>3. QED
    BY <1>1, <2>1, <2>2 DEF Dated
<1>4. CASE ~Closed(d)
  <2>1. DOMAIN segs' = DOMAIN segs \cup {d} /\ \A x \in DOMAIN segs : x # d => segs'[x] = segs[x]
    BY <1>1, CountedFacts DEF Base
  <2>2. segs'[d].status = "active" /\ ~segs'[d].early
    <3>1. CASE d \notin DOMAIN segs
      <4>1. segs'[d] = Fresh(e)
        BY <1>1, <3>1, CountedFacts DEF Base
      <4>2. Fresh(e).status = "active" /\ ~Fresh(e).early
        BY DEF Fresh
      <4>3. QED
        BY <4>1, <4>2
    <3>2. CASE d \in DOMAIN segs
      <4>1. segs'[d].status = segs[d].status /\ segs'[d].early = segs[d].early
        BY <1>1, <1>4, <3>2, CountedFacts DEF Base
      <4>2. segs[d].status \in {"active", "closed"} /\ segs[d].status # "closed"
        BY <1>4, <3>2 DEF Closed, Base, Types, TypeOK, Segment
      <4>3. ~segs[d].early
        BY <1>4, <3>2 DEF Dated
      <4>4. QED
        BY <4>1, <4>2, <4>3
    <3>3. QED
      BY <3>1, <3>2
  <2>3. \A x : Closed(x)' <=> Closed(x)
    BY <1>4, <2>1, <2>2 DEF Closed
  <2>4. \A x \in DOMAIN segs' : /\ Closed(x)' => x < today' \/ segs'[x].early
                                /\ segs'[x].early => Closed(x)'
    BY <1>1, <1>4, <2>1, <2>2, <2>3 DEF Dated
  <2>5. \A p \in Procs : \A x \in run'[p].erase : x \in DOMAIN segs' => Closed(x)'
    BY <1>1, <1>2, <2>1, <2>3 DEF Dated
  <2>6. QED
    BY <1>1, <2>4, <2>5 DEF Dated
<1>5. QED
  BY <1>3, <1>4

LEMMA DatedStep ==
    ASSUME Base, Dated, Next
    PROVE  Dated'
<1>1. ASSUME NEW e \in Events, NEW occ \in Occurred, BeginAppend(e, occ) PROVE Dated'
  BY <1>1, DatedBegin
<1>2. ASSUME NEW e \in DOMAIN pending, InsertEvent(e) PROVE Dated'
  BY <1>2, DatedInsert
<1>3. ASSUME NEW e \in DOMAIN pending, ArmAlarm(e) PROVE Dated'
  <2>1. segs' = segs /\ today' = today /\ run' = run /\ gate # "request"
        /\ \A f \in DOMAIN pending' : f \in DOMAIN pending /\ pending'[f] = pending[f]
    BY <1>3 DEF ArmAlarm, store, Base, Gated
  <2>2. \A d : Closed(d)' = Closed(d)
    BY <2>1 DEF Closed
  <2>3. QED
    BY <2>1, <2>2 DEF Dated
<1>4. CASE StartAlarm \/ Requested \/ AlarmFails
  BY <1>4, DatedStart
<1>5. ASSUME NEW p \in Procs, CloserStep(p) PROVE Dated'
  BY <1>5, DatedRun, DatedMark, DatedErase DEF CloserStep
<1>6. CASE Reset
  <2>1. segs' = segs /\ today' = today /\ DOMAIN pending' = {}
        /\ \A p \in Procs : run'[p] = Idle
    BY <1>6 DEF Reset, store
  <2>2. \A d : Closed(d)' = Closed(d)
    BY <2>1 DEF Closed
  <2>3. QED
    BY <2>1, <2>2, IdleType DEF Dated, Procs
<1>7. CASE Tick
  <2>1. segs' = segs /\ today' = today + 1 /\ run' = run /\ pending' = pending /\ gate' = gate
    BY <1>7 DEF Tick, store
  <2>2. \A d : Closed(d)' = Closed(d)
    BY <2>1 DEF Closed
  <2>3. \A d \in DOMAIN segs : Closed(d)' => d < today' \/ segs'[d].early
    BY <2>1, <2>2, Numbers DEF Dated
  <2>4. \A d \in DOMAIN run["alarm"].todo : d < today'
    BY <2>1, Numbers DEF Dated, Procs
  <2>5. \A d \in run["alarm"].erase : d + Retain < today'
    BY <2>1, Numbers DEF Dated, Procs
  <2>6. QED
    BY <2>1, <2>2, <2>3, <2>4, <2>5 DEF Dated
<1>8. QED
  BY <1>1, <1>2, <1>3, <1>4, <1>5, <1>6, <1>7 DEF Next, AppendStep

-----------------------------------------------------------------------------
(***************************************************************************)
(* The segments: a row describes its events.                               *)
(***************************************************************************)

Described(d) ==
    \E n \in Rows(d) : Describes(d, n) /\ (~segs[d].early => Upto(d, n) = Rows(d))

LEMMA RowsFacts ==
    ASSUME Base, NEW d
    PROVE  /\ IsFiniteSet(Rows(d)) /\ Cardinality(Rows(d)) \in Nat
           /\ Rows(d) \subseteq 1..sequence /\ Rows(d) \subseteq Nat /\ sequence \in Nat
           /\ d \notin DOMAIN segs => Rows(d) = {}
<1>1. Rows(d) \subseteq 1..sequence /\ sequence \in Nat
  BY DEF Rows, Base, Types, TypeOK
<1>2. IsFiniteSet(1..sequence)
  BY <1>1, FS_Interval
<1>3. IsFiniteSet(Rows(d))
  BY <1>1, <1>2, FS_Subset
<1>4. Cardinality(Rows(d)) \in Nat
  BY <1>3, FS_CardinalityType
<1>5. d \notin DOMAIN segs => Rows(d) = {}
  BY DEF Rows, Base, Types, TypeOK
<1>6. QED
  BY <1>1, <1>3, <1>4, <1>5

\* The oldest row of those up to n is the oldest of all.
LEMMA UptoFacts ==
    ASSUME Base, NEW d, NEW n \in Rows(d)
    PROVE  /\ n \in Upto(d, n) /\ Upto(d, n) \subseteq Rows(d)
           /\ Min(Upto(d, n)) \in Rows(d)
           /\ \A i \in Rows(d) : Min(Upto(d, n)) <= i
<1>1. Rows(d) \subseteq Nat
  BY RowsFacts
<1>2. n \in Upto(d, n) /\ Upto(d, n) \subseteq Rows(d)
  BY <1>1 DEF Upto
<1>3. Min(Upto(d, n)) \in Upto(d, n) /\ \A i \in Upto(d, n) : Min(Upto(d, n)) <= i
  BY <1>1, <1>2, Least
<1>4. \A i \in Rows(d) : Min(Upto(d, n)) <= i
  <2> SUFFICES ASSUME NEW i \in Rows(d) PROVE Min(Upto(d, n)) <= i
    OBVIOUS
  <2>1. CASE i <= n
    BY <1>3, <2>1 DEF Upto
  <2>2. CASE ~(i <= n)
    <3>1. Min(Upto(d, n)) <= n /\ Min(Upto(d, n)) \in Nat /\ n < i /\ i \in Nat
      BY <1>1, <1>2, <1>3, <2>2
    <3>2. QED
      BY <1>1, <3>1
  <2>3. QED
    BY <2>1, <2>2
<1>5. QED
  BY <1>2, <1>3, <1>4

\* A segment is described as before while its summary and the rows up to n stay: when it
\* is closed, and when newer rows are stored that it does not count.
LEMMA DescribedStays ==
    ASSUME Base, NEW d \in DOMAIN segs, Described(d),
           segs'[d].sum = segs[d].sum,
           Rows(d) \subseteq Rows(d)',
           \A i \in Rows(d) : log'[i] = log[i],
           \A i \in Rows(d)' \ Rows(d) : \A j \in Rows(d) : ~(i <= j),
           ~segs'[d].early => ~segs[d].early /\ Rows(d)' = Rows(d)
    PROVE  Described(d)'
<1>1. PICK n \in Rows(d) : Describes(d, n) /\ (~segs[d].early => Upto(d, n) = Rows(d))
  BY DEF Described
<1>2. Upto(d, n)' = Upto(d, n)
  BY DEF Upto
<1>3. n \in Rows(d)' /\ log'[n] = log[n]
  BY <1>1
<1>4. log'[Min(Upto(d, n))] = log[Min(Upto(d, n))]
  BY <1>1, UptoFacts
<1>5. Describes(d, n)'
  BY <1>1, <1>2, <1>3, <1>4 DEF Describes
<1>6. ~segs'[d].early => Upto(d, n)' = Rows(d)'
  BY <1>1, <1>2
<1>7. QED
  BY <1>3, <1>5, <1>6 DEF Described

LEMMA CountsFrame ==
    ASSUME Base, SegmentCounts, log' = log, DOMAIN segs' = DOMAIN segs,
           \A d \in DOMAIN segs : /\ segs'[d].sum = segs[d].sum
                                  /\ segs[d].early => segs'[d].early
    PROVE  SegmentCounts'
<1>1. \A d : Rows(d)' = Rows(d)
  BY DEF Rows
<1>2. \A d \in DOMAIN segs : Described(d)
  BY DEF SegmentCounts, Described
<1>3. \A d \in DOMAIN segs : Described(d)'
  BY <1>1, <1>2, DescribedStays
<1>4. QED
  BY <1>3 DEF SegmentCounts, Described

LEMMA CountsErase ==
    ASSUME Base, SegmentCounts, Dated, NEW p \in Procs, EraseSegment(p)
    PROVE  SegmentCounts'
<1>1. PICK d \in run[p].erase :
              \/ UNCHANGED store
              \/ /\ DOMAIN log' = Kept(d) /\ \A i \in Kept(d) : log'[i] = log[i]
                 /\ DOMAIN segs' = {y \in DOMAIN segs : ~(y = d /\ Closed(d))}
                 /\ \A x \in DOMAIN segs' : segs'[x] = segs[x]
  BY EraseFacts
<1>2. CASE UNCHANGED store
  BY <1>2, CountsFrame DEF store
<1>3. CASE ~UNCHANGED store
  <2>1. d \notin DOMAIN segs'
    BY <1>1, <1>3 DEF Dated
  <2>2. \A x \in DOMAIN segs' : x \in DOMAIN segs /\ x # d /\ segs'[x] = segs[x]
    BY <1>1, <1>3, <2>1
  <2>3. \A x : x # d => Rows(x)' = Rows(x) /\ \A i \in Rows(x) : log'[i] = log[i]
    BY <1>1, <1>3 DEF Rows, Kept
  <2>4. \A x \in DOMAIN segs : Described(x)
    BY DEF SegmentCounts, Described
  <2>5. ASSUME NEW x \in DOMAIN segs' PROVE Described(x)'
    BY <2>2, <2>3, <2>4, DescribedStays
  <2>6. QED
    BY <2>5 DEF SegmentCounts, Described
<1>4. QED
  BY <1>2, <1>3

LEMMA CountsInsert ==
    ASSUME Base, SegmentCounts, Dated, NEW e \in DOMAIN pending, InsertEvent(e)
    PROVE  SegmentCounts'
<1>0. PICK n : n = sequence + 1
  OBVIOUS
<1>1. PICK d \in Days :
              /\ d = SegmentFor(pending[e].occ)
              /\ DOMAIN log' = DOMAIN log \cup {n} /\ n \notin DOMAIN log
              /\ \A i \in DOMAIN log : log'[i] = log[i] /\ i < n
              /\ segs' = Counted(d, e) /\ d \in Days /\ e \in Events
              /\ pending[e].at = "hash" /\ sequence \in Nat
  BY <1>0, InsertFacts
<1>2. log'[n].id = e /\ log'[n].seg = d
  <2>1. log'[n] = [id |-> e, seg |-> d, prev |-> pending[e].prev]
    BY <1>0, <1>1, InsertFacts
  <2>2. QED
    BY <2>1
<1>3. Closed(d) => d \in DOMAIN segs /\ segs[d].early
  BY <1>1, Destination DEF Closed
<1>4. n \in Nat
  BY <1>0, <1>1
<1>5. /\ DOMAIN segs' = DOMAIN segs \cup {d}
      /\ \A x \in DOMAIN segs : x # d => segs'[x] = segs[x]
  BY <1>1, CountedFacts DEF Base
<1>6. \A x \in DOMAIN segs : Described(x)
  BY DEF SegmentCounts, Described
<1>7. ASSUME NEW x \in DOMAIN segs, x # d PROVE Described(x)'
  <2>1. Rows(x)' = Rows(x) /\ \A i \in Rows(x) : log'[i] = log[i]
    BY <1>1, <1>2, <1>7 DEF Rows
  <2>2. QED
    BY <1>5, <1>6, <1>7, <2>1, DescribedStays
<1>8. /\ Rows(d)' = Rows(d) \cup {n} /\ n \notin Rows(d)
      /\ \A i \in Rows(d) : log'[i] = log[i] /\ i < n
  BY <1>1, <1>2 DEF Rows
<1>9. /\ IsFiniteSet(Rows(d)) /\ Cardinality(Rows(d)) \in Nat
      /\ Rows(d) \subseteq 1..sequence /\ Rows(d) \subseteq Nat
  BY RowsFacts
<1>10. CASE Closed(d)
  <2>1. segs' = segs
    BY <1>1, <1>10, CountedFacts DEF Base
  <2>2. \A i \in Rows(d)' \ Rows(d) : \A j \in Rows(d) : ~(i <= j)
    BY <1>4, <1>8, <1>9
  <2>3. Described(d)'
    BY <1>3, <1>6, <1>8, <1>10, <2>1, <2>2, DescribedStays
  <2>4. QED
    BY <1>5, <1>7, <2>3 DEF SegmentCounts, Described
<1>11. CASE ~Closed(d)
  <2>1. Cardinality(Rows(d)') = Cardinality(Rows(d)) + 1
    BY <1>8, <1>9, FS_AddElement
  <2>2. Upto(d, n)' = Rows(d)' /\ n \in Rows(d)'
    BY <1>4, <1>8, <1>9 DEF Upto
  <2>3. CASE d \notin DOMAIN segs
    <3>1. segs'[d] = Fresh(e)
      BY <1>1, <2>3, CountedFacts DEF Base
    <3>2. Fresh(e).sum = [first |-> e, last |-> e, count |-> 1]
      BY DEF Fresh
    <3>3. Rows(d) = {}
      BY <2>3, RowsFacts
    <3>4. Rows(d)' = {n} /\ Cardinality(Rows(d)) = 0
      BY <1>8, <3>3, FS_EmptySet
    <3>5. Min(Rows(d)') = n
      BY <1>4, <3>4, Least
    <3>6. segs'[d].sum = [first |-> log'[Min(Upto(d, n)')].id,
                          last |-> log'[n].id,
                          count |-> Cardinality(Upto(d, n)')]
      BY <1>2, <2>1, <2>2, <3>1, <3>2, <3>4, <3>5
    <3>7. Describes(d, n)'
      BY <3>6 DEF Describes
    <3>8. Described(d)'
      BY <2>2, <3>7 DEF Described
    <3>9. QED
      BY <1>5, <1>7, <3>8 DEF SegmentCounts, Described
  <2>4. CASE d \in DOMAIN segs
    <3>1. /\ segs'[d].sum.first = segs[d].sum.first
          /\ segs'[d].sum.last = e
          /\ segs'[d].sum.count = segs[d].sum.count + 1
      BY <1>1, <1>11, <2>4, CountedFacts DEF Base
    <3>2. ~segs[d].early
      BY <1>11, <2>4 DEF Dated
    <3>3. PICK m \in Rows(d) : Describes(d, m) /\ Upto(d, m) = Rows(d)
      BY <1>6, <2>4, <3>2 DEF Described
    <3>4. segs[d].sum.first = log[Min(Rows(d))].id /\ segs[d].sum.count = Cardinality(Rows(d))
      BY <3>3 DEF Describes
    <3>5. Min(Rows(d)) \in Rows(d) /\ \A i \in Rows(d) : Min(Rows(d)) <= i
      BY <1>9, <3>3, Least
    <3>6. Rows(d)' \in SUBSET Nat /\ Rows(d)' # {}
      BY <1>4, <1>8, <1>9
    <3>7. Min(Rows(d)') \in Rows(d)' /\ \A i \in Rows(d)' : Min(Rows(d)') <= i
      BY <3>6, Least
    <3>8. Min(Rows(d)') = Min(Rows(d))
      <4>1. Min(Rows(d)') <= Min(Rows(d))
        BY <1>8, <3>5, <3>7
      <4>2. Min(Rows(d)) <= Min(Rows(d)')
        <5>1. Min(Rows(d)) < n
          BY <1>8, <3>5
        <5>2. QED
          BY <1>4, <1>8, <1>9, <3>5, <3>7, <5>1
      <4>3. Min(Rows(d)) \in Nat /\ Min(Rows(d)') \in Nat
        BY <1>9, <3>5, <3>6, <3>7
      <4>4. QED
        BY <4>1, <4>2, <4>3
    <3>9. log'[Min(Rows(d)')].id = segs[d].sum.first
      BY <1>8, <3>4, <3>5, <3>8
    <3>10. segs'[d].sum \in Summary
      <4>1. segs' \in [DOMAIN segs \cup {d} -> Segment]
        BY <1>1, CountedFacts DEF Base
      <4>2. QED
        BY <4>1 DEF Segment
    <3>11. segs'[d].sum = [first |-> segs'[d].sum.first, last |-> segs'[d].sum.last,
                           count |-> segs'[d].sum.count]
      BY <3>10 DEF Summary
    <3>12. segs'[d].sum = [first |-> log'[Min(Upto(d, n)')].id,
                           last |-> log'[n].id,
                           count |-> Cardinality(Upto(d, n)')]
      BY <1>2, <2>1, <2>2, <3>1, <3>4, <3>9, <3>11
    <3>13. Describes(d, n)'
      BY <3>12 DEF Describes
    <3>14. Described(d)'
      BY <2>2, <3>13 DEF Described
    <3>15. QED
      BY <1>5, <1>7, <3>14 DEF SegmentCounts, Described
  <2>5. QED
    BY <2>3, <2>4
<1>12. QED
  BY <1>10, <1>11

LEMMA CountsStep ==
    ASSUME Base, SegmentCounts, Dated, Next
    PROVE  SegmentCounts'
<1>1. ASSUME NEW e \in Events, NEW occ \in Occurred, BeginAppend(e, occ)
      PROVE  UNCHANGED store
  BY <1>1, BeginFacts
<1>2. ASSUME NEW e \in DOMAIN pending, InsertEvent(e) \/ ArmAlarm(e)
      PROVE  UNCHANGED store \/ SegmentCounts'
  BY <1>2, CountsInsert DEF ArmAlarm
<1>3. ASSUME StartAlarm \/ Requested \/ AlarmFails \/ Reset \/ Tick
      PROVE  UNCHANGED store
  BY <1>3 DEF StartAlarm, Requested, RequestClose, RequestRetention, AlarmFails, Reset, Tick
<1>4. ASSUME NEW p \in Procs, CloserStep(p) PROVE UNCHANGED store \/ SegmentCounts'
  <2>1. CASE PutCheckpoint(p) \/ RecordCheckpoint(p) \/ CloseDone(p) \/ EraseDone(p)
    BY <2>1 DEF PutCheckpoint, RecordCheckpoint, CloseDone, EraseDone
  <2>2. CASE MarkClosed(p)
    <3>1. /\ log' = log /\ DOMAIN segs' = DOMAIN segs
          /\ \A x \in DOMAIN segs :
                /\ segs'[x].sum = segs[x].sum
                /\ segs[x].early => segs'[x].early
      BY <2>2, MarkFacts DEF Dated
    <3>2. QED
      BY <3>1, CountsFrame
  <2>3. CASE EraseSegment(p)
    BY <2>3, CountsErase
  <2>4. QED
    BY <1>4, <2>1, <2>2, <2>3 DEF CloserStep
<1>5. UNCHANGED store => SegmentCounts'
  BY CountsFrame DEF store
<1>6. QED
  BY <1>1, <1>2, <1>3, <1>4, <1>5 DEF Next, AppendStep

-----------------------------------------------------------------------------
(***************************************************************************)
(* The invariant, and the theorems about the log.                          *)
(***************************************************************************)

LEMMA InitInv == Init => Inv
<1> SUFFICES ASSUME Init PROVE Inv
  OBVIOUS
<1>1. Base
  BY InitBase
<1>2. DOMAIN log = {} /\ DOMAIN segs = {} /\ DOMAIN pending = {} /\ erased = {}
      /\ \A p \in Procs : run[p] = Idle
  BY DEF Init
<1>3. Chained
  BY <1>2 DEF Chained, Ids
<1>4. LogConsistent
  BY <1>2 DEF LogConsistent, ChainUnforked, SegmentCounts
<1>5. Dated
  BY <1>2, IdleType DEF Dated, Procs
<1>6. QED
  BY <1>1, <1>3, <1>4, <1>5 DEF Inv, Base

LEMMA InvParts ==
    /\ Inv => Base /\ Chain /\ SegmentCounts /\ Dated
    /\ Base /\ Chain /\ SegmentCounts /\ Dated => Inv
BY DEF Inv, Base, Chain, LogConsistent

LEMMA NextInv == Inv /\ [Next]_vars => Inv'
<1> SUFFICES ASSUME Inv, [Next]_vars PROVE Inv'
  OBVIOUS
<1>1. Base /\ Chain /\ SegmentCounts /\ Dated
  BY InvParts
<1>2. CASE Next
  <2>1. Base'
    BY <1>1, <1>2, BaseStep DEF Dated
  <2>2. Chain' /\ SegmentCounts' /\ Dated'
    BY <1>1, <1>2, ChainStep, CountsStep, DatedStep
  <2>3. QED
    BY <2>1, <2>2 DEF Inv, Base, Chain, LogConsistent
<1>3. CASE UNCHANGED vars
  <2>1. UNCHANGED <<log, sequence, erased, segs, r2, d1, today, alarmAt, gate, pending, run>>
    BY <1>3 DEF vars, store, remote
  <2>2. Base'
    BY <1>1, <2>1 DEF Base, Types, TypeOK, Gated
  <2>3. Chain'
    BY <1>1, <2>1, ChainFrame
  <2>4. SegmentCounts'
    BY <1>1, <2>1, CountsFrame
  <2>5. Dated'
    <3>1. \A d : Closed(d)' = Closed(d)
      BY <2>1 DEF Closed
    <3>2. QED
      BY <1>1, <2>1, <3>1 DEF Dated
  <2>6. QED
    BY <2>2, <2>3, <2>4, <2>5 DEF Inv, Base, Chain, LogConsistent
<1>4. QED
  BY <1>2, <1>3

THEOREM Invariance == Spec => []Inv
BY InitInv, NextInv, PTL DEF Spec

\* The tables, the gate and the executions of the ledger keep their types.
THEOREM AuditTypeCorrect == Spec => []TypeOK
<1>1. Inv => TypeOK
  BY DEF Inv, Types
<1>2. QED
  BY <1>1, Invariance, PTL

\* The hash chain never forks and the rows of the segments describe their events (of one
\* that a request closed on its own day those up to its closing), whatever dates requests
\* bring and however alarm() interleaves with them, through every failure and every reset.
THEOREM LogKept == Spec => []LogConsistent
<1>1. Inv => LogConsistent
  BY DEF Inv
<1>2. QED
  BY <1>1, Invariance, PTL

\* What a step may do to the events of a segment.
ErasedWhole(d) ==
    EventsOf(d) \ EventsOf(d)' # {} =>
        /\ Closed(d) /\ EventsOf(d)' = {}
        /\ gate # "request" => d + Retain < today
        /\ d \in DOMAIN r2 /\ d \in DOMAIN d1

FrozenPast(d) == Closed(d) /\ d < today => Frozen(d)

\* A step that leaves the events alone and reopens no segment.
LEMMA EventsFrame ==
    ASSUME log' = log, \A x : Closed(x) => Closed(x)'
    PROVE  \A d : FrozenPast(d) /\ ErasedWhole(d)
<1>1. \A d : EventsOf(d)' = EventsOf(d)
  BY DEF EventsOf, Rows
<1>2. QED
  BY <1>1 DEF FrozenPast, Frozen, ErasedWhole

LEMMA EventsInsert ==
    ASSUME Base, Dated, NEW e \in DOMAIN pending, InsertEvent(e)
    PROVE  \A d : FrozenPast(d) /\ ErasedWhole(d)
<1> DEFINE n == sequence + 1
<1>0. today \in Int
  BY Numbers
<1>1. PICK x \in Days :
              /\ x = SegmentFor(pending[e].occ)
              /\ DOMAIN log' = DOMAIN log \cup {n} /\ n \notin DOMAIN log
              /\ \A i \in DOMAIN log : log'[i] = log[i]
              /\ segs' = Counted(x, e) /\ e \in Events
              /\ pending[e].at = "hash"
  BY InsertFacts
<1>2. log'[n].id = e /\ log'[n].seg = x
  <2>1. log'[n] = [id |-> e, seg |-> x, prev |-> pending[e].prev]
    BY <1>1, InsertFacts
  <2>2. QED
    BY <2>1
<1> HIDE DEF n
<1>3. Closed(x) => x = today
  BY <1>1, Destination
<1>4. \A d : d # x => EventsOf(d)' = EventsOf(d)
  <2>1. \A d : d # x => Rows(d)' = Rows(d) /\ \A i \in Rows(d) : log'[i] = log[i]
    BY <1>1, <1>2 DEF Rows
  <2>2. QED
    BY <2>1 DEF EventsOf
<1>5. EventsOf(x) \subseteq EventsOf(x)'
  <2>1. \A i \in Rows(x) : i \in Rows(x)' /\ log'[i] = log[i]
    BY <1>1 DEF Rows
  <2>2. QED
    BY <2>1 DEF EventsOf
<1>6. \A d : Closed(d) => Closed(d)'
  <2>1. DOMAIN segs' = DOMAIN segs \cup {x} /\ \A d \in DOMAIN segs : d # x => segs'[d] = segs[d]
    BY <1>1, CountedFacts DEF Base
  <2>2. Closed(x) => segs' = segs
    BY <1>1, CountedFacts DEF Base
  <2>3. QED
    BY <2>1, <2>2 DEF Closed
<1>7. \A d : FrozenPast(d)
  <2> SUFFICES ASSUME NEW d, Closed(d), d < today PROVE Frozen(d)
    BY DEF FrozenPast
  <2>1. d # today
    BY <1>0
  <2>2. QED
    BY <1>3, <1>4, <1>6, <2>1 DEF Frozen
<1>8. \A d : ErasedWhole(d)
  BY <1>4, <1>5 DEF ErasedWhole
<1>9. QED
  BY <1>7, <1>8

LEMMA EventsErase ==
    ASSUME Base, Dated, NEW p \in Procs, EraseSegment(p)
    PROVE  \A d : FrozenPast(d) /\ ErasedWhole(d)
<1>1. PICK x \in run[p].erase :
              \/ UNCHANGED store
              \/ /\ x \in DOMAIN d1 /\ x \in DOMAIN r2
                 /\ DOMAIN log' = Kept(x) /\ \A i \in Kept(x) : log'[i] = log[i]
                 /\ DOMAIN segs' = {y \in DOMAIN segs : ~(y = x /\ Closed(x))}
                 /\ \A y \in DOMAIN segs' : segs'[y] = segs[y]
  BY EraseFacts
<1>2. CASE UNCHANGED store
  <2>1. log' = log /\ segs' = segs
    BY <1>2 DEF store
  <2>2. QED
    BY <2>1, EventsFrame DEF Closed
<1>3. CASE ~UNCHANGED store
  <2>1. \A d : d # x => EventsOf(d)' = EventsOf(d)
    <3>1. \A d : d # x => Rows(d)' = Rows(d) /\ \A i \in Rows(d) : log'[i] = log[i]
      BY <1>1, <1>3 DEF Rows, Kept
    <3>2. QED
      BY <3>1 DEF EventsOf
  <2>2. EventsOf(x)' = {}
    BY <1>1, <1>3 DEF EventsOf, Rows, Kept
  <2>3. \A d : d # x /\ Closed(d) => Closed(d)'
    BY <1>1, <1>3 DEF Closed
  <2>4. /\ gate # "request" => x + Retain < today
        /\ x \in DOMAIN segs => Closed(x)
    BY DEF Dated, Procs
  <2>5. EventsOf(x) # {} => x \in DOMAIN segs
    BY DEF EventsOf, Rows, Base, Types, TypeOK
  <2>6. \A d : FrozenPast(d)
    BY <1>1, <1>3, <2>1, <2>2, <2>3 DEF FrozenPast, Frozen
  <2>7. \A d : ErasedWhole(d)
    BY <1>1, <1>3, <2>1, <2>2, <2>4, <2>5 DEF ErasedWhole
  <2>8. QED
    BY <2>6, <2>7
<1>4. QED
  BY <1>2, <1>3

LEMMA EventsStep ==
    ASSUME Inv, [Next]_vars
    PROVE  \A d : FrozenPast(d) /\ ErasedWhole(d)
<1>1. Base /\ Dated
  BY InvParts
<1> DEFINE Calm == log' = log /\ \A x : Closed(x) => Closed(x)'
           Goal == \A d : FrozenPast(d) /\ ErasedWhole(d)
<1>2. UNCHANGED store => Calm
  BY DEF store, Closed
<1>3. Calm => Goal
  BY EventsFrame
<1>4. ASSUME NEW e \in Events, NEW occ \in Occurred, BeginAppend(e, occ) PROVE UNCHANGED store
  BY <1>4 DEF BeginAppend
<1>5. ASSUME NEW e \in DOMAIN pending, InsertEvent(e) \/ ArmAlarm(e)
      PROVE  UNCHANGED store \/ Goal
  BY <1>1, <1>5, EventsInsert DEF ArmAlarm
<1>6. ASSUME StartAlarm \/ Requested \/ AlarmFails \/ Reset \/ Tick
             \/ UNCHANGED vars
      PROVE  UNCHANGED store
  BY <1>6 DEF StartAlarm, Requested, RequestClose, RequestRetention, AlarmFails, Reset, Tick, vars
<1>7. ASSUME NEW p \in Procs, CloserStep(p) PROVE UNCHANGED store \/ Calm \/ Goal
  <2>1. CASE PutCheckpoint(p) \/ RecordCheckpoint(p) \/ CloseDone(p) \/ EraseDone(p)
    BY <2>1 DEF PutCheckpoint, RecordCheckpoint, CloseDone, EraseDone
  <2>2. CASE MarkClosed(p)
    <3>1. /\ log' = log /\ DOMAIN segs' = DOMAIN segs
          /\ \A x \in DOMAIN segs :
                segs'[x].status = IF x = FirstDue(p) THEN "closed" ELSE segs[x].status
      BY <1>1, <2>2, MarkFacts
    <3>2. QED
      BY <3>1 DEF Closed
  <2>3. CASE EraseSegment(p)
    BY <1>1, <2>3, EventsErase
  <2>4. QED
    BY <1>7, <2>1, <2>2, <2>3 DEF CloserStep
<1> HIDE DEF Calm, Goal
<1>8. Goal
  BY <1>2, <1>3, <1>4, <1>5, <1>6, <1>7 DEF Next, AppendStep
<1>9. QED
  BY <1>8 DEF Goal

\* Once its day is over a closed segment gains and loses no event, except by its erasure as
\* a whole.  (On its own day it gains some: CheckpointedIsImmutable does not hold.)
THEOREM ClosedStaysFrozen == Spec => ClosedIsFrozen
<1> DEFINE Step == \A d \in DOMAIN segs : FrozenPast(d)
<1>1. Inv /\ [Next]_vars => [Step]_vars
  BY EventsStep
<1>2. Spec => [][Step]_vars
  BY <1>1, Invariance, PTL DEF Spec
<1>3. QED
  BY <1>2 DEF ClosedIsFrozen, FrozenPast

\* Events leave the ledger only with their whole segment, closed and checkpointed in both
\* stores, and by alarm() only past its retention period.  (A request erases before whatever
\* date its caller gives: ErasedAfterRetention does not hold.)
THEOREM ErasedCheckpointed == Spec => ErasedOnlyWhenCheckpointed
<1> DEFINE Step == \A d \in DOMAIN segs : ErasedWhole(d)
<1>1. Inv /\ [Next]_vars => [Step]_vars
  BY EventsStep
<1>2. Spec => [][Step]_vars
  BY <1>1, Invariance, PTL DEF Spec
<1>3. QED
  BY <1>2 DEF ErasedOnlyWhenCheckpointed, ErasedWhole

-----------------------------------------------------------------------------
(***************************************************************************)
(* Events that arrive on their day, and their checkpoints.                 *)
(***************************************************************************)

\* The tables and the stores stay; an execution stays or carries a true snapshot of which
\* nothing has been written yet.
LEMMA SnappedQuiet ==
    ASSUME PunctualInv, UNCHANGED <<segs, r2, d1>>,
           \A q \in Procs :
              \/ run'[q] = run[q]
              \/ /\ run'[q].at \notin {"record", "mark"}
                 /\ \A d \in DOMAIN run'[q].todo \cap DOMAIN segs :
                       run'[q].todo[d] = segs[d].sum,
           \A e \in DOMAIN pending' : pending'[e].at = "hash" =>
              \A q \in Procs : pending'[e].occ \notin DOMAIN run'[q].todo
    PROVE  PunctualInv'
<1>1. \A q \in Procs : \A d \in DOMAIN run'[q].todo \cap DOMAIN segs' :
         run'[q].todo[d] = segs'[d].sum
  BY DEF PunctualInv, Snapped
<1>2. ASSUME NEW q \in Procs, NEW d \in DOMAIN run'[q].todo \cap DOMAIN segs',
             d = FirstDue(q)'
      PROVE  Written(q, d)'
  <2>1. CASE run'[q] = run[q]
    <3>1. FirstDue(q)' = FirstDue(q)
      BY <2>1 DEF FirstDue
    <3>2. Written(q, d)
      BY <1>2, <2>1, <3>1 DEF PunctualInv, Snapped
    <3>3. QED
      BY <2>1, <3>2 DEF Written
  <2>2. CASE run'[q].at \notin {"record", "mark"}
    BY <2>2 DEF Written
  <2>3. QED
    BY <2>1, <2>2
<1>3. Snapped'
  BY <1>1, <1>2 DEF Snapped
<1>4. CheckpointVerifiable'
  BY DEF PunctualInv, CheckpointVerifiable, Closed
<1>5. QED
  BY <1>3, <1>4 DEF PunctualInv

LEMMA SnappedPut ==
    ASSUME Inv, PunctualInv, NEW p \in Procs, PutCheckpoint(p)
    PROVE  PunctualInv'
<1>1. Base /\ DOMAIN run[p].todo # {}
  BY InvParts DEF PutCheckpoint
<1>2. PICK c : c = FirstDue(p)
  OBVIOUS
<1>3. c \in DOMAIN run[p].todo
  BY <1>1, <1>2, FirstDueFacts DEF Base
<1>4. r2' = Put(r2, c, run[p].todo[c]) /\ UNCHANGED <<segs, d1, pending>>
  BY <1>2 DEF PutCheckpoint, store
<1>5. Moves(p, "record", run[p].todo, run[p].erase)
  BY <1>1, WriteMoves DEF Base
<1>6. \A q \in Procs : /\ run'[q].todo = run[q].todo
                       /\ FirstDue(q)' = FirstDue(q)
                       /\ q # p => run'[q].at = run[q].at
                       /\ q = p => run'[q].at = "record"
  BY <1>5 DEF Moves, FirstDue
<1>7. c \in DOMAIN segs => c \in DOMAIN r2' /\ r2'[c] = segs[c].sum
  BY <1>3, <1>4 DEF Put, PunctualInv, Snapped
<1>8. \A d : d # c => (d \in DOMAIN r2' <=> d \in DOMAIN r2) /\ (d \in DOMAIN r2 => r2'[d] = r2[d])
  BY <1>4 DEF Put
<1>9. ASSUME NEW q \in Procs, NEW d \in DOMAIN run[q].todo \cap DOMAIN segs, d = FirstDue(q)
      PROVE  Written(q, d)'
  <2>1. Written(q, d)
    BY <1>9 DEF PunctualInv, Snapped
  <2>2. CASE q = p
    BY <1>2, <1>4, <1>6, <1>7, <1>9, <2>2 DEF Written
  <2>3. CASE q # p
    BY <1>4, <1>6, <1>7, <1>8, <1>9, <2>1, <2>3 DEF Written
  <2>4. QED
    BY <2>2, <2>3
<1>10. Snapped'
  BY <1>4, <1>6, <1>9 DEF PunctualInv, Snapped
<1>11. CheckpointVerifiable'
  BY <1>4, <1>7, <1>8 DEF PunctualInv, CheckpointVerifiable, Closed
<1>12. QED
  BY <1>10, <1>11 DEF PunctualInv

LEMMA SnappedRecord ==
    ASSUME Inv, PunctualInv, NEW p \in Procs, RecordCheckpoint(p)
    PROVE  PunctualInv'
<1>1. Base /\ DOMAIN run[p].todo # {}
  BY InvParts DEF RecordCheckpoint, Base, Gated
<1>2. PICK c : c = FirstDue(p)
  OBVIOUS
<1>3. c \in DOMAIN run[p].todo
  BY <1>1, <1>2, FirstDueFacts DEF Base
<1>4. d1' = Put(d1, c, run[p].todo[c]) /\ UNCHANGED <<segs, r2, pending>>
      /\ run[p].at = "record"
  BY <1>2 DEF RecordCheckpoint, store
<1>5. Moves(p, "mark", run[p].todo, run[p].erase)
  BY <1>1, WriteMoves DEF Base
<1>6. \A q \in Procs : /\ run'[q].todo = run[q].todo
                       /\ FirstDue(q)' = FirstDue(q)
                       /\ q # p => run'[q].at = run[q].at
                       /\ q = p => run'[q].at = "mark"
  BY <1>5 DEF Moves, FirstDue
<1>7. c \in DOMAIN segs => c \in DOMAIN d1' /\ d1'[c] = segs[c].sum
  BY <1>3, <1>4 DEF Put, PunctualInv, Snapped
<1>8. \A d : d # c => (d \in DOMAIN d1' <=> d \in DOMAIN d1) /\ (d \in DOMAIN d1 => d1'[d] = d1[d])
  BY <1>4 DEF Put
<1>9. ASSUME NEW q \in Procs, NEW d \in DOMAIN run[q].todo \cap DOMAIN segs, d = FirstDue(q)
      PROVE  Written(q, d)'
  <2>1. Written(q, d)
    BY <1>9 DEF PunctualInv, Snapped
  <2>2. CASE q = p
    BY <1>2, <1>4, <1>6, <1>7, <1>9, <2>1, <2>2 DEF Written
  <2>3. CASE q # p
    BY <1>4, <1>6, <1>7, <1>8, <1>9, <2>1, <2>3 DEF Written
  <2>4. QED
    BY <2>2, <2>3
<1>10. Snapped'
  BY <1>4, <1>6, <1>9 DEF PunctualInv, Snapped
<1>11. CheckpointVerifiable'
  BY <1>4, <1>7, <1>8 DEF PunctualInv, CheckpointVerifiable, Closed
<1>12. QED
  BY <1>10, <1>11 DEF PunctualInv

LEMMA SnappedMark ==
    ASSUME Inv, PunctualInv, NEW p \in Procs, MarkClosed(p)
    PROVE  PunctualInv'
<1>1. Base
  BY InvParts
<1>2. /\ DOMAIN segs' = DOMAIN segs
      /\ \A x \in DOMAIN segs :
            /\ segs'[x].sum = segs[x].sum
            /\ segs'[x].status = IF x = FirstDue(p) THEN "closed" ELSE segs[x].status
      /\ FirstDue(p) \in DOMAIN run[p].todo /\ UNCHANGED <<r2, d1, pending>>
  BY <1>1, MarkFacts DEF remote
<1>3. run[p].at = "mark"
  BY DEF MarkClosed
<1>4. Moves(p, "put", Rest(p), run[p].erase)
  BY <1>1, WriteMoves DEF Base
<1>5. /\ DOMAIN Rest(p) \subseteq DOMAIN run[p].todo
      /\ \A x \in DOMAIN Rest(p) : Rest(p)[x] = run[p].todo[x]
  BY <1>1, RestFacts DEF Base
<1>6. \A q \in Procs : /\ q = p => run'[q].at = "put" /\ run'[q].todo = Rest(p)
                       /\ q # p => run'[q] = run[q] /\ FirstDue(q)' = FirstDue(q)
  BY <1>4 DEF Moves, FirstDue
<1>7. ASSUME NEW q \in Procs, NEW d \in DOMAIN run'[q].todo \cap DOMAIN segs'
      PROVE  /\ run'[q].todo[d] = segs'[d].sum
             /\ d = FirstDue(q)' => Written(q, d)'
  <2>1. CASE q = p
    BY <1>2, <1>5, <1>6, <1>7, <2>1 DEF PunctualInv, Snapped, Written
  <2>2. CASE q # p
    BY <1>2, <1>6, <1>7, <2>2 DEF PunctualInv, Snapped, Written
  <2>3. QED
    BY <2>1, <2>2
<1>8. \A e \in DOMAIN pending' : pending'[e].at = "hash" =>
         \A q \in Procs : pending'[e].occ \notin DOMAIN run'[q].todo
  BY <1>2, <1>5, <1>6 DEF PunctualInv, Snapped
<1>9. Snapped'
  BY <1>7, <1>8 DEF Snapped
<1>10. FirstDue(p) \in DOMAIN segs => Written(p, FirstDue(p))
  BY <1>2 DEF PunctualInv, Snapped
<1>11. CheckpointVerifiable'
  BY <1>2, <1>3, <1>10 DEF PunctualInv, CheckpointVerifiable, Closed, Written
<1>12. QED
  BY <1>9, <1>11 DEF PunctualInv

\* The rows an execution still has in its snapshot do not change when other rows do.
LEMMA SnappedTables ==
    ASSUME PunctualInv, UNCHANGED <<r2, d1>>,
           \A q \in Procs : run'[q].todo = run[q].todo /\ run'[q].at = run[q].at,
           \A q \in Procs : \A d \in DOMAIN run[q].todo :
              d \in DOMAIN segs' => d \in DOMAIN segs /\ segs'[d] = segs[d],
           \A d : Closed(d)' => Closed(d) /\ segs'[d] = segs[d],
           \A e \in DOMAIN pending' : pending'[e].at # "hash"
    PROVE  PunctualInv'
<1>1. \A q \in Procs : FirstDue(q)' = FirstDue(q)
  BY DEF FirstDue
<1>2. Snapped'
  BY <1>1 DEF PunctualInv, Snapped, Written
<1>3. CheckpointVerifiable'
  BY DEF PunctualInv, CheckpointVerifiable, Closed
<1>4. QED
  BY <1>2, <1>3 DEF PunctualInv

LEMMA SnappedInsert ==
    ASSUME Inv, PunctualInv, NEW e \in DOMAIN pending, InsertEvent(e)
    PROVE  PunctualInv'
<1>1. Base /\ Dated
  BY InvParts
<1>2. PICK x \in Days :
              /\ x = SegmentFor(pending[e].occ)
              /\ segs' = Counted(x, e) /\ e \in Events
              /\ pending[e].at = "hash"
              /\ DOMAIN pending' = {e} /\ pending'[e].at = "alarm"
              /\ UNCHANGED <<remote, run>>
  BY <1>1, InsertFacts
<1>3. CASE Closed(x)
  <2>1. segs' = segs /\ r2' = r2 /\ d1' = d1 /\ run' = run
    BY <1>1, <1>2, <1>3, CountedFacts DEF Base, remote
  <2>2. \A d : Closed(d)' = Closed(d)
    BY <2>1 DEF Closed
  <2>3. QED
    BY <1>2, <2>1, <2>2, SnappedTables
<1> SUFFICES ASSUME ~Closed(x) PROVE PunctualInv'
  BY <1>3
<1>4. \A q \in Procs : x \notin DOMAIN run[q].todo
  <2>1. \A q \in Procs : pending[e].occ \notin DOMAIN run[q].todo
    BY <1>2 DEF PunctualInv, Snapped
  <2>2. today \notin DOMAIN run["alarm"].todo
    BY <1>1, Numbers DEF Dated
  <2>3. DOMAIN run["request"].todo = {}
    BY <1>1 DEF Dated, Base, Gated
  <2>4. QED
    BY <1>2, <2>1, <2>2, <2>3 DEF SegmentFor, Procs
<1>5. DOMAIN segs' = DOMAIN segs \cup {x} /\ \A d \in DOMAIN segs : d # x => segs'[d] = segs[d]
  BY <1>1, <1>2, CountedFacts DEF Base
<1>6. ~Closed(x)'
  <2>1. CASE x \notin DOMAIN segs
    <3>1. segs'[x] = Fresh(e)
      BY <1>1, <1>2, <2>1, CountedFacts DEF Base
    <3>2. Fresh(e).status = "active"
      BY DEF Fresh
    <3>3. QED
      BY <3>1, <3>2 DEF Closed
  <2>2. CASE x \in DOMAIN segs
    <3>1. segs'[x].status = segs[x].status
      BY <1>1, <1>2, <2>2, CountedFacts DEF Base
    <3>2. QED
      BY <2>2, <3>1 DEF Closed
  <2>3. QED
    BY <2>1, <2>2
<1>7. \A d : Closed(d)' => Closed(d) /\ segs'[d] = segs[d]
  BY <1>5, <1>6 DEF Closed
<1>8. r2' = r2 /\ d1' = d1 /\ run' = run /\ \A f \in DOMAIN pending' : pending'[f].at # "hash"
  BY <1>2 DEF remote
<1>9. \A q \in Procs : \A d \in DOMAIN run[q].todo :
         d \in DOMAIN segs' => d \in DOMAIN segs /\ segs'[d] = segs[d]
  BY <1>4, <1>5
<1>10. QED
  BY <1>7, <1>8, <1>9, SnappedTables

LEMMA SnappedErase ==
    ASSUME Inv, PunctualInv, NEW p \in Procs, EraseSegment(p)
    PROVE  PunctualInv'
<1>1. Base
  BY InvParts
<1>2. PICK x \in run[p].erase :
              /\ Moves(p, run[p].at, run[p].todo, run[p].erase \ {x})
              /\ DOMAIN pending = {} /\ pending' = pending /\ UNCHANGED remote
              /\ \/ UNCHANGED store
                 \/ /\ DOMAIN segs' = {y \in DOMAIN segs : ~(y = x /\ Closed(x))}
                    /\ \A y \in DOMAIN segs' : segs'[y] = segs[y]
  BY <1>1, EraseFacts
<1>3. DOMAIN segs' \subseteq DOMAIN segs /\ \A y \in DOMAIN segs' : segs'[y] = segs[y]
  BY <1>2 DEF store
<1>4. \A d : Closed(d)' => Closed(d) /\ segs'[d] = segs[d]
  BY <1>3 DEF Closed
<1>5. \A q \in Procs : run'[q].todo = run[q].todo /\ run'[q].at = run[q].at
  BY <1>2 DEF Moves
<1>6. r2' = r2 /\ d1' = d1
  BY <1>2 DEF remote
<1>7. QED
  BY <1>2, <1>3, <1>4, <1>5, <1>6, SnappedTables

LEMMA SnappedBegin ==
    ASSUME Inv, PunctualInv, Late = 0, NEW e \in Events, NEW occ \in Occurred,
           BeginAppend(e, occ)
    PROVE  PunctualInv'
<1>1. Base /\ Dated
  BY InvParts
<1>2. /\ DOMAIN pending' = {e}
      /\ pending'[e] = [occ |-> occ, prev |-> LastHash, at |-> "hash"]
      /\ UNCHANGED <<segs, r2, d1, run>>
  BY <1>1, BeginFacts DEF store, remote
<1>3. occ = today
  BY <1>1, Numbers DEF Occurred
<1>4. \A q \in Procs : occ \notin DOMAIN run[q].todo
  <2>1. today \notin DOMAIN run["alarm"].todo
    BY <1>1, Numbers DEF Dated
  <2>2. DOMAIN run["request"].todo = {}
    BY <1>1 DEF Dated, BeginAppend
  <2>3. QED
    BY <1>3, <2>1, <2>2 DEF Procs
<1>5. QED
  BY <1>2, <1>4, SnappedQuiet

LEMMA SnappedStart ==
    ASSUME Inv, PunctualInv,
           \/ StartAlarm \/ Requested \/ AlarmFails
           \/ \E p \in Procs : CloseDone(p) \/ EraseDone(p)
    PROVE  PunctualInv'
<1>1. Base
  BY InvParts
<1>2. UNCHANGED <<segs, r2, d1, pending>>
  BY DEF StartAlarm, Requested, RequestClose, RequestRetention, AlarmFails, CloseDone, EraseDone,
         store, remote
<1>3. PICK p, a, T, E :
              /\ p \in Procs /\ a \in {"idle", "put", "erase"}
              /\ Moves(p, a, T, E)
              /\ \/ T = run[p].todo
                 \/ (\E c : T = Closable(c)) /\ DOMAIN pending = {}
                 \/ DOMAIN T = {}
  <2>1. CASE StartAlarm
    BY <1>1, <2>1, StartMoves DEF Base, Gated, Procs, StartAlarm
  <2>2. ASSUME NEW c \in Days, RequestClose(c)
        PROVE  Moves("request", "put", Closable(c), {}) /\ DOMAIN pending = {}
    BY <1>1, <2>2, RequestMoves DEF Base, Gated, RequestClose
  <2>3. ASSUME NEW c \in CallerDates, RequestRetention(c)
        PROVE  /\ Moves("request", "erase", run'["request"].todo, Erasable(c))
               /\ DOMAIN run'["request"].todo = {}
    BY <1>1, <2>3, RequestMoves DEF Base
  <2>4. CASE AlarmFails
    BY <1>1, <2>4, EndMoves, IdleType DEF Base, Procs, AlarmFails
  <2>5. ASSUME NEW p \in Procs, CloseDone(p)
        PROVE  \/ Moves(p, "erase", run[p].todo, Erasable(Cutoff))
               \/ Moves(p, "idle", Idle.todo, {})
    BY <1>1, <2>5, CloseMoves DEF Base
  <2>6. ASSUME NEW p \in Procs, EraseDone(p)
        PROVE  Moves(p, "idle", Idle.todo, {})
    BY <1>1, <2>6, EndMoves DEF Base, EraseDone
  <2>7. QED
    <3>1. CASE \E p \in Procs : CloseDone(p) \/ EraseDone(p)
      <4>1. PICK p \in Procs : \/ Moves(p, "erase", run[p].todo, Erasable(Cutoff))
                              \/ Moves(p, "idle", Idle.todo, {})
        BY <2>5, <2>6, <3>1
      <4>2. CASE Moves(p, "erase", run[p].todo, Erasable(Cutoff))
        BY <4>2
      <4>3. CASE Moves(p, "idle", Idle.todo, {})
        BY <4>3, IdleType
      <4>4. QED
        BY <4>1, <4>2, <4>3
    <3>2. QED
      BY <2>1, <2>2, <2>3, <2>4, <3>1 DEF Requested, Procs
<1>4. \A q \in Procs : q # p => run'[q] = run[q]
  BY <1>3 DEF Moves
<1>5. run'[p].at \notin {"record", "mark"} /\ run'[p].todo = T
  BY <1>3 DEF Moves
<1>6. \A d \in DOMAIN T \cap DOMAIN segs : T[d] = segs[d].sum
  BY <1>3 DEF Closable, PunctualInv, Snapped
<1>7. \A e \in DOMAIN pending : pending[e].at = "hash" =>
         \A q \in Procs : pending[e].occ \notin DOMAIN run'[q].todo
  BY <1>3, <1>4, <1>5 DEF PunctualInv, Snapped
<1>8. QED
  BY <1>2, <1>4, <1>5, <1>6, <1>7, SnappedQuiet

LEMMA SnappedRest ==
    ASSUME Inv, PunctualInv,
           Reset \/ Tick \/ UNCHANGED vars \/ \E e \in DOMAIN pending : ArmAlarm(e)
    PROVE  PunctualInv'
<1>1. UNCHANGED <<segs, r2, d1>>
  BY DEF Reset, Tick, vars, ArmAlarm, store, remote
<1>2. \A e \in DOMAIN pending' : e \in DOMAIN pending /\ pending'[e] = pending[e]
  BY DEF Reset, Tick, vars, ArmAlarm
<1>3. \A q \in Procs : run'[q] = run[q] \/ run'[q] = Idle
  BY DEF Reset, Tick, vars, ArmAlarm
<1>4. Idle.at \notin {"record", "mark"} /\ DOMAIN Idle.todo = {}
  BY IdleType DEF Idle
<1>5. \A e \in DOMAIN pending' : pending'[e].at = "hash" =>
         \A q \in Procs : pending'[e].occ \notin DOMAIN run'[q].todo
  BY <1>2, <1>3, <1>4 DEF PunctualInv, Snapped
<1>6. QED
  BY <1>1, <1>3, <1>4, <1>5, SnappedQuiet

LEMMA SnappedStep ==
    ASSUME Inv, PunctualInv, Late = 0, [Next]_vars
    PROVE  PunctualInv'
<1>1. ASSUME NEW e \in Events, NEW occ \in Occurred, BeginAppend(e, occ)
      PROVE  PunctualInv'
  BY <1>1, SnappedBegin
<1>2. ASSUME NEW e \in DOMAIN pending, InsertEvent(e) \/ ArmAlarm(e)
      PROVE  PunctualInv'
  BY <1>2, SnappedInsert, SnappedRest
<1>3. CASE StartAlarm \/ Requested \/ AlarmFails
  BY <1>3, SnappedStart
<1>4. ASSUME NEW p \in Procs, CloserStep(p) PROVE PunctualInv'
  <2>1. CASE CloseDone(p) \/ EraseDone(p)
    BY <2>1, SnappedStart
  <2>2. CASE PutCheckpoint(p) \/ RecordCheckpoint(p) \/ MarkClosed(p) \/ EraseSegment(p)
    BY <2>2, SnappedPut, SnappedRecord, SnappedMark, SnappedErase
  <2>3. QED
    BY <1>4, <2>1, <2>2 DEF CloserStep
<1>5. CASE Reset \/ Tick \/ UNCHANGED vars
  BY <1>5, SnappedRest
<1>6. QED
  BY <1>1, <1>2, <1>3, <1>4, <1>5 DEF Next, AppendStep

\* When every event arrives on its day (Late = 0), what R2 and D1 hold of a closed segment
\* is what is stored of it.  With Late > 0 it is not so: run audit_late_event.
THEOREM CheckpointsMatch == Late = 0 => (Spec => []CheckpointVerifiable)
<1> SUFFICES ASSUME Late = 0 PROVE Spec => []CheckpointVerifiable
  OBVIOUS
<1>1. Init => PunctualInv
  <2> SUFFICES ASSUME Init PROVE PunctualInv
    OBVIOUS
  <2>1. DOMAIN segs = {} /\ DOMAIN pending = {}
    BY DEF Init
  <2>2. QED
    BY <2>1 DEF PunctualInv, Snapped, CheckpointVerifiable
<1>2. Inv /\ PunctualInv /\ [Next]_vars => PunctualInv'
  BY SnappedStep
<1>3. PunctualInv => CheckpointVerifiable
  BY DEF PunctualInv
<1>4. QED
  BY <1>1, <1>2, <1>3, Invariance, PTL DEF Spec

=============================================================================
