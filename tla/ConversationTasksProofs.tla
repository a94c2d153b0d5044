---------------------- MODULE ConversationTasksProofs ----------------------
(***************************************************************************)
(* Proofs about ConversationTasks: its types, that the stored alarm is the *)
(* earliest task's, and that missed occurrences are not replayed.          *)
(***************************************************************************)
EXTENDS ConversationTasks, FiniteSetTheorems, FunctionTheorems, TLAPS

-----------------------------------------------------------------------------
(* What the operators return.                                              *)

LEMMA NextRunLater ==
    ASSUME NEW s \in Schedules, NEW after \in Nat, NEW n \in NextRun(s, after)
    PROVE  n \in Nat /\ (n # Never => n > after)
BY TasksAssumption DEF NextRun, Never

LEMMA RearmedType ==
    ASSUME row' \in [Tasks -> Rows], now \in Nat, Rearmed
    PROVE  alarm' \in Nat
BY DEF Rearmed, ArmedIn, Later, Never, Rows

\* The snapshot of a batch: one occurrence per task, as many as tasks.
LEMMA SnapshotFacts ==
    ASSUME TypeOK, NEW B \in Batch, NEW S, S = Snapshot(B)
    PROVE  /\ S \subseteq Occurrences
           /\ \A o \in S : o.task \in Due /\ o.at = row[o.task].next
           /\ \A o, p \in S : o.task = p.task => o = p
           /\ IsFiniteSet(S) /\ Cardinality(S) <= Limit
<1>1. B \subseteq Tasks /\ B \subseteq Due
  BY DEF Batch, Due, ArmedIn
<1>2. S \subseteq Occurrences
  BY <1>1 DEF Snapshot, Occurrences, TypeOK, Rows
<1>3. /\ \A o \in S : o.task \in Due /\ o.at = row[o.task].next
      /\ \A o, p \in S : o.task = p.task => o = p
  BY <1>1 DEF Snapshot
<1>4. IsFiniteSet(B) /\ Cardinality(B) <= Limit
  BY <1>1, TasksAssumption, FS_Subset DEF Batch
<1>5. IsFiniteSet(S) /\ Cardinality(S) <= Cardinality(B)
  <2> DEFINE f == [t \in B |-> [task |-> t, at |-> row[t].next, schedule |-> row[t].schedule]]
  <2>1. f \in Surjection(B, S)
    BY DEF Surjection, Snapshot
  <2>2. QED
    BY <1>4, <2>1, FS_Surjection
<1>6. QED
  BY <1>2, <1>3, <1>4, <1>5, FS_CardinalityType, TasksAssumption

\* What Begin leaves for later.
LEMMA BeginFacts ==
    ASSUME NEW S \in SUBSET Occurrences, Begin(S), IsFiniteSet(S)
    PROVE  /\ current' \in S /\ current' # None
           /\ rest' = S \ {current'}
           /\ begun' = begun \cup {[task |-> current'.task, at |-> current'.at]}
           /\ IsFiniteSet(rest') /\ Cardinality(rest') < Cardinality(S)
<1>1. /\ current' \in S
      /\ rest' = S \ {current'}
      /\ begun' = begun \cup {[task |-> current'.task, at |-> current'.at]}
  BY DEF Begin
<1>2. current' # None
  BY <1>1, NoneAssumption DEF Occurrences
<1>3. /\ IsFiniteSet(rest')
      /\ Cardinality(rest') = Cardinality(S) - 1
  BY <1>1, FS_RemoveElement
<1>4. QED
  BY <1>1, <1>2, <1>3, FS_CardinalityType

-----------------------------------------------------------------------------
(* Types.                                                                  *)

FiniteRest == IsFiniteSet(rest)

Types == TypeOK /\ FiniteRest

LEMMA TypesInit == Init => Types
<1> SUFFICES ASSUME Init PROVE Types
  OBVIOUS
<1>1. row \in [Tasks -> Rows]
  BY TasksAssumption DEF Init, Rows, Never
<1>2. /\ current \in Occurrences \cup {None} /\ rest \subseteq Occurrences
      /\ begun \subseteq [task : Tasks, at : Nat]
      /\ executed \subseteq [task : Tasks, at : Nat, moment : 0..now]
  BY DEF Init
<1>3. /\ now \in 0..MaxNow /\ started \in 0..now /\ resets \in 0..MaxResets
      /\ alarm \in Nat
  BY TasksAssumption DEF Init, Never
<1>4. TypeOK
  BY <1>1, <1>2, <1>3 DEF Init, TypeOK
<1>5. FiniteRest
  BY FS_EmptySet DEF Init, FiniteRest
<1>6. QED
  BY <1>4, <1>5 DEF Types

LEMMA RequestTypes ==
    ASSUME Types, NEW k \in Keys, Request(k), row' \in [Tasks -> Rows]
    PROVE  Types'
<1>1. alarm' \in Nat
  BY RearmedType DEF Request, Types, TypeOK
<1>2. QED
  BY <1>1 DEF Request, Types, TypeOK, FiniteRest, alarmVars

LEMMA OwnerTypes == ASSUME Types, OwnerRequest PROVE Types'
<1> USE DEF Types, TypeOK
<1>1. ASSUME NEW k \in Keys, NEW t \in Tasks, NEW s \in Schedules, NEW e \in BOOLEAN,
             CreateTask(k, t, s, e)
      PROVE  row' \in [Tasks -> Rows] /\ Request(k)
  BY <1>1, NextRunLater DEF CreateTask, Rows, Never
<1>2. ASSUME NEW k \in Keys, NEW t \in Tasks, NEW s \in Schedules, NEW e \in BOOLEAN,
             NEW st \in {"pending", "completed"}, UpdateTask(k, t, s, e, st)
      PROVE  row' \in [Tasks -> Rows] /\ Request(k)
  BY <1>2, NextRunLater DEF UpdateTask, Rows, Never
<1>3. ASSUME NEW k \in Keys, NEW t \in Tasks, DeleteTask(k, t)
      PROVE  row' \in [Tasks -> Rows] /\ Request(k)
  BY <1>3 DEF DeleteTask, Rows
<1>4. QED
  BY <1>1, <1>2, <1>3, RequestTypes DEF OwnerRequest

LEMMA AlarmTypes == ASSUME Types, AlarmFires PROVE Types'
<1> USE DEF Types, TypeOK, FiniteRest
<1>1. PICK B \in (IF db = "open" THEN Batch ELSE {{}}) :
          IF B = {}
          THEN Rearmed /\ UNCHANGED alarmVars
          ELSE Begin(Snapshot(B)) /\ alarm' = Never /\ started' = now /\ UNCHANGED executed
  BY DEF AlarmFires
<1>2. CASE B = {}
  <2>1. alarm' \in Nat
    BY <1>1, <1>2, RearmedType DEF AlarmFires
  <2>2. UNCHANGED <<alarmVars, now, db, row, answered, resets>> /\ retry' = FALSE
    BY <1>1, <1>2 DEF AlarmFires
  <2>3. QED
    BY <2>1, <2>2 DEF alarmVars
<1>3. CASE B # {}
  <2>1. B \in Batch
    BY <1>3
  <2>2. /\ Snapshot(B) \subseteq Occurrences
        /\ IsFiniteSet(Snapshot(B)) /\ Cardinality(Snapshot(B)) <= Limit
    BY <2>1, SnapshotFacts
  <2>3. /\ current' \in Snapshot(B) /\ current' # None
        /\ rest' = Snapshot(B) \ {current'}
        /\ begun' = begun \cup {[task |-> current'.task, at |-> current'.at]}
        /\ IsFiniteSet(rest') /\ Cardinality(rest') < Cardinality(Snapshot(B))
    BY <1>1, <1>3, <2>2, BeginFacts
  <2>4. Cardinality(rest') < Limit
    BY <2>2, <2>3, FS_CardinalityType, TasksAssumption
  <2>5. begun' \subseteq [task : Tasks, at : Nat]
    BY <2>2, <2>3 DEF Occurrences
  <2>6. /\ alarm' = Never /\ started' = now /\ retry' = FALSE
        /\ UNCHANGED <<now, db, row, answered, resets, executed>>
    BY <1>1, <1>3 DEF AlarmFires
  <2>7. /\ current' \in Occurrences /\ rest' \subseteq Occurrences
        /\ current' # None /\ IsFiniteSet(rest')
    BY <2>2, <2>3
  <2>8. started' \in 0..now' /\ alarm' \in Nat
    BY <2>6 DEF Never
  <2>9. executed' \subseteq [task : Tasks, at : Nat, moment : 0..now']
    BY <2>6
  <2>10. QED
    BY <2>4, <2>5, <2>6, <2>7, <2>8, <2>9
<1>4. QED
  BY <1>2, <1>3

LEMMA RunnerTypes == ASSUME Types, NEW ok \in BOOLEAN, RunnerAnswers(ok) PROVE Types'
<1> USE DEF Types, TypeOK, FiniteRest
<1>1. current \in Occurrences
  BY DEF RunnerAnswers
<1>2. row' \in [Tasks -> Rows]
  <2>1. PICK n \in (IF current.schedule \in Recurring THEN NextRun(current.schedule, started)
                                                      ELSE {Never}) :
            row' = Recorded(current, ok, n)
    BY DEF RunnerAnswers
  <2>2. n \in Nat
    BY <1>1, <2>1, NextRunLater DEF Never, Occurrences
  <2>3. QED
    BY <1>1, <2>1, <2>2 DEF Recorded, Rows, Occurrences
<1>3. executed' \subseteq [task : Tasks, at : Nat, moment : 0..now]
  BY <1>1 DEF RunnerAnswers, Occurrences
<1>4. CASE rest = {}
  <2>1. alarm' \in Nat /\ current' = None /\ rest' = rest /\ begun' = begun
    BY <1>2, <1>4, RearmedType DEF RunnerAnswers, Continue
  <2>2. QED
    BY <1>2, <1>3, <1>4, <2>1 DEF RunnerAnswers
<1>5. CASE rest # {}
  <2>1. Begin(rest) /\ UNCHANGED alarm
    BY <1>5 DEF RunnerAnswers, Continue
  <2>2. /\ current' \in rest /\ current' # None
        /\ rest' = rest \ {current'}
        /\ begun' = begun \cup {[task |-> current'.task, at |-> current'.at]}
        /\ IsFiniteSet(rest') /\ Cardinality(rest') < Cardinality(rest)
    BY <2>1, BeginFacts
  <2>3. Cardinality(rest') < Limit
    BY <2>2, FS_CardinalityType, TasksAssumption DEF RunnerAnswers
  <2>4. begun' \subseteq [task : Tasks, at : Nat]
    BY <2>2 DEF Occurrences
  <2>5. QED
    BY <1>2, <1>3, <2>1, <2>2, <2>3, <2>4 DEF RunnerAnswers
<1>6. QED
  BY <1>4, <1>5

LEMMA OtherTypes ==
    ASSUME Types, \/ Initialize \/ DeleteConversation \/ AlarmThrows \/ Reset \/ Tick
                  \/ UNCHANGED vars
    PROVE  Types'
<1> USE TasksAssumption DEF Types, TypeOK, FiniteRest, alarmVars
<1>1. CASE Initialize
  BY <1>1 DEF Initialize
<1>2. CASE DeleteConversation
  BY <1>2 DEF DeleteConversation, Rows, Exists, Never
<1>3. CASE AlarmThrows
  BY <1>3, FS_EmptySet DEF AlarmThrows
<1>4. CASE Reset
  BY <1>4, FS_EmptySet DEF Reset
<1>5. CASE Tick
  BY <1>5 DEF Tick
<1>6. CASE UNCHANGED vars
  BY <1>6 DEF vars
<1>7. QED
  BY <1>1, <1>2, <1>3, <1>4, <1>5, <1>6

LEMMA TypesStep == Types /\ [Next]_vars => Types'
BY OwnerTypes, AlarmTypes, RunnerTypes, OtherTypes DEF Next, RunnerReplies

LEMMA TypesInvariant == Spec => []Types
BY TypesInit, TypesStep, PTL DEF Spec

\* Every state has its type, and an alarm holds at most LIMIT tasks, however many tasks,
\* requests and resets there are.
THEOREM TypeInvariant == Spec => []TypeOK
BY TypesInvariant, PTL DEF Types

-----------------------------------------------------------------------------
(* The stored alarm.  Its invariant is inductive given the types: a step   *)
(* that changes a row sets the alarm in the same turn, or belongs to an    *)
(* alarm() that will.                                                      *)

LEMMA RearmedEarliest ==
    ASSUME TypeOK, row' \in [Tasks -> Rows], Rearmed, now' = now
    PROVE  AlarmIsEarliest'
BY DEF Rearmed, AlarmIsEarliest, ArmedIn, Later, Rows, TypeOK

LEMMA EarliestStep == Types /\ Types' /\ AlarmIsEarliest /\ [Next]_vars => AlarmIsEarliest'
<1> SUFFICES ASSUME Types, Types', AlarmIsEarliest, [Next]_vars PROVE AlarmIsEarliest'
  OBVIOUS
<1> USE DEF Types, TypeOK
<1>1. CASE OwnerRequest
  <2>1. Rearmed /\ now' = now
    BY <1>1 DEF OwnerRequest, CreateTask, UpdateTask, DeleteTask, Request
  <2>2. QED
    BY <2>1, RearmedEarliest
<1>2. CASE AlarmFires
  <2>1. PICK B \in (IF db = "open" THEN Batch ELSE {{}}) :
            IF B = {} THEN Rearmed ELSE Begin(Snapshot(B))
    BY <1>2 DEF AlarmFires
  <2>2. CASE B = {}
    BY <1>2, <2>1, <2>2, RearmedEarliest DEF AlarmFires
  <2>3. CASE B # {}
    <3>1. B \in Batch
      BY <2>3
    <3>2. current' # None
      BY <2>1, <2>3, <3>1, SnapshotFacts, BeginFacts
    <3>3. QED
      BY <3>2 DEF AlarmIsEarliest
  <2>4. QED
    BY <2>2, <2>3
<1>3. CASE RunnerReplies
  <2>1. CASE rest = {}
    BY <1>3, <2>1, RearmedEarliest DEF RunnerReplies, RunnerAnswers, Continue
  <2>2. CASE rest # {}
    <3>1. Begin(rest)
      BY <1>3, <2>2 DEF RunnerReplies, RunnerAnswers, Continue
    <3>2. current' # None
      BY <3>1, BeginFacts DEF FiniteRest
    <3>3. QED
      BY <3>2 DEF AlarmIsEarliest
  <2>3. QED
    BY <2>1, <2>2
<1>4. CASE Reset
  <2>1. retry' \/ (current = None /\ ~retry)
    BY <1>4 DEF Reset
  <2>2. QED
    BY <1>4, <2>1 DEF Reset, AlarmIsEarliest, ArmedIn
<1>5. CASE Tick
  BY <1>5 DEF Tick, alarmVars, AlarmIsEarliest, ArmedIn, Rows
<1>6. CASE DeleteConversation
  BY <1>6 DEF DeleteConversation, AlarmIsEarliest, ArmedIn, Exists, Rows
<1>7. CASE AlarmThrows
  BY <1>7 DEF AlarmThrows, AlarmIsEarliest
<1>8. CASE Initialize \/ UNCHANGED vars
  BY <1>8 DEF Initialize, vars, alarmVars, AlarmIsEarliest, ArmedIn
<1>9. QED
  BY <1>1, <1>2, <1>3, <1>4, <1>5, <1>6, <1>7, <1>8 DEF Next

\* The stored alarm is always the earliest armed task's, unless an alarm() runs or is
\* owed, whatever the owner's requests, runs and resets do to the tasks.
THEOREM AlarmInvariant == Spec => []AlarmIsEarliest
<1>1. Init => AlarmIsEarliest
  BY DEF Init, AlarmIsEarliest, ArmedIn
<1>2. QED
  BY <1>1, EarliestStep, TypesInvariant, PTL DEF Spec

-----------------------------------------------------------------------------
(***************************************************************************)
(* Missed occurrences.  What was recorded at an alarm keeps every later    *)
(* run of the task behind that alarm: next_run_at of the row, and the      *)
(* occurrences that an alarm() in progress still carries in its snapshot,  *)
(* one per task.                                                           *)
(***************************************************************************)

Carried == rest \cup ({current} \ {None})

RowsAhead ==
    \A x \in executed :
        Exists(x.task) /\ row[x.task].next # Never => row[x.task].next > x.moment

CarriedAhead ==
    \A o \in Carried, x \in executed : x.task = o.task => o.at > x.moment

CarriedOncePerTask ==
    /\ \A o, p \in rest : o.task = p.task => o = p
    /\ current # None => current \notin rest /\ \A o \in rest : o.task # current.task

RecordedBefore == \A x \in executed : x.moment <= started

BurstInv ==
    RowsAhead /\ CarriedAhead /\ CarriedOncePerTask /\ RecordedBefore /\ MissedNotReplayed

\* A step that changes neither the history nor the running alarm keeps the invariant if
\* the rows it changes run later than now, or not at all.
LEMMA RowsOnly ==
    ASSUME Types, BurstInv, UNCHANGED alarmVars, row' \in [Tasks -> Rows],
           \A t \in Tasks : \/ Exists(t)' => row'[t].next = Never \/ row'[t].next > now
                            \/ row'[t] = row[t]
    PROVE  BurstInv'
<1> USE DEF Types, TypeOK, alarmVars
<1>1. CarriedAhead' /\ CarriedOncePerTask' /\ RecordedBefore' /\ MissedNotReplayed'
  BY DEF BurstInv, CarriedAhead, Carried, CarriedOncePerTask, RecordedBefore, MissedNotReplayed
<1>2. RowsAhead'
  <2> SUFFICES ASSUME NEW x \in executed, Exists(x.task)', row'[x.task].next # Never
               PROVE  row'[x.task].next > x.moment
    BY DEF RowsAhead
  <2>1. x.task \in Tasks /\ x.moment \in 0..now
    OBVIOUS
  <2>2. CASE row'[x.task] = row[x.task]
    BY <2>1, <2>2 DEF BurstInv, RowsAhead, Exists
  <2>3. CASE row'[x.task].next > now
    BY <2>1, <2>3 DEF Rows
  <2>4. QED
    BY <2>1, <2>2, <2>3
<1>3. QED
  BY <1>1, <1>2 DEF BurstInv

LEMMA OwnerBurst == ASSUME Types, BurstInv, OwnerRequest, Types' PROVE BurstInv'
<1> USE DEF Types, TypeOK
<1>1. ASSUME NEW k \in Keys, NEW t \in Tasks, NEW s \in Schedules, NEW e \in BOOLEAN,
             CreateTask(k, t, s, e)
      PROVE  BurstInv'
  <2>1. PICK n \in (IF e THEN NextRun(s, now) \ {Never} ELSE {Never}) :
            row' = [row EXCEPT ![t] = [status |-> "pending", schedule |-> s,
                                       enabled |-> e, next |-> n]]
    BY <1>1 DEF CreateTask
  <2>2. n = Never \/ n > now
    BY <2>1, NextRunLater
  <2>3. UNCHANGED alarmVars
    BY <1>1 DEF CreateTask, Request
  <2>4. QED
    BY <2>1, <2>2, <2>3, RowsOnly
<1>2. ASSUME NEW k \in Keys, NEW t \in Tasks, NEW s \in Schedules, NEW e \in BOOLEAN,
             NEW st \in {"pending", "completed"}, UpdateTask(k, t, s, e, st)
      PROVE  BurstInv'
  <2>1. PICK n \in (IF e /\ st # "completed" THEN NextRun(s, now) ELSE {Never}) :
            row' = [row EXCEPT ![t] = [status |-> st, schedule |-> s,
                                       enabled |-> e, next |-> n]]
    BY <1>2 DEF UpdateTask
  <2>2. n = Never \/ n > now
    BY <2>1, NextRunLater
  <2>3. UNCHANGED alarmVars
    BY <1>2 DEF UpdateTask, Request
  <2>4. QED
    BY <2>1, <2>2, <2>3, RowsOnly
<1>3. ASSUME NEW k \in Keys, NEW t \in Tasks, DeleteTask(k, t)
      PROVE  BurstInv'
  <2>1. row' = [row EXCEPT ![t].status = "deleted"] /\ UNCHANGED alarmVars
    BY <1>3 DEF DeleteTask, Request
  <2>2. ~Exists(t)' /\ \A u \in Tasks : u # t => row'[u] = row[u]
    BY <2>1 DEF Exists, Rows
  <2>3. QED
    BY <2>1, <2>2, RowsOnly
<1>4. QED
  BY <1>1, <1>2, <1>3 DEF OwnerRequest

LEMMA AlarmBurst == ASSUME Types, BurstInv, AlarmFires, Types' PROVE BurstInv'
<1> USE DEF Types, TypeOK
<1>1. PICK B \in (IF db = "open" THEN Batch ELSE {{}}) :
          IF B = {}
          THEN Rearmed /\ UNCHANGED alarmVars
          ELSE Begin(Snapshot(B)) /\ alarm' = Never /\ started' = now /\ UNCHANGED executed
  BY DEF AlarmFires
<1>2. CASE B = {}
  BY <1>1, <1>2, RowsOnly DEF AlarmFires
<1>3. CASE B # {}
  <2> DEFINE S == Snapshot(B)
  <2>1. B \in Batch
    BY <1>3
  <2>2. /\ S \subseteq Occurrences
        /\ \A o \in S : o.task \in Due /\ o.at = row[o.task].next
        /\ \A o, p \in S : o.task = p.task => o = p
        /\ IsFiniteSet(S)
    BY <2>1, SnapshotFacts
  <2>3. current' \in S /\ current' # None /\ rest' = S \ {current'}
    BY <1>1, <1>3, <2>2, BeginFacts
  <2> HIDE DEF S
  <2>4. CarriedOncePerTask'
    BY <2>2, <2>3 DEF CarriedOncePerTask
  <2>5. CarriedAhead'
    <3>1. Carried' = S
      BY <2>3 DEF Carried
    <3>2. \A o \in S : Exists(o.task) /\ o.at # Never
      BY <2>2 DEF Due, ArmedIn, Exists
    <3>3. QED
      BY <1>1, <1>3, <2>2, <3>1, <3>2 DEF CarriedAhead, BurstInv, RowsAhead
  <2>6. RowsAhead' /\ MissedNotReplayed'
    BY <1>1, <1>3 DEF AlarmFires, BurstInv, RowsAhead, MissedNotReplayed, Exists
  <2>7. RecordedBefore'
    BY <1>1, <1>3 DEF RecordedBefore, BurstInv
  <2>8. QED
    BY <2>4, <2>5, <2>6, <2>7 DEF BurstInv
<1>4. QED
  BY <1>2, <1>3

LEMMA RunnerBurst ==
    ASSUME Types, BurstInv, NEW ok \in BOOLEAN, RunnerAnswers(ok), Types'
    PROVE  BurstInv'
<1> DEFINE new == [task |-> current.task, at |-> current.at, moment |-> started]
<1> USE DEF Types, TypeOK
<1>1. current \in Occurrences /\ current # None /\ current \in Carried
  BY DEF RunnerAnswers, Carried
<1>2. executed' = executed \cup {new} /\ started' = started /\ started \in Nat
  BY DEF RunnerAnswers
<1>3. new.task = current.task /\ new.at = current.at /\ new.moment = started
  OBVIOUS
<1> HIDE DEF new
<1>4. RecordedBefore'
  BY <1>2, <1>3 DEF BurstInv, RecordedBefore
<1>5. MissedNotReplayed'
  BY <1>1, <1>2, <1>3 DEF BurstInv, MissedNotReplayed, CarriedAhead
<1>6. Carried' \subseteq rest
  <2>1. CASE rest = {}
    BY <2>1 DEF RunnerAnswers, Continue, Carried
  <2>2. CASE rest # {}
    BY <2>2 DEF RunnerAnswers, Continue, Begin, Carried
  <2>3. QED
    BY <2>1, <2>2
<1>7. CarriedOncePerTask'
  <2>1. CASE rest = {}
    BY <2>1 DEF RunnerAnswers, Continue, CarriedOncePerTask
  <2>2. CASE rest # {}
    BY <2>2 DEF RunnerAnswers, Continue, Begin, CarriedOncePerTask, BurstInv
  <2>3. QED
    BY <2>1, <2>2
<1>8. CarriedAhead'
  <2>1. \A o \in rest : o.task # new.task /\ o \in Carried
    BY <1>1, <1>3 DEF BurstInv, CarriedOncePerTask, Carried
  <2>2. QED
    BY <1>2, <1>6, <2>1 DEF BurstInv, CarriedAhead
<1>9. RowsAhead'
  <2>1. PICK n \in (IF current.schedule \in Recurring THEN NextRun(current.schedule, started)
                                                      ELSE {Never}) :
            row' = Recorded(current, ok, n)
    BY DEF RunnerAnswers
  <2>2. n = Never \/ n > started
    BY <1>1, <1>2, <2>1, NextRunLater DEF Occurrences
  <2>3. n \in Nat
    BY <1>1, <1>2, <2>1, NextRunLater DEF Occurrences, Never
  <2>4. CASE Exists(current.task)
    <3>1. row'[current.task].next = n
      BY <1>1, <2>1, <2>4 DEF Recorded, Occurrences, Rows
    <3>2. \A t \in Tasks : t # current.task => row'[t] = row[t]
      BY <1>1, <2>1, <2>4 DEF Recorded, Occurrences
    <3>3. \A x \in executed' : x.task = current.task => x.moment <= started
      BY <1>2, <1>3 DEF BurstInv, RecordedBefore
    <3>4. \A x \in executed' : x.task \in Tasks /\ x.moment \in Nat
      BY <1>1, <1>2, <1>3 DEF Occurrences
    <3>5. \A x \in executed' : x.task # current.task => x \in executed
      BY <1>2, <1>3
    <3>6. QED
      BY <1>2, <2>2, <2>3, <3>1, <3>2, <3>3, <3>4, <3>5 DEF RowsAhead, BurstInv, Exists
  <2>5. CASE ~Exists(current.task)
    <3>1. row' = row
      BY <2>1, <2>5 DEF Recorded
    <3>2. QED
      BY <1>2, <1>3, <2>5, <3>1 DEF RowsAhead, BurstInv, Exists
  <2>6. QED
    BY <2>4, <2>5
<1>10. QED
  BY <1>4, <1>5, <1>7, <1>8, <1>9 DEF BurstInv

LEMMA OtherBurst ==
    ASSUME Types, BurstInv, Types',
           \/ Initialize \/ DeleteConversation \/ AlarmThrows \/ Reset \/ Tick \/ UNCHANGED vars
    PROVE  BurstInv'
<1>1. CASE Initialize \/ Tick \/ UNCHANGED vars
  BY <1>1, RowsOnly DEF Initialize, Tick, vars, alarmVars, Types, TypeOK
<1>2. CASE DeleteConversation
  <2>1. \A t \in Tasks : ~Exists(t)'
    BY <1>2 DEF DeleteConversation, Exists, Types, TypeOK, Rows
  <2>2. QED
    BY <1>2, <2>1, RowsOnly DEF DeleteConversation, Types, TypeOK
<1>3. CASE AlarmThrows \/ Reset
  BY <1>3 DEF AlarmThrows, Reset, BurstInv, RowsAhead, CarriedAhead, Carried,
     CarriedOncePerTask, RecordedBefore, MissedNotReplayed, Exists
<1>4. QED
  BY <1>1, <1>2, <1>3

\* Of two recorded runs of a task one is for an occurrence after the alarm that ran the
\* other, whatever the owner, slow runs and resets do: no occurrence is recorded twice and
\* missed occurrences are made up for by one run.
THEOREM BurstInvariant == Spec => []MissedNotReplayed
<1>1. Init => BurstInv
  BY DEF Init, BurstInv, RowsAhead, CarriedAhead, Carried, CarriedOncePerTask,
     RecordedBefore, MissedNotReplayed
<1>2. Types /\ Types' /\ BurstInv /\ [Next]_vars => BurstInv'
  BY OwnerBurst, AlarmBurst, RunnerBurst, OtherBurst DEF Next, RunnerReplies
<1>3. QED
  BY <1>1, <1>2, TypesInvariant, PTL DEF Spec, BurstInv

=============================================================================
