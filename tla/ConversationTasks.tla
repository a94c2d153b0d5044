------------------------- MODULE ConversationTasks -------------------------
(***************************************************************************)
(* The scheduled tasks of one conversation: the tasks table and the single *)
(* alarm of apps/conversation-agent (a Durable Object).                    *)
(*                                                                         *)
(* A request of the owner runs in one turn: replay, row, idempotency       *)
(* record and alarm change together.  alarm() reads the due tasks, then    *)
(* awaits the task runner once per task; while it waits, requests of the   *)
(* owner run, and what it writes afterwards comes from what it read before.*)
(* The platform runs one alarm at a time, takes the stored alarm away when *)
(* it fires, and runs it again when the handler failed or the object was   *)
(* reset.                                                                  *)
(*                                                                         *)
(* A schedule is the set of instants at which it runs; time zones,         *)
(* weekdays and months are in those sets.                                  *)
(***************************************************************************)
EXTENDS Naturals, FiniteSets

CONSTANTS
    Tasks,      \* task identifiers, random and never used twice
    Keys,       \* idempotency keys of the owner's requests
    Schedules,  \* what a schedule can be
    Unplanned,  \* the schedule of kind "none"
    Recurring,  \* daily, weekly and monthly schedules; the others run once
    Slots,      \* Slots[s]: the instants at which schedule s runs
    Limit,      \* how many due tasks one alarm reads (20 in the code)
    None,       \* no run in progress
    MaxNow,     \* bound of the clock
    MaxResets   \* bound on resets of the object

Never == 0

ASSUME TasksAssumption ==
    /\ Slots \in [Schedules -> SUBSET (Nat \ {Never})]
    /\ Unplanned \in Schedules \ Recurring
    /\ Recurring \subseteq Schedules
    /\ Slots[Unplanned] = {}
    /\ \A s \in Schedules \ Recurring : \A a, b \in Slots[s] : a = b
    /\ IsFiniteSet(Tasks)
    /\ Limit \in Nat \ {0}
    /\ MaxNow \in Nat
    /\ MaxResets \in Nat

ASSUME RecurringAssumption ==
    \A s \in Recurring : \E a \in Slots[s] : a > MaxNow

ASSUME NoneAssumption == None \notin [task : Tasks, at : Nat, schedule : Schedules]

VARIABLES
    now,       \* the clock
    db,        \* "bare": tables without a conversation row, "open": with it,
               \* "erased": deleteAll has dropped the tables of a live object
    row,       \* tasks, by identifier
    answered,  \* idempotency: the keys with a stored response
    alarm,     \* the stored alarm, or Never
    retry,     \* the platform owes a failed alarm another run
    current,   \* alarm(): the task whose run is awaited, or None
    rest,      \* alarm(): the tasks read with it and not yet run
    started,   \* alarm(): its "now"
    begun,     \* the runs asked of the task runner (external)
    executed,  \* audit_outbox: the task.executed events
    resets

vars == <<now, db, row, answered, alarm, retry, current, rest, started, begun, executed, resets>>

alarmVars == <<current, rest, started, begun, executed>>

Later(a, b) == IF a < b THEN b ELSE a

\* "in-progress" is a wish of the owner that no code tells from "pending".
Exists(t) == row[t].status \in {"pending", "completed"}

ArmedIn(rows) == {t \in Tasks : /\ rows[t].status = "pending"
                                /\ rows[t].enabled
                                /\ rows[t].next # Never}

Due == {t \in ArmedIn(row) : row[t].next <= now}

\* Mutant of NextRun: an occurrence at this very moment counts as a future one.
NextRunOrNow(s, after) ==
    {n \in Slots[s] : n >= after /\ \A m \in Slots[s] : m >= after => n <= m}
        \cup {n \in {Never} : \A m \in Slots[s] : m < after}

\* nextTaskRunAt: the first instant of the schedule after a moment, if it has one.
NextRun(s, after) ==
    {n \in Slots[s] : n > after /\ \A m \in Slots[s] : m > after => n <= m}
        \cup {n \in {Never} : \A m \in Slots[s] : m <= after}

\* #rescheduleAlarm: the earliest armed task, and not before this moment.
Rearmed ==
    \/ ArmedIn(row') = {} /\ alarm' = Never
    \/ \E t \in ArmedIn(row') :
          /\ \A u \in ArmedIn(row') : row'[t].next <= row'[u].next
          /\ alarm' = Later(now, row'[t].next)

----------------------------------------------------------------------------

\* POST /initialize: the conversation row; it touches neither tasks nor alarm.
Initialize ==
    /\ db = "bare"
    /\ db' = "open"
    /\ UNCHANGED <<now, row, answered, alarm, retry, alarmVars, resets>>

\* The common part of the requests about tasks.  A known key answers what was stored and
\* changes nothing.  None of them looks for the conversation row.
Request(k) ==
    /\ db # "erased"
    /\ k \notin answered
    /\ answered' = answered \cup {k}
    /\ Rearmed
    /\ UNCHANGED <<now, db, retry, alarmVars, resets>>

\* #createTask: an enabled task needs a future run.
CreateTask(k, t, s, e) ==
    /\ row[t].status = "unused"
    /\ \E n \in IF e THEN NextRun(s, now) \ {Never} ELSE {Never} :
          row' = [row EXCEPT ![t] = [status |-> "pending", schedule |-> s, enabled |-> e, next |-> n]]
    /\ Request(k)

\* #updateTask: what the request leaves out keeps the value of the row.
UpdateTask(k, t, s, e, st) ==
    /\ Exists(t)
    /\ \E n \in IF e /\ st # "completed" THEN NextRun(s, now) ELSE {Never} :
          /\ s # Unplanned /\ e /\ st # "completed" => n # Never
          /\ row' = [row EXCEPT ![t] = [status |-> st, schedule |-> s, enabled |-> e, next |-> n]]
    /\ Request(k)

\* Mutant of DeleteTask: the alarm is left alone.
DeleteTaskKeepsAlarm(k, t) ==
    /\ Exists(t)
    /\ row' = [row EXCEPT ![t].status = "deleted"]
    /\ db # "erased"
    /\ k \notin answered
    /\ answered' = answered \cup {k}
    /\ UNCHANGED <<now, db, alarm, retry, alarmVars, resets>>

\* #deleteTask
DeleteTask(k, t) ==
    /\ Exists(t)
    /\ row' = [row EXCEPT ![t].status = "deleted"]
    /\ Request(k)

\* #deleteConversation: deleteAll inside blockConcurrencyWhile takes the tables, the
\* keys and the alarm.
DeleteConversation ==
    /\ db = "open"
    /\ db' = "erased"
    /\ row' = [t \in Tasks |-> IF Exists(t) THEN [row[t] EXCEPT !.status = "deleted"] ELSE row[t]]
    /\ answered' = {}
    /\ alarm' = Never
    /\ UNCHANGED <<now, retry, alarmVars, resets>>

----------------------------------------------------------------------------

\* Mutant of Batch: LIMIT forgotten.
WholeBatch == {Due}

\* The tasks one alarm reads: ORDER BY next_run_at LIMIT 20, each with the schedule and
\* the occurrence it had at that moment.
Batch ==
    {B \in SUBSET Due :
        /\ \A t \in B, u \in Due \ B : row[t].next <= row[u].next
        /\ Cardinality(B) <= Limit
        /\ B # Due => Cardinality(B) = Limit}

Snapshot(B) ==
    {[task |-> t, at |-> row[t].next, schedule |-> row[t].schedule] : t \in B}

\* Ask the runner for the earliest of the occurrences, the others wait.
Begin(occurrences) ==
    \E o \in occurrences :
        /\ \A p \in occurrences : o.at <= p.at
        /\ current' = o
        /\ rest' = occurrences \ {o}
        /\ begun' = begun \cup {[task |-> o.task, at |-> o.at]}

\* alarm() until its first await; without conversation row or due task it only rearms.
AlarmFires ==
    /\ current = None
    /\ db # "erased"
    /\ retry \/ (alarm # Never /\ alarm <= now)
    /\ retry' = FALSE
    /\ UNCHANGED <<now, db, row, answered, resets>>
    /\ \E B \in IF db = "open" THEN Batch ELSE {{}} :
          IF B = {}
          THEN Rearmed /\ UNCHANGED alarmVars
          ELSE Begin(Snapshot(B)) /\ alarm' = Never /\ started' = now /\ UNCHANGED executed

\* The UPDATE that records a run writes status, enabled and next_run_at from the
\* snapshot; of a task deleted meanwhile it finds no row.
Recorded(o, ok, n) ==
    IF Exists(o.task)
    THEN [row EXCEPT ![o.task].status =
                        IF o.schedule \notin Recurring /\ ok THEN "completed" ELSE "pending",
                     ![o.task].enabled = o.schedule \in Recurring,
                     ![o.task].next = n]
    ELSE row

\* Mutant of Continue: the alarm ends without setting the next one.
ContinueNoAlarm ==
    IF rest = {}
    THEN current' = None /\ UNCHANGED <<rest, begun, alarm>>
    ELSE Begin(rest) /\ UNCHANGED alarm

\* The rest of alarm() after an answer of the runner: the next call, or the end.
Continue ==
    IF rest = {}
    THEN current' = None /\ Rearmed /\ UNCHANGED <<rest, begun>>
    ELSE Begin(rest) /\ UNCHANGED alarm

\* The runner answers, or its call throws (a failed run): alarm() up to its next await.
RunnerAnswers(ok) ==
    /\ current # None
    /\ db # "erased"
    /\ \E n \in IF current.schedule \in Recurring THEN NextRun(current.schedule, started)
                                                   ELSE {Never} :
          row' = Recorded(current, ok, n)
    /\ executed' = executed \cup
          {[task |-> current.task, at |-> current.at, moment |-> started]}
    /\ Continue
    /\ UNCHANGED <<now, db, answered, retry, started, resets>>

\* The UPDATE throws because deleteAll has dropped the table.
AlarmThrows ==
    /\ current # None
    /\ db = "erased"
    /\ current' = None
    /\ rest' = {}
    /\ retry' = TRUE
    /\ UNCHANGED <<now, db, row, answered, alarm, started, begun, executed, resets>>

\* The object restarts (deployment, eviction, failure): a running alarm is lost and will
\* be retried; the constructor creates missing tables.
Reset ==
    /\ resets < MaxResets
    /\ resets' = resets + 1
    /\ current' = None
    /\ rest' = {}
    /\ retry' = (retry \/ current # None)
    /\ db' = IF db = "erased" THEN "bare" ELSE db
    /\ UNCHANGED <<now, row, answered, alarm, started, begun, executed>>

Tick ==
    /\ now < MaxNow
    /\ now' = now + 1
    /\ UNCHANGED <<db, row, answered, alarm, retry, alarmVars, resets>>

Init ==
    /\ now = 0
    /\ db = "bare"
    /\ row = [t \in Tasks |->
                [status |-> "unused", schedule |-> Unplanned, enabled |-> FALSE, next |-> Never]]
    /\ answered = {}
    /\ alarm = Never
    /\ retry = FALSE
    /\ current = None
    /\ rest = {}
    /\ started = 0
    /\ begun = {}
    /\ executed = {}
    /\ resets = 0

OwnerRequest ==
    \E k \in Keys, t \in Tasks :
        \/ \E s \in Schedules, e \in BOOLEAN :
              \/ CreateTask(k, t, s, e)
              \/ \E st \in {"pending", "completed"} : UpdateTask(k, t, s, e, st)
        \/ DeleteTask(k, t)

RunnerReplies == \E ok \in BOOLEAN : RunnerAnswers(ok)

Next ==
    \/ Initialize
    \/ OwnerRequest
    \/ DeleteConversation
    \/ AlarmFires
    \/ RunnerReplies
    \/ AlarmThrows
    \/ Reset
    \/ Tick

Spec == Init /\ [][Next]_vars

\* The platform delivers due alarms and retries, and the runner's call returns or throws.
Fairness ==
    /\ WF_vars(AlarmFires)
    /\ WF_vars(RunnerReplies)
    /\ WF_vars(AlarmThrows)

FairSpec == Spec /\ Fairness

----------------------------------------------------------------------------

Rows == [status : {"unused", "pending", "completed", "deleted"},
         schedule : Schedules, enabled : BOOLEAN, next : Nat]

Occurrences == [task : Tasks, at : Nat, schedule : Schedules]

\* Types of the state; an alarm never holds more than LIMIT tasks.
TypeOK ==
    /\ now \in 0..MaxNow
    /\ db \in {"bare", "open", "erased"}
    /\ row \in [Tasks -> Rows]
    /\ answered \subseteq Keys
    /\ alarm \in Nat
    /\ retry \in BOOLEAN
    /\ current \in Occurrences \cup {None}
    /\ rest \subseteq Occurrences
    /\ current = None => rest = {}
    /\ current # None => Cardinality(rest) < Limit
    /\ started \in 0..now
    /\ begun \subseteq [task : Tasks, at : Nat]
    /\ executed \subseteq [task : Tasks, at : Nat, moment : 0..now]
    /\ resets \in 0..MaxResets

\* "Each conversation uses at most one alarm for its earliest scheduled item"
\* (docs/en/architecture/overview.md): whenever no alarm() runs or is owed, the stored
\* alarm is the earliest armed task's, or has come due with it, and there is none when no
\* task is armed; so no request and no run leaves a task without its alarm.
AlarmIsEarliest ==
    current = None /\ ~retry =>
        \/ ArmedIn(row) = {} /\ alarm = Never
        \/ \E t \in ArmedIn(row) :
              /\ \A u \in ArmedIn(row) : row[t].next <= row[u].next
              /\ alarm = row[t].next \/ (row[t].next <= alarm /\ alarm <= now)

\* "Missed recurring occurrences are not replayed in a burst"
\* (docs/en/operations/owner-surface.md): of two recorded runs of a task, one is for an
\* occurrence after the moment of the alarm that ran the other.  So an occurrence is
\* recorded once and all those missed at an alarm are made up for by one run.
MissedNotReplayed ==
    \A x, y \in executed :
        x.task = y.task /\ x # y => x.at > y.moment \/ y.at > x.moment

\* A due task of a conversation is run, unless the owner changes or deletes it: whatever
\* order requests, runs and resets come in, and however many tasks are due at once.
DueTaskRuns ==
    \A t \in Tasks, o \in 1..MaxNow :
        (db = "open" /\ t \in Due /\ row[t].next = o)
            ~> (db # "open" \/ t \notin Due \/ row[t].next # o)

\* "a one-time task is not retried automatically after an uncertain or failed execution"
\* (docs/en/operations/owner-surface.md): alarm() asks for a run of an occurrence of a
\* one-time schedule at most once.
OneTimeNotRetried ==
    [][current' \notin {None, current} /\ current'.schedule \notin Recurring
          => [task |-> current'.task, at |-> current'.at] \notin begun]_vars

=============================================================================
