---------------------------- MODULE AuditLedger ----------------------------
(***************************************************************************)
(* The Audit Ledger Durable Object (apps/audit-ledger-worker/src/index.ts):*)
(* a hash chain of events in daily segments; a segment is closed by        *)
(* writing a checkpoint of it to R2 and to D1, and its events are erased   *)
(* after the retention period.                                             *)
(*                                                                         *)
(* Concurrency.  fetch runs append, close and retention inside             *)
(* blockConcurrencyWhile, which keeps every other event of the object out  *)
(* until it ends: the variable gate says who holds it.  alarm() runs the   *)
(* same close and retention code without it, so any request may run        *)
(* between two of its awaits (the R2 put, the D1 upsert).                  *)
(*                                                                         *)
(* Data abstraction.  A date is a day number; the hash of an event is the  *)
(* event itself.  Only the day of occurredAt matters.                      *)
(***************************************************************************)
EXTENDS Integers, FiniteSets, FiniteSetsExt, Functions

CONSTANTS
    Events,     \* audit events, each with its own eventId
    None,       \* a missing hash, and a missing alarm
    Late,       \* how many days after it occurred an event may arrive
    Retain,     \* the retention period (180 days)
    MaxDay,     \* bound of the calendar
    MaxFaults,  \* bound on R2 or D1 failures inside alarm()
    MaxResets   \* bound on resets of the object

Days == 1..MaxDay

ASSUME AuditConstants ==
    /\ None \notin Events
    /\ {Late, Retain, MaxDay, MaxFaults, MaxResets} \subseteq Nat
    /\ MaxDay > 0
    /\ Late < Retain

VARIABLES
    log,       \* table events: a function from the stored values of sequence
    sequence,  \* the last value AUTOINCREMENT has given
    erased,    \* history: the eventIds erased by retention
    segs,      \* table segments: a function from the stored days
    r2,        \* AUDIT_CHECKPOINTS, by day
    d1,        \* CONTROL_DB.audit_checkpoints, by day
    today,     \* the clock, in days
    alarmAt,   \* the day the alarm is due, None when getAlarm() is null
    gate,      \* who is inside blockConcurrencyWhile
    pending,   \* appends between their read of the chain and their insert
    run,       \* the two executions of close/retention: alarm() and a request
    faults, resets

store == <<log, sequence, erased, segs>>
remote == <<r2, d1>>
bounds == <<faults, resets>>
vars == <<store, remote, today, alarmAt, gate, pending, run, bounds>>

Event == [id : Events, seg : Days, prev : Events \cup {None}]

Summary == [first : Events, last : Events, count : Nat \ {0}]

\* "early" is history: a request closed the segment before its day was over.
Segment == [status : {"active", "closed"}, sum : Summary, early : BOOLEAN]

Procs == {"alarm", "request"}

Idle == [at |-> "idle", todo |-> [d \in {} |-> d], erase |-> {}]

-----------------------------------------------------------------------------
(***************************************************************************)
(* append.                                                                 *)
(***************************************************************************)

InLog(e) == \E i \in DOMAIN log : log[i].id = e

Rows(d) == {i \in DOMAIN log : log[i].seg = d}

EventsOf(d) == {log[i].id : i \in Rows(d)}

\* ORDER BY sequence DESC LIMIT 1
LastHash == IF DOMAIN log = {} THEN None ELSE log[Max(DOMAIN log)].id

Closed(d) == d \in DOMAIN segs /\ segs[d].status = "closed"

\* Mutant of SegmentFor: late events are not redirected.
SegmentForOccurred(occ) == occ

\* A late event for a closed segment goes to today's.
SegmentFor(occ) == IF Closed(occ) THEN today ELSE occ

Extended(s, e) ==
    [s EXCEPT !.sum = [first |-> s.sum.first, last |-> e, count |-> s.sum.count + 1]]

Fresh(e) ==
    [status |-> "active", sum |-> [first |-> e, last |-> e, count |-> 1], early |-> FALSE]

Put(f, k, v) == [x \in DOMAIN f \cup {k} |-> IF x = k THEN v ELSE f[x]]

\* Mutant of Counted: the row of a new segment is never inserted.
CountedUnopened(d, e) ==
    IF d \in DOMAIN segs /\ ~Closed(d) THEN Put(segs, d, Extended(segs[d], e)) ELSE segs

\* INSERT OR IGNORE of the segment, and the UPDATE that counts the event in it when it
\* is active.
Counted(d, e) ==
    IF d \notin DOMAIN segs THEN Put(segs, d, Fresh(e))
    ELSE IF Closed(d) THEN segs ELSE Put(segs, d, Extended(segs[d], e))

\* Mutant of BeginAppend: append outside blockConcurrencyWhile.
BeginAppendUngated(e, occ) ==
    /\ gate = "open"
    /\ ~InLog(e) /\ e \notin erased \cup DOMAIN pending
    /\ pending' = Put(pending, e, [occ |-> occ, prev |-> LastHash, at |-> "hash"])
    /\ UNCHANGED <<store, remote, today, alarmAt, gate, run, bounds>>

\* A known eventId is answered from the table.  A new one reads the end of the chain
\* and awaits the digest.  (Callers mint a UUID per event: none is sent again after it
\* was erased.)
BeginAppend(e, occ) ==
    /\ gate = "open"
    /\ ~InLog(e) /\ e \notin erased \cup DOMAIN pending
    /\ pending' = Put(pending, e, [occ |-> occ, prev |-> LastHash, at |-> "hash"])
    /\ gate' = "append"
    /\ UNCHANGED <<store, remote, today, alarmAt, run, bounds>>

InsertEvent(e) ==
    LET d == SegmentFor(pending[e].occ)
    IN /\ pending[e].at = "hash"
       /\ sequence' = sequence + 1
       /\ log' = Put(log, sequence', [id |-> e, seg |-> d, prev |-> pending[e].prev])
       /\ segs' = Counted(d, e)
       /\ pending' = [pending EXCEPT ![e].at = "alarm"]
       /\ UNCHANGED <<erased, remote, today, alarmAt, gate, run, bounds>>

\* getAlarm() is null while alarm() runs.
ArmAlarm(e) ==
    /\ pending[e].at = "alarm"
    /\ alarmAt' = IF alarmAt = None THEN today + 1 ELSE alarmAt
    /\ pending' = [x \in DOMAIN pending \ {e} |-> pending[x]]
    /\ gate' = "open"
    /\ UNCHANGED <<store, remote, today, run, bounds>>

-----------------------------------------------------------------------------
(***************************************************************************)
(* #closeSegments and #deleteClosedSegments, run by process p.             *)
(***************************************************************************)

\* Mutant of Through: today's segment is closed too.
ThroughToday == today

\* yesterdayUtc()
Through == today - 1

\* The rows #closeSegments selects, with their summaries as they are now.
Closable(through) ==
    LET S == {d \in DOMAIN segs : segs[d].status = "active" /\ d <= through}
    IN [d \in S |-> segs[d].sum]

\* Mutant of Erasable: the status is not looked at.
ErasableAny(before) == {d \in DOMAIN segs : d < before}

\* The segments #deleteClosedSegments selects.
Erasable(before) == {d \in DOMAIN segs : Closed(d) /\ d < before}

\* The cutoff of alarm().
Cutoff == today - Retain

\* Process p may take a step: nobody else holds the gate.
MayRun(p) == IF p = "request" THEN gate = "request" ELSE gate = "open"

Goto(p, at) == run' = [run EXCEPT ![p].at = at]

FirstDue(p) == Min(DOMAIN run[p].todo)

\* The calendar ends on MaxDay, time does not: alarms set for later come due then.
AlarmDue == alarmAt # None /\ (alarmAt <= today \/ today = MaxDay)

StartAlarm ==
    /\ gate = "open"
    /\ run["alarm"].at = "idle"
    /\ AlarmDue
    /\ alarmAt' = None
    /\ run' = [run EXCEPT !["alarm"] = [at |-> "put", todo |-> Closable(Through), erase |-> {}]]
    /\ UNCHANGED <<store, remote, today, gate, pending, bounds>>

\* Of the caller's throughDate only the format is checked: it may be today or later.
RequestClose(through) ==
    /\ gate = "open"
    /\ gate' = "request"
    /\ run' = [run EXCEPT !["request"] =
                   [at |-> "put", todo |-> Closable(through), erase |-> {}]]
    /\ UNCHANGED <<store, remote, today, alarmAt, pending, bounds>>

\* Of the caller's date only the format is checked: nothing is compared with Retain.
RequestRetention(before) ==
    /\ gate = "open"
    /\ gate' = "request"
    /\ run' = [run EXCEPT !["request"] =
                   [Idle EXCEPT !.at = "erase", !.erase = Erasable(before)]]
    /\ UNCHANGED <<store, remote, today, alarmAt, pending, bounds>>

\* The checkpoint of the snapshot reaches R2.
PutCheckpoint(p) ==
    /\ MayRun(p) /\ run[p].at = "put" /\ DOMAIN run[p].todo # {}
    /\ r2' = Put(r2, FirstDue(p), run[p].todo[FirstDue(p)])
    /\ Goto(p, "record")
    /\ UNCHANGED <<store, d1, today, alarmAt, gate, pending, bounds>>

\* The upsert of the checkpoint reaches D1.
RecordCheckpoint(p) ==
    /\ MayRun(p) /\ run[p].at = "record"
    /\ d1' = Put(d1, FirstDue(p), run[p].todo[FirstDue(p)])
    /\ Goto(p, "mark")
    /\ UNCHANGED <<store, r2, today, alarmAt, gate, pending, bounds>>

\* UPDATE segments SET status = 'closed' ... AND status = 'active', then the next one.
MarkClosed(p) ==
    LET d == FirstDue(p)
        rest == DOMAIN run[p].todo \ {d}
    IN /\ MayRun(p) /\ run[p].at = "mark"
       /\ segs' = IF d \in DOMAIN segs /\ ~Closed(d)
                  THEN [segs EXCEPT ![d].status = "closed", ![d].early = d >= today]
                  ELSE segs
       /\ run' = [run EXCEPT ![p].at = "put",
                             ![p].todo = [x \in rest |-> run[p].todo[x]]]
       /\ UNCHANGED <<log, sequence, erased, remote, today, alarmAt, gate, pending, bounds>>

\* A request ends when its segments are closed; alarm() goes on to the retention.
CloseDone(p) ==
    /\ MayRun(p) /\ run[p].at = "put" /\ DOMAIN run[p].todo = {}
    /\ IF p = "alarm"
       THEN /\ run' = [run EXCEPT ![p].at = "erase", ![p].erase = Erasable(Cutoff)]
            /\ UNCHANGED gate
       ELSE /\ run' = [run EXCEPT ![p] = Idle]
            /\ gate' = "open"
    /\ UNCHANGED <<store, remote, today, alarmAt, pending, bounds>>

\* The checkpoint is looked up in D1 and R2, then the events of the segment and its row
\* are deleted; a segment without a checkpoint is kept.
EraseSegment(p) ==
    /\ MayRun(p) /\ run[p].at = "erase"
    /\ \E d \in run[p].erase :
          /\ run' = [run EXCEPT ![p].erase = @ \ {d}]
          /\ IF d \in DOMAIN d1 /\ d \in DOMAIN r2
             THEN /\ erased' = erased \cup EventsOf(d)
                  /\ log' = Restrict(log, DOMAIN log \ Rows(d))
                  /\ segs' = Restrict(segs, {y \in DOMAIN segs : ~(y = d /\ Closed(d))})
                  /\ UNCHANGED sequence
             ELSE UNCHANGED store
    /\ UNCHANGED <<remote, today, alarmAt, gate, pending, bounds>>

\* Mutant of EraseDone: alarm() does not schedule its successor.
EraseDoneUnarmed(p) ==
    /\ MayRun(p) /\ run[p].at = "erase" /\ run[p].erase = {}
    /\ run' = [run EXCEPT ![p] = Idle]
    /\ gate' = "open"
    /\ UNCHANGED <<store, remote, today, alarmAt, pending, bounds>>

EraseDone(p) ==
    /\ MayRun(p) /\ run[p].at = "erase" /\ run[p].erase = {}
    /\ run' = [run EXCEPT ![p] = Idle]
    /\ alarmAt' = IF p = "alarm" THEN today + 1 ELSE alarmAt
    /\ gate' = "open"
    /\ UNCHANGED <<store, remote, today, pending, bounds>>

-----------------------------------------------------------------------------
(***************************************************************************)
(* Failures and time.                                                      *)
(***************************************************************************)

\* The platform runs a failed alarm() again, unless a new alarm was set meanwhile.
Retried == IF run["alarm"].at # "idle" /\ alarmAt = None THEN today ELSE alarmAt

\* R2 or D1 rejects a call of alarm().
AlarmFails ==
    /\ faults < MaxFaults
    /\ gate = "open" /\ run["alarm"].at \in {"put", "record", "erase"}
    /\ faults' = faults + 1
    /\ run' = [run EXCEPT !["alarm"] = Idle]
    /\ alarmAt' = Retried
    /\ UNCHANGED <<store, remote, today, gate, pending, resets>>

\* The object is evicted, or a callback of blockConcurrencyWhile throws: everything in
\* flight is gone, the tables stay.
Reset ==
    /\ resets < MaxResets
    /\ resets' = resets + 1
    /\ run' = [p \in Procs |-> Idle]
    /\ pending' = [e \in {} |-> e]
    /\ gate' = "open"
    /\ alarmAt' = Retried
    /\ UNCHANGED <<store, remote, today, faults>>

Tick ==
    /\ today < MaxDay
    /\ today' = today + 1
    /\ UNCHANGED <<store, remote, alarmAt, gate, pending, run, bounds>>

-----------------------------------------------------------------------------

Init ==
    /\ log = [i \in {} |-> i]
    /\ sequence = 0
    /\ erased = {}
    /\ segs = [d \in {} |-> d]
    /\ r2 = [d \in {} |-> d]
    /\ d1 = [d \in {} |-> d]
    /\ today = 1
    /\ alarmAt = None
    /\ gate = "open"
    /\ pending = [e \in {} |-> e]
    /\ run = [p \in Procs |-> Idle]
    /\ faults = 0
    /\ resets = 0

Occurred == {d \in Days : today - Late <= d /\ d <= today}

\* A date after the last day stands for every date in the future.
CallerDates == 1..(MaxDay + 1)

Requested ==
    \/ \E through \in Days : RequestClose(through)
    \/ \E before \in CallerDates : RequestRetention(before)

AppendStep == \E e \in DOMAIN pending : InsertEvent(e) \/ ArmAlarm(e)

CloserStep(p) ==
    \/ PutCheckpoint(p) \/ RecordCheckpoint(p) \/ MarkClosed(p)
    \/ CloseDone(p) \/ EraseSegment(p) \/ EraseDone(p)

Next ==
    \/ \E e \in Events, occ \in Occurred : BeginAppend(e, occ)
    \/ AppendStep
    \/ StartAlarm \/ Requested
    \/ \E p \in Procs : CloserStep(p)
    \/ AlarmFails \/ Reset \/ Tick

Spec == Init /\ [][Next]_vars

\* Requests and appends finish, time passes, and the platform runs a due alarm and
\* delivers what it awaits; requests may come in its way again and again.
Fairness ==
    /\ WF_vars(AppendStep)
    /\ WF_vars(CloserStep("request"))
    /\ SF_vars(StartAlarm)
    /\ SF_vars(CloserStep("alarm"))
    /\ WF_vars(Tick)

FairSpec == Spec /\ Fairness

-----------------------------------------------------------------------------
(***************************************************************************)
(* Properties.                                                             *)
(***************************************************************************)

\* The tables and the executions have their types, and an event's segment has a row.
TypeOK ==
    /\ sequence \in Nat
    /\ DOMAIN log \subseteq 1..sequence
    /\ \A i \in DOMAIN log : log[i] \in Event /\ log[i].seg \in DOMAIN segs
    /\ \A d \in DOMAIN segs : d \in Days /\ segs[d] \in Segment
    /\ \A d \in DOMAIN r2 : d \in Days /\ r2[d] \in Summary
    /\ \A d \in DOMAIN d1 : d \in Days /\ d1[d] \in Summary
    /\ today \in Days
    /\ alarmAt \in 1..(MaxDay + 1) \cup {None}
    /\ gate \in {"open", "append", "request"}
    /\ DOMAIN pending \subseteq Events
    /\ run["request"].at # "idle" => gate = "request"

\* The hash chain never forks: no two events name the same predecessor, and only the
\* oldest kept event may have none, although the digest is awaited between the read of
\* the predecessor and the insert.
ChainUnforked ==
    \A i, j \in DOMAIN log : i < j => log[i].prev # log[j].prev /\ log[j].prev # None

Upto(d, n) == {i \in Rows(d) : i <= n}

Describes(d, n) ==
    segs[d].sum = [first |-> log[Min(Upto(d, n))].id,
                   last |-> log[n].id,
                   count |-> Cardinality(Upto(d, n))]

\* A segment's row describes the events stored under it: all of them, unless a request
\* closed the segment before its day was over, and then the oldest ones, up to the last
\* the row names.
SegmentCounts ==
    \A d \in DOMAIN segs :
        \E n \in Rows(d) : /\ Describes(d, n)
                           /\ ~segs[d].early => Upto(d, n) = Rows(d)

\* The log and the rows that summarise it agree through every reset and failure.
LogConsistent == ChainUnforked /\ SegmentCounts

\* A step keeps the closed segment and its events, or erases it as a whole.
Frozen(d) == \/ EventsOf(d)' = EventsOf(d) /\ Closed(d)'
             \/ EventsOf(d)' = {} /\ d \notin DOMAIN segs'

\* Once its day is over a closed segment gains and loses no event, except by its erasure
\* as a whole: not by a late event, nor by an append whose day ended while it was hashed.
ClosedIsFrozen == [][\A d \in DOMAIN segs : Closed(d) /\ d < today => Frozen(d)]_vars

\* "A checkpointed segment is immutable": the comment in append, of every closed segment.
\* The code does not see to it: a request may close the segment of a day that is not over,
\* and the next event of that day is stored in it and not counted.
CheckpointedIsImmutable == [][\A d \in DOMAIN segs : Closed(d) => Frozen(d)]_vars

\* The checkpoint of a closed segment can be verified against its row: R2 and D1 both hold
\* the summary the row has, that is of every event it stores unless the segment was closed
\* before its day was over.
CheckpointVerifiable ==
    \A d \in DOMAIN segs :
        Closed(d) => /\ d \in DOMAIN r2 /\ r2[d] = segs[d].sum
                     /\ d \in DOMAIN d1 /\ d1[d] = segs[d].sum

\* An event leaves the ledger only with its whole closed segment, when both stores hold a
\* checkpoint of it, and by alarm() only past the retention period, whatever a request
\* closed, erased or reopened between its awaits.
ErasedOnlyWhenCheckpointed ==
    [][\A d \in DOMAIN segs :
          EventsOf(d) \ EventsOf(d)' # {} =>
              /\ Closed(d) /\ EventsOf(d)' = {}
              /\ gate # "request" => d + Retain < today
              /\ d \in DOMAIN r2 /\ d \in DOMAIN d1]_vars

\* docs/en/architecture/overview.md:37: a closed segment can be deleted after 180 days only,
\* by anyone.  The code does not see to it: a request erases before any date it names.
ErasedAfterRetention ==
    [][\A d \in DOMAIN segs : EventsOf(d) \ EventsOf(d)' # {} => d + Retain < today]_vars

\* Once an alarm is set, every segment there is gets closed after its day, however requests
\* interleave with the alarm, whatever fails in it, and if the object is reset.  (The last
\* day of the calendar never ends.  A reset between the first insert and setAlarm leaves no
\* alarm until the next append.)
EverySegmentCloses ==
    \A d \in 1..(MaxDay - 1) :
        (d \in DOMAIN segs /\ alarmAt # None)
            ~> (d \in DOMAIN segs => Closed(d))

=============================================================================
