--------------------------- MODULE ControlSettings ---------------------------
(***************************************************************************)
(* The owner's settings in the control worker's database                   *)
(* (apps/policy-control-worker/src/index.ts): the cost policy, the model   *)
(* providers, the owner's preferences and the delegated sources.  An       *)
(* update reads the row, answers a repeated idempotency key, writes the    *)
(* row, appends an audit event and, where that fails, writes the row back  *)
(* that it has read.  Every one of these is an await of its own, so        *)
(* requests interleave between them.  The assistant then hands a new cost  *)
(* policy to the quota object, in two calls.                               *)
(*                                                                         *)
(* The four handlers differ in the rollback only, so that a behaviour is   *)
(* about one setting, of one kind.  A provider update writes its rows in   *)
(* one batch: they are one row here.                                       *)
(***************************************************************************)
EXTENDS Naturals

CONSTANTS
    Requests,   \* the owner's requests
    Keys,       \* idempotency keys
    KeyOf,      \* request |-> its key
    Values,     \* what a setting may be
    ValueOf,    \* request |-> the value it asks for
    Off,        \* the values that define a disabled source
    Deletes,    \* the requests that, where it is a delegated source, delete it
    Old,        \* the value before all requests
    NoKey,      \* last_idempotency_key IS NULL
    NoRow       \* the row does not exist

Kinds == {"budget", "providers", "preferences", "source"}

SettingsConstants ==
    /\ KeyOf \in [Requests -> Keys]
    /\ ValueOf \in [Requests -> Values]
    /\ Off \subseteq Values
    /\ Deletes \subseteq Requests
    /\ Old \in Values
    /\ NoKey \notin Keys
    /\ NoRow \notin Requests

VARIABLES
    kind,      \* which setting the behaviour is about
    row,       \* its row
    quota,     \* ai_budget_policies and non_ai_budget_policies of the quota object
    at,        \* where each request's handler is
    prev,      \* the row each handler has read
    answer,    \* what each request was answered
    audited,   \* history: the requests whose audit event is in the ledger
    last       \* history: the request that wrote its update last

vars == <<kind, row, quota, at, prev, answer, audited, last>>

Row == [value : Values, key : Keys \cup {NoKey}, version : Nat, enabled : BOOLEAN]

Places == {"start", "write", "audit", "rollback", "enforce", "done"}

Answers == {"none", "ok", "replayed", "conflict", "missing", "unaudited", "unmetered", "error"}

First == [value |-> Old, key |-> NoKey, version |-> 1, enabled |-> Old \notin Off]

-----------------------------------------------------------------------------

Goto(r, p) == at' = [at EXCEPT ![r] = p] /\ UNCHANGED answer

Reply(r, a) == at' = [at EXCEPT ![r] = "done"] /\ answer' = [answer EXCEPT ![r] = a]

\* The assistant enforces a budget the control worker has answered for, also a replayed
\* one; any other setting is answered as it is.
Accepted(r, a) == IF kind = "budget" THEN Goto(r, "enforce") ELSE Reply(r, a)

\* Only a source can be deleted.
Deleting(r) == kind = "source" /\ r \in Deletes

Repeats(r) == row # NoRow /\ row.key = KeyOf[r]

\* The SELECT; the key of the last update is replayed when it asked for the same.
Read(r) ==
    /\ at[r] = "start" /\ ~Deleting(r)
    /\ prev' = [prev EXCEPT ![r] = row]
    /\ IF ~Repeats(r) THEN Goto(r, "write")
       ELSE IF row.value = ValueOf[r] THEN Accepted(r, "replayed")
       ELSE Reply(r, "conflict")
    /\ UNCHANGED <<kind, row, quota, audited, last>>

NextVersion(r) == IF prev[r] = NoRow THEN 1 ELSE prev[r].version + 1

\* The INSERT ... ON CONFLICT DO UPDATE (for budgets an UPDATE), whatever the row is now.
Write(r) ==
    /\ at[r] = "write"
    /\ row' = [value |-> ValueOf[r], key |-> KeyOf[r], version |-> NextVersion(r),
               enabled |-> ValueOf[r] \notin Off]
    /\ last' = r
    /\ Goto(r, "audit")
    /\ UNCHANGED <<kind, quota, prev, audited>>

\* DELETE of a delegated source disables it and leaves its last key alone.
Delete(r) ==
    /\ at[r] = "start" /\ Deleting(r)
    /\ IF row # NoRow /\ row.enabled
       THEN row' = [row EXCEPT !.enabled = FALSE, !.version = @ + 1] /\ Goto(r, "audit")
       ELSE UNCHANGED row /\ Reply(r, "missing")
    /\ UNCHANGED <<kind, quota, prev, audited, last>>

Audit(r) ==
    /\ at[r] = "audit"
    /\ audited' = audited \cup {r}
    /\ Accepted(r, "ok")
    /\ UNCHANGED <<kind, row, quota, prev, last>>

\* The ledger is not reached, refuses, or its answer is lost after the event.  A budget
\* is not written back.
AuditFails(r) ==
    /\ at[r] = "audit"
    /\ audited' \in {audited, audited \cup {r}}
    /\ IF kind = "budget" THEN Reply(r, "unaudited") ELSE Goto(r, "rollback")
    /\ UNCHANGED <<kind, row, quota, prev, last>>

\* The rollback of a deletion.
Enabled(x) ==
    [x EXCEPT !.enabled = TRUE, !.version = IF @ > 1 THEN @ - 1 ELSE 1]

\* Mutant of Restored: the rollback of the providers does not ask whose rows these are.
RestoredAny(r) == prev[r]

\* What the row is after the rollback: only that of the providers is guarded by the key
\* and the fingerprint of the update.
Restored(r) ==
    IF Deleting(r) THEN IF row = NoRow THEN row ELSE Enabled(row)
    ELSE IF kind = "providers" /\ ~(Repeats(r) /\ row.value = ValueOf[r]) THEN row
    ELSE IF row = NoRow /\ prev[r] # NoRow THEN row     \* an UPDATE of no row
    ELSE prev[r]

Rollback(r) ==
    /\ at[r] = "rollback"
    /\ row' = Restored(r)
    /\ Reply(r, "unaudited")
    /\ UNCHANGED <<kind, quota, prev, audited, last>>

-----------------------------------------------------------------------------
(***************************************************************************)
(* The assistant's PATCH /v1/settings/budgets.                             *)
(***************************************************************************)

\* The two calls go out together: both, one, or none of them take effect.
SetQuota(r) ==
    /\ at[r] = "enforce"
    /\ \/ quota' = [ai |-> ValueOf[r], nonAi |-> ValueOf[r]] /\ Reply(r, "ok")
       \/ /\ quota' \in {quota, [quota EXCEPT !.ai = ValueOf[r]],
                         [quota EXCEPT !.nonAi = ValueOf[r]],
                         [ai |-> ValueOf[r], nonAi |-> ValueOf[r]]}
          /\ Reply(r, "unmetered")
    /\ UNCHANGED <<kind, row, prev, audited, last>>

\* A call throws or the handler dies: what was done stays.
Crash(r) ==
    /\ at[r] \notin {"start", "done"}
    /\ Reply(r, "error")
    /\ UNCHANGED <<kind, row, quota, prev, audited, last>>

-----------------------------------------------------------------------------

\* The rows of budgets and providers exist since the owner's first authentication.
Init ==
    /\ kind \in Kinds
    /\ row \in IF kind \in {"preferences", "source"} THEN {First, NoRow} ELSE {First}
    /\ quota = [ai |-> Old, nonAi |-> Old]
    /\ at = [r \in Requests |-> "start"]
    /\ prev = [r \in Requests |-> NoRow]
    /\ answer = [r \in Requests |-> "none"]
    /\ audited = {}
    /\ last = NoRow

Next ==
    \E r \in Requests :
        \/ Read(r) \/ Write(r) \/ Delete(r) \/ Audit(r) \/ AuditFails(r)
        \/ Rollback(r) \/ SetQuota(r) \/ Crash(r)

Spec == Init /\ [][Next]_vars

-----------------------------------------------------------------------------
(***************************************************************************)
(* Properties.                                                             *)
(***************************************************************************)

\* A row, where there is one, has values of its columns; versions start at 1.
TypeOK ==
    /\ kind \in Kinds
    /\ row \in Row \cup {NoRow}
    /\ row # NoRow => row.version > 0
    /\ quota \in [ai : Values, nonAi : Values]
    /\ at \in [Requests -> Places]
    /\ prev \in [Requests -> Row \cup {NoRow}]
    /\ answer \in [Requests -> Answers]
    /\ audited \subseteq Requests
    /\ last \in Requests \cup {NoRow}

OwnKey(r) == \A q \in Requests \ {r} : KeyOf[q] # KeyOf[r]

\* Model providers: the update that was written last, where it was answered with success,
\* is what is stored, although requests that wrote before it fail their audit afterwards
\* and roll back.  (Its key must be its own: a duplicate that fails takes the update back.)
\* No more than this can be said.  A rollback puts back the rows that its request has
\* read, so an audited update that another request wrote over, having read before it, is
\* lost with that request's; and of preferences and sources the rollback asks for no key
\* at all, so that even the last update may be taken back.
LastUpdateStands ==
    \A r \in Requests :
        (kind = "providers" /\ last = r /\ answer[r] = "ok" /\ OwnKey(r))
        => row.key = KeyOf[r] /\ row.value = ValueOf[r]

\* docs/en/operations/resource-budgets.md:16: a change of the budget creates an audit
\* event, or is about to.  The code does not see to it: a change whose audit event failed
\* stays stored, and its repetition is answered, and enforced, as a replay.
BudgetChangesAreAudited ==
    \A r \in Requests :
        kind = "budget" /\ answer[r] = "ok" =>
            \E q \in Requests : KeyOf[q] = KeyOf[r] /\ (q \in audited \/ at[q] = "audit")

\* All requests that have begun are updates under one key (a deletion has none).
OnlyKeyAt(k) == \A q \in Requests : at[q] # "start" => KeyOf[q] = k /\ ~Deleting(q)

\* They are one change, sent and sent again.
OnlyChange(r) ==
    /\ OnlyKeyAt(KeyOf[r])
    /\ \A q \in Requests : at[q] # "start" => ValueOf[q] = ValueOf[r]

\* While one budget change is sent and sent again, a success means that the control
\* worker stores it and both halves of the quota object enforce it: a repetition of a
\* change whose quota calls failed makes up for them.
OkEnforced ==
    \A r \in Requests :
        (kind = "budget" /\ answer[r] = "ok" /\ OnlyChange(r))
        => row.value = ValueOf[r] /\ quota = [ai |-> ValueOf[r], nonAi |-> ValueOf[r]]

\* Delegated sources: definitions that are sent under one key, with every interleaving
\* and failure, make at most one new version.
OneVersionPerUpdate ==
    \A r \in Requests :
        (kind = "source" /\ row # NoRow /\ OnlyKeyAt(KeyOf[r])) => row.version <= 2

=============================================================================
