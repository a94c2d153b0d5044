----------------------------- MODULE AgentQueries -----------------------------
(***************************************************************************)
(* A query of the knowledge sources by others than the owner               *)
(* (apps/delegated-agent-api/src/index.ts, and                             *)
(* apps/public-agent-api/src/index.ts): admission, the edge cache, a unit  *)
(* of the query quota, the search, for an answer a model call with its own *)
(* reservation of neurons, and the settlement of both.  Each is a call to  *)
(* another service, which may fail before or after its effect, while       *)
(* reservations expire, and the owner changes the delegated source.        *)
(*                                                                         *)
(* Data abstraction.  Every query carries a request id of its own, so it   *)
(* is the key and the id of its reservations; a delegated batch of two     *)
(* reservations is admitted, settled and released as one (QuotaLedger has  *)
(* them apart).  All queries ask the same question of the same source.     *)
(***************************************************************************)
EXTENDS Naturals, FiniteSets

CONSTANTS
    Queries,        \* queries
    Callers,        \* delegated principals
    DelegatedLimit, \* the limit of delegated-query
    SubjectLimit,   \* the limit of delegated-subject
    PublicLimit,    \* the limit of public-cache-miss
    Versions,       \* bound of the versions of the source
    Nobody          \* no query, no caller

QueryConstants ==
    /\ {DelegatedLimit, SubjectLimit, PublicLimit} \subseteq Nat
    /\ Versions \in Nat \ {0}
    /\ Nobody \notin Queries \cup Callers

VARIABLES
    surface,    \* which of the two workers this is
    source,     \* delegated_sources: its version and the callers its ACL lets in
    at,         \* query |-> where its handler is
    caller,     \* query |-> the delegated principal who asks
    mode,       \* query |-> search or answer
    version,    \* query |-> the source's version it was authorised for
    unit,       \* query |-> its row of reservations
    ai,         \* query |-> its row of ai_reservations
    cache,      \* the queries whose results the edge cache holds
    storing,    \* the queries whose results waitUntil has yet to put there
    result,     \* query |-> what it was answered
    billed      \* history: the queries whose inference was billed

vars == <<surface, source, at, caller, mode, version, unit, ai, cache, storing, result,
          billed>>

asked == <<surface, source, caller, mode, version>>
stored == <<cache, storing>>

Statuses == {"none", "active", "settled", "released", "expired"}

Steps == {"start", "match", "reserve", "search", "reserve-ai", "generate", "settle-ai",
          "release-ai", "settle", "fail", "done"}

Answers == {"none", "refused", "limit", "unavailable", "cached", "error", "unmetered", "ok"}

-----------------------------------------------------------------------------

Goto(q, step) == at' = [at EXCEPT ![q] = step] /\ UNCHANGED result

Reply(q, r) ==
    at' = [at EXCEPT ![q] = "done"] /\ result' = [result EXCEPT ![q] = r]

\* The owner updates the source: another ACL, another version.
Update ==
    /\ surface = "delegated" /\ source.version < Versions
    /\ \E allowed \in SUBSET Callers :
         source' = [version |-> source.version + 1, allowed |-> allowed]
    /\ UNCHANGED <<surface, at, caller, mode, version, unit, ai, stored, result, billed>>

\* A delegated caller must be in the ACL; a public one within the rate limit.
Admit(q) ==
    /\ at[q] = "start"
    /\ \E m \in {"search", "answer"} : mode' = [mode EXCEPT ![q] = m]
    /\ version' = [version EXCEPT ![q] = source.version]
    /\ \/ /\ surface = "delegated"
          /\ \E c \in Callers :
               /\ caller' = [caller EXCEPT ![q] = c]
               /\ IF c \in source.allowed THEN Goto(q, "match") ELSE Reply(q, "refused")
       \/ /\ surface = "public" /\ UNCHANGED caller
          /\ Goto(q, "match") \/ Reply(q, "refused")
    /\ UNCHANGED <<surface, source, unit, ai, stored, billed>>

SameKey(p, q) ==
    /\ version[p] = version[q] /\ mode[p] = mode[q]
    /\ surface = "delegated" => caller[p] = caller[q]

\* The delegated worker caches searches only.
Cacheable(q) == surface = "delegated" => mode[q] = "search"

Match(q) ==
    /\ at[q] = "match"
    /\ LET hits == {p \in cache : Cacheable(q) /\ SameKey(p, q)}
       IN IF hits = {} THEN Goto(q, "reserve") ELSE Reply(q, "cached")
    /\ UNCHANGED <<asked, unit, ai, stored, billed>>

Allowance == IF surface = "delegated" THEN DelegatedLimit ELSE PublicLimit

Held(S) == {p \in S : unit[p] \in {"active", "settled"}}

Room(q) ==
    /\ Cardinality(Held(Queries)) < Allowance
    /\ surface = "delegated" =>
         Cardinality(Held({p \in Queries : caller[p] = caller[q]})) < SubjectLimit

\* Reserves the unit, or the batch of two; the reply may be lost.
Reserve(q) ==
    /\ at[q] = "reserve"
    /\ \/ /\ Room(q) /\ unit' = [unit EXCEPT ![q] = "active"]
          /\ Goto(q, "search") \/ Reply(q, "unavailable")
       \/ ~Room(q) /\ UNCHANGED unit /\ Reply(q, "limit")
       \/ UNCHANGED unit /\ Reply(q, "unavailable")
    /\ UNCHANGED <<asked, ai, stored, billed>>

\* A public source that is not configured: the unit is given back, if the call gets there.
NotConfigured(q) ==
    /\ at[q] = "search" /\ surface = "public"
    /\ unit' \in {unit, [unit EXCEPT ![q] = IF @ = "active" THEN "released" ELSE @]}
    /\ Reply(q, "error")
    /\ UNCHANGED <<asked, ai, stored, billed>>

\* The search succeeds or throws; an answer may not be allowed to use the model.
Search(q) ==
    /\ at[q] = "search"
    /\ \/ Goto(q, IF mode[q] = "search" THEN "settle" ELSE "reserve-ai")
       \/ Goto(q, "fail")
    /\ UNCHANGED <<asked, unit, ai, stored, billed>>

\* Reserves the neurons: refused, unreachable, reserved with the reply lost, or reserved.
ReserveAi(q) ==
    /\ at[q] = "reserve-ai"
    /\ \/ UNCHANGED ai /\ Goto(q, "fail")
       \/ ai' = [ai EXCEPT ![q] = "active"] /\ (Goto(q, "fail") \/ Goto(q, "generate"))
    /\ UNCHANGED <<asked, unit, stored, billed>>

\* The call may throw before the inference and after it.
Generate(q) ==
    /\ at[q] = "generate"
    /\ \/ UNCHANGED billed /\ Goto(q, "release-ai")
       \/ billed' = billed \cup {q} /\ (Goto(q, "release-ai") \/ Goto(q, "settle-ai"))
    /\ UNCHANGED <<asked, unit, ai, stored>>

\* What settle-ai and release-ai do to the row, if the call gets there.
AiMaybe(q, status) ==
    ai' \in {ai, [ai EXCEPT ![q] = IF @ = "active" THEN status ELSE @]}

\* The status of the reply is not looked at; a call that throws leads to release-ai.
SettleAi(q) ==
    /\ at[q] = "settle-ai"
    /\ \/ /\ ai' = [ai EXCEPT ![q] = IF @ = "active" THEN "settled" ELSE @]
          /\ Goto(q, "settle")
       \/ AiMaybe(q, "settled") /\ Goto(q, "release-ai")
    /\ UNCHANGED <<asked, unit, stored, billed>>

ReleaseAi(q) ==
    /\ at[q] = "release-ai" /\ AiMaybe(q, "released") /\ Goto(q, "fail")
    /\ UNCHANGED <<asked, unit, stored, billed>>

Answered(q) ==
    /\ Reply(q, "ok")
    /\ storing' = IF Cacheable(q) THEN storing \cup {q} ELSE storing

\* Mutant of Settle: the status of the reply is not looked at.
SettleAnyway(q) ==
    /\ at[q] = "settle"
    /\ \/ /\ unit' = [unit EXCEPT ![q] = IF @ = "active" THEN "settled" ELSE @] /\ Answered(q)
       \/ Goto(q, "fail") /\ UNCHANGED <<unit, storing>>
    /\ UNCHANGED <<asked, ai, cache, billed>>

\* Settles the unit: an expired one is refused; the call may throw before or after.
Settle(q) ==
    /\ at[q] = "settle"
    /\ \/ unit[q] = "active" /\ unit' = [unit EXCEPT ![q] = "settled"] /\ Answered(q)
       \/ unit[q] # "active" /\ Reply(q, "unmetered") /\ UNCHANGED <<unit, storing>>
       \/ /\ unit' \in {unit, [unit EXCEPT ![q] = IF @ = "active" THEN "settled" ELSE @]}
          /\ Goto(q, "fail") /\ UNCHANGED storing
    /\ UNCHANGED <<asked, ai, cache, billed>>

\* A query that failed after its admission is charged, if the call gets there.
Fail(q) ==
    /\ at[q] = "fail"
    /\ unit' \in {unit, [unit EXCEPT ![q] = IF @ = "active" THEN "settled" ELSE @]}
    /\ Reply(q, "error")
    /\ UNCHANGED <<asked, ai, stored, billed>>

\* cache().put after the reply; it replaces what is there under the key.
Store(q) ==
    /\ q \in storing
    /\ storing' = storing \ {q}
    /\ cache' = {p \in cache : ~SameKey(p, q)} \cup {q}
    /\ UNCHANGED <<asked, at, unit, ai, result, billed>>

\* The result outlives its time to live, or the put is dropped with the worker.
Evict(q) ==
    /\ q \in cache \cup storing
    /\ cache' = cache \ {q} /\ storing' = storing \ {q}
    /\ UNCHANGED <<asked, at, unit, ai, result, billed>>

\* Five minutes pass.
Expire(q) ==
    /\ \/ unit[q] = "active" /\ unit' = [unit EXCEPT ![q] = "expired"] /\ UNCHANGED ai
       \/ ai[q] = "active" /\ ai' = [ai EXCEPT ![q] = "expired"] /\ UNCHANGED unit
    /\ UNCHANGED <<asked, at, stored, result, billed>>

Init ==
    /\ surface \in {"delegated", "public"}
    /\ source = [version |-> 1, allowed |-> Callers]
    /\ at = [q \in Queries |-> "start"]
    /\ caller = [q \in Queries |-> Nobody]
    /\ mode = [q \in Queries |-> "search"]
    /\ version = [q \in Queries |-> 0]
    /\ unit = [q \in Queries |-> "none"]
    /\ ai = [q \in Queries |-> "none"]
    /\ cache = {} /\ storing = {}
    /\ result = [q \in Queries |-> "none"]
    /\ billed = {}

Next ==
    \/ Update
    \/ \E q \in Queries :
         \/ Admit(q) \/ Match(q) \/ Reserve(q) \/ NotConfigured(q) \/ Search(q)
         \/ ReserveAi(q) \/ Generate(q) \/ SettleAi(q) \/ ReleaseAi(q)
         \/ Settle(q) \/ Fail(q) \/ Store(q) \/ Evict(q) \/ Expire(q)

Spec == Init /\ [][Next]_vars

-----------------------------------------------------------------------------
(***************************************************************************)
(* Properties.                                                             *)
(***************************************************************************)

\* Also: neurons are reserved only for a query that has reserved its unit.
TypeOK ==
    /\ source \in [version : 1 .. Versions, allowed : SUBSET Callers]
    /\ at \in [Queries -> Steps]
    /\ caller \in [Queries -> Callers \cup {Nobody}]
    /\ mode \in [Queries -> {"search", "answer"}]
    /\ version \in [Queries -> 0 .. Versions]
    /\ unit \in [Queries -> Statuses] /\ ai \in [Queries -> Statuses]
    /\ \A q \in Queries : ai[q] # "none" => unit[q] # "none"
    /\ result \in [Queries -> Answers]
    /\ cache \cup storing \subseteq {q \in Queries : result[q] = "ok"}

\* Who is answered by the worker itself has paid a unit, although calls fail, replies are
\* lost and reservations expire meanwhile, and the neurons of an answer were not given
\* back; who is refused, limited or answered from the cache has reserved nothing, and who
\* finds a ledger unavailable is not charged.  Whether the neurons of an answer are also
\* counted is another matter: AnswersAreCounted.
ChargedAsAnswered ==
    \A q \in Queries :
        /\ result[q] = "ok" => unit[q] = "settled"
        /\ result[q] = "ok" /\ mode[q] = "answer" => q \in billed /\ ai[q] # "released"
        /\ result[q] \in {"refused", "limit", "cached"} => unit[q] = "none" /\ ai[q] = "none"
        /\ result[q] = "unavailable" => unit[q] # "settled"

\* The paid work of an answer is settled in the AI ledger.  The code does not see to it:
\* settle-ai refuses a reservation that has expired, and neither worker looks at the
\* status of its reply, so the answer is given and its neurons are counted nowhere.
AnswersAreCounted ==
    \A q \in Queries : result[q] = "ok" /\ mode[q] = "answer" => ai[q] = "settled"

\* No more queries are answered than the limits allow, neither all callers' nor one's,
\* although the room an expired reservation leaves is given to others.
AnsweredWithinLimits ==
    LET answered == {q \in Queries : result[q] = "ok"}
    IN /\ Cardinality(answered) <= Allowance
       /\ surface = "delegated" => \A c \in Callers :
            Cardinality({q \in answered : caller[q] = c}) <= SubjectLimit

\* Queries of other agents: who is answered has paid a unit and who is not let in has not,
\* and no more are answered than the limits allow.
QueriesMetered == TypeOK /\ ChargedAsAnswered /\ AnsweredWithinLimits

=============================================================================
