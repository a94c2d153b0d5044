---------------------------- MODULE PluginRuntime ----------------------------
(***************************************************************************)
(* Invocations of dynamic plugins (apps/plugin-runtime-worker/src/index.ts *)
(* and the invoke route of the assistant).  The assistant signs a token    *)
(* that lives for two minutes; the runtime verifies it, takes a slot from  *)
(* the PluginCoordinator, reserves container time, runs the plugin in the  *)
(* sandbox, settles, and gives the slot back in a finally block.  Replies  *)
(* are lost, handlers die, one token may be delivered more than once, and  *)
(* the process in the sandbox may outlive the handler that started it.     *)
(*                                                                         *)
(* What the plugin computes, the archive it is read from and the execution *)
(* metadata are left out.                                                  *)
(***************************************************************************)
EXTENDS Naturals, FiniteSets

CONSTANTS
    Tokens,         \* invocation tokens
    Deliveries,     \* invocations as the runtime receives them
    TokenOf,        \* delivery |-> its token
    Concurrency,    \* SANDBOX_LIMITS.concurrency
    TokenLife,      \* how long a token is accepted
    ReserveLife,    \* how long a reservation is held
    PurgeAfter,     \* how long a consumed token is remembered
    MaxTime         \* bound of the clock

RuntimeConstants ==
    /\ TokenOf \in [Deliveries -> Tokens]
    /\ {Concurrency, TokenLife, ReserveLife, PurgeAfter, MaxTime} \subseteq Nat \ {0}
    /\ TokenLife <= PurgeAfter      \* two minutes and ten

VARIABLES
    now,        \* the clock of the workers
    expires,    \* when each token expires; 0 is not issued
    active,     \* active_invocations
    consumed,   \* consumed_invocation_tokens: token |-> consumed_at
    held,       \* the container reservation of each token
    at,         \* where the handler of each delivery is
    procs,      \* the deliveries whose plugin's process runs in a sandbox
    runs,       \* history: how often each token's plugin was started
    lost        \* history: the tokens whose slot nobody gives back

vars == <<now, expires, active, consumed, held, at, procs, runs, lost>>

Never == MaxTime + 1

Free == [state |-> "none", until |-> 0]

Places == {"start", "acquire", "reserve", "run", "running", "settle", "release", "done"}

Goto(d, p) == at' = [at EXCEPT ![d] = p]

-----------------------------------------------------------------------------

\* issuePluginInvocationToken, after the listing showed the plugin as active.
Issue(t) ==
    /\ expires[t] = 0
    /\ expires' = [expires EXCEPT ![t] = now + TokenLife]
    /\ UNCHANGED <<now, active, consumed, held, at, procs, runs, lost>>

\* verifyInvocationToken; signatures are sound.
Verify(d) ==
    /\ at[d] = "start" /\ expires[TokenOf[d]] # 0
    /\ Goto(d, IF now < expires[TokenOf[d]] THEN "acquire" ELSE "done")
    /\ UNCHANGED <<now, expires, active, consumed, held, procs, runs, lost>>

\* Mutant of Remembered: consumed tokens are forgotten with every acquisition.
RememberedNone == [t \in Tokens |-> Never]

\* consumed_invocation_tokens after the DELETE of /acquire.
Remembered ==
    [t \in Tokens |->
        IF consumed[t] # Never /\ consumed[t] + PurgeAfter < now THEN Never ELSE consumed[t]]

ConsumedAt == now

Refuse(d) == Goto(d, "done") /\ UNCHANGED <<active, lost>>

Full == Cardinality(active) >= Concurrency

\* The coordinator's /acquire: count, purge and the two INSERTs in one turn of its object.
\* Where its reply does not arrive, invoke throws before its try block.
Acquire(d) ==
    LET t == TokenOf[d]
    IN  /\ at[d] = "acquire"
        /\ IF Full THEN Refuse(d) /\ UNCHANGED consumed
           ELSE IF Remembered[t] # Never THEN Refuse(d) /\ consumed' = Remembered
           ELSE /\ consumed' = [Remembered EXCEPT ![t] = ConsumedAt]
                /\ IF t \in active THEN Refuse(d)
                   ELSE /\ active' = active \cup {t}
                        /\ \/ Goto(d, "reserve") /\ UNCHANGED lost
                           \/ Goto(d, "done") /\ lost' = lost \cup {t}
        /\ UNCHANGED <<now, expires, held, procs, runs>>

\* reserveContainer: granted, refused, or without an answer; then nobody settles it.
Reserve(d) ==
    LET t == TokenOf[d]
        Hold == held' = [held EXCEPT ![t] = [state |-> "active", until |-> now + ReserveLife]]
    IN  /\ at[d] = "reserve"
        /\ \/ Hold /\ Goto(d, "run")
           \/ UNCHANGED held /\ Goto(d, "release")
           \/ Hold /\ Goto(d, "release")
        /\ UNCHANGED <<now, expires, active, consumed, procs, runs, lost>>

\* The artifact or its entrypoint is missing, or the sandbox is not reached.
CannotRun(d) ==
    /\ at[d] = "run"
    /\ Goto(d, "settle")
    /\ UNCHANGED <<now, expires, active, consumed, held, procs, runs, lost>>

\* sandbox.exec starts the plugin; what is to say so may not arrive, and exec throws.
Run(d) ==
    /\ at[d] = "run"
    /\ runs' = [runs EXCEPT ![TokenOf[d]] = @ + 1]
    /\ procs' = procs \cup {d}
    /\ Goto(d, "running") \/ Goto(d, "settle")
    /\ UNCHANGED <<now, expires, active, consumed, held, lost>>

\* The process ends by itself, or the sandbox ends it at its time limit.
Exit(d) ==
    /\ d \in procs /\ procs' = procs \ {d}
    /\ UNCHANGED <<now, expires, active, consumed, held, at, runs, lost>>

\* process.output: the result of a process that has ended; or too much output, after which
\* the kill may fail; or a throw, for which no process is ended.
Finish(d) ==
    /\ at[d] = "running"
    /\ procs' \in {procs, procs \ {d}}
    /\ Goto(d, "settle")
    /\ UNCHANGED <<now, expires, active, consumed, held, runs, lost>>

\* settleContainer; a failure of it is ignored.
Settle(d) ==
    LET t == TokenOf[d]
    IN  /\ at[d] = "settle"
        /\ \/ /\ held[t].state = "active" /\ now < held[t].until
              /\ held' = [held EXCEPT ![t].state = "settled"]
           \/ UNCHANGED held
        /\ Goto(d, "release")
        /\ UNCHANGED <<now, expires, active, consumed, procs, runs, lost>>

\* Mutant of Release: the finally block ends with the settlement.
ReleaseNothing(d) ==
    /\ at[d] = "release"
    /\ Goto(d, "done")
    /\ UNCHANGED <<now, expires, active, consumed, held, procs, runs, lost>>

\* The coordinator's /release; a failure of the call is ignored.
Release(d) ==
    /\ at[d] = "release"
    /\ \/ active' = active \ {TokenOf[d]} /\ UNCHANGED lost
       \/ UNCHANGED active /\ lost' = lost \cup {TokenOf[d]}
    /\ Goto(d, "done")
    /\ UNCHANGED <<now, expires, consumed, held, procs, runs>>

\* The runtime's Worker dies; its finally block does not run.
Crash(d) ==
    /\ at[d] \notin {"start", "done"}
    /\ lost' = IF at[d] = "acquire" THEN lost ELSE lost \cup {TokenOf[d]}
    /\ Goto(d, "done")
    /\ UNCHANGED <<now, expires, active, consumed, held, procs, runs>>

\* The quota object returns what was reserved.
Expire(t) ==
    /\ held[t].state = "active" /\ held[t].until <= now
    /\ held' = [held EXCEPT ![t].state = "expired"]
    /\ UNCHANGED <<now, expires, active, consumed, at, procs, runs, lost>>

\* Time passes; the call to the coordinator takes less than a tick.
Tick ==
    /\ now < MaxTime
    /\ \A d \in Deliveries : at[d] # "acquire"
    /\ now' = now + 1
    /\ UNCHANGED <<expires, active, consumed, held, at, procs, runs, lost>>

-----------------------------------------------------------------------------

Init ==
    /\ now = 0
    /\ expires = [t \in Tokens |-> 0]
    /\ active = {}
    /\ consumed = [t \in Tokens |-> Never]
    /\ held = [t \in Tokens |-> Free]
    /\ at = [d \in Deliveries |-> "start"]
    /\ procs = {}
    /\ runs = [t \in Tokens |-> 0]
    /\ lost = {}

\* What the finally block guarantees unless the Worker dies.
Handle(d) ==
    \/ Acquire(d) \/ Reserve(d) \/ CannotRun(d) \/ Run(d) \/ Finish(d) \/ Settle(d) \/ Release(d)

Next ==
    \/ \E t \in Tokens : Issue(t) \/ Expire(t)
    \/ \E d \in Deliveries : Verify(d) \/ Handle(d) \/ Crash(d) \/ Exit(d)
    \/ Tick

Fairness == \A d \in Deliveries : WF_vars(Handle(d))

Spec == Init /\ [][Next]_vars /\ Fairness

-----------------------------------------------------------------------------
(***************************************************************************)
(* Properties.                                                             *)
(***************************************************************************)

TypeOK ==
    /\ now \in 0 .. MaxTime
    /\ expires \in [Tokens -> Nat]
    /\ active \subseteq Tokens
    /\ consumed \in [Tokens -> 0 .. Never]
    /\ held \in [Tokens -> [state : {"none", "active", "settled", "expired"}, until : Nat]]
    /\ at \in [Deliveries -> Places]
    /\ procs \subseteq Deliveries
    /\ runs \in [Tokens -> Nat]
    /\ lost \subseteq Tokens

\* One token runs its plugin once, however often it is delivered and although consumed
\* tokens are forgotten: a token is forgotten only when it is no longer accepted.
RunsOnce == \A t \in Tokens : runs[t] <= 1

\* As many invocations are under way at once as there are slots, whichever replies are
\* lost and whoever dies: each is between its acquisition and its release, for a token of
\* its own.
InvocationsWithinSlots ==
    Cardinality({d \in Deliveries :
                   at[d] \in {"reserve", "run", "running", "settle", "release"}}) <= Concurrency

\* docs/en/operations/resource-budgets.md:13, "concurrency 2 remain enforced", of the
\* plugins themselves.  The code does not see to it: where exec or output throws after the
\* plugin was started, or the kill after too much output fails, the finally block gives
\* the slot to another while the process still runs.
PluginsWithinSlots == Cardinality(procs) <= Concurrency

\* Plugins: a token runs its plugin once, and no more invocations are under way at a time
\* than there are slots.
InvocationsBounded == TypeOK /\ RunsOnce /\ InvocationsWithinSlots

\* A slot is given back unless the reply to its acquisition or its release was lost, or
\* the Worker died.
SlotsReturned == \A t \in Tokens : t \in active ~> (t \notin active \/ t \in lost)

=============================================================================
