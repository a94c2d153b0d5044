--------------------------- MODULE RequestHandlersProofs ---------------------------
(***************************************************************************)
(* Proofs about the components that serve requests and keep their own      *)
(* rows (RequestHandlers), each from the assumption on its constants:      *)
(* while it is a component's turn its invariant holds, and at the others'  *)
(* turn nothing is said of it.                                             *)
(***************************************************************************)
EXTENDS RequestHandlers, Sequences, FiniteSetTheorems, TLAPS

-----------------------------------------------------------------------------
(***************************************************************************)
(* Invocations of dynamic plugins: PluginRuntime.                          *)
(***************************************************************************)

\* The instance counts as this module does.
LEMMA RuntimeCardinality ==
    ASSUME NEW S
    PROVE  Runtime!Cardinality(S) = Cardinality(S)
BY DEF Runtime!Cardinality, Cardinality

\* A delivery that took a slot and has not given it back.
Entered(d) == runtimeAt[d] \in {"reserve", "run", "running", "settle", "release"}

\* The slot of a delivery that took one is its own.
RuntimeSlots ==
    /\ IsFiniteSet(runtimeActive) /\ Cardinality(runtimeActive) <= RuntimeConcurrency
    /\ \A d \in RuntimeDeliveries : Entered(d) => RuntimeTokenOf[d] \in runtimeActive
    /\ \A d, e \in RuntimeDeliveries : Entered(d) /\ Entered(e) /\ RuntimeTokenOf[d] = RuntimeTokenOf[e] => d = e

\* A token that was let in is remembered until it is no longer accepted.
RuntimeMemory ==
    /\ \A t \in RuntimeTokens :
          /\ runtimeExpires[t] <= runtimeNow + RuntimeTokenLife
          /\ runtimeConsumed[t] # Runtime!Never =>
                /\ runtimeConsumed[t] <= runtimeNow
                /\ runtimeExpires[t] # 0 /\ runtimeExpires[t] <= runtimeConsumed[t] + RuntimeTokenLife
          /\ runtimeRuns[t] > 0 \/ (\E d \in RuntimeDeliveries : RuntimeTokenOf[d] = t /\ Entered(d)) =>
                /\ runtimeExpires[t] # 0
                /\ runtimeConsumed[t] # Runtime!Never \/ runtimeExpires[t] <= runtimeNow
    /\ \A d \in RuntimeDeliveries : runtimeAt[d] = "acquire" => runtimeNow < runtimeExpires[RuntimeTokenOf[d]]

\* Nobody is about to run a token that ran.
RuntimeFresh ==
    \A d \in RuntimeDeliveries :
        runtimeAt[d] \in {"reserve", "run"} => runtimeRuns[RuntimeTokenOf[d]] = 0

RuntimeInv ==
    /\ Runtime!RuntimeConstants /\ Runtime!TypeOK /\ Runtime!RunsOnce
    /\ RuntimeSlots /\ RuntimeMemory /\ RuntimeFresh

LEMMA RuntimeBegins == Runtime!RuntimeConstants /\ Runtime!Init => RuntimeInv
<1> SUFFICES ASSUME Runtime!RuntimeConstants, Runtime!Init PROVE RuntimeInv
  OBVIOUS
<1>1. /\ RuntimeMaxTime \in Nat \ {0} /\ RuntimeConcurrency \in Nat /\ RuntimeTokenLife \in Nat
  BY DEF Runtime!RuntimeConstants
<1>2. RuntimeTokenOf \in [RuntimeDeliveries -> RuntimeTokens]
  BY DEF Runtime!RuntimeConstants
<1>3. Runtime!TypeOK
  BY <1>1 DEF Runtime!Init, Runtime!TypeOK, Runtime!Never, Runtime!Free, Runtime!Places
<1>4. \A d \in RuntimeDeliveries : runtimeAt[d] = "start"
  BY DEF Runtime!Init
<1>5. RuntimeSlots
  BY <1>1, <1>4, FS_EmptySet DEF Runtime!Init, RuntimeSlots, Entered
<1>6. RuntimeMemory
  BY <1>1, <1>2, <1>4 DEF Runtime!Init, RuntimeMemory, Entered, Runtime!Never
<1>7. RuntimeFresh /\ Runtime!RunsOnce
  BY <1>4 DEF Runtime!Init, RuntimeFresh, Runtime!RunsOnce
<1>8. QED
  BY <1>3, <1>5, <1>6, <1>7 DEF RuntimeInv

\* The types are kept by every step.
LEMMA RuntimeTypes == RuntimeInv /\ [Runtime!Next]_(Runtime!vars) => Runtime!TypeOK'
<1> SUFFICES ASSUME RuntimeInv, [Runtime!Next]_(Runtime!vars) PROVE Runtime!TypeOK'
  OBVIOUS
<1>1. /\ RuntimeMaxTime \in Nat \ {0} /\ RuntimeReserveLife \in Nat /\ RuntimeTokenLife \in Nat
      /\ RuntimeTokenOf \in [RuntimeDeliveries -> RuntimeTokens]
  BY DEF Runtime!RuntimeConstants, RuntimeInv
<1>2. Runtime!TypeOK
  BY DEF RuntimeInv
<1> USE <1>1, <1>2 DEF Runtime!TypeOK, Runtime!Never, Runtime!Places, Runtime!Goto,
                      Runtime!Refuse, Runtime!ConsumedAt
<1>3. ASSUME NEW t \in RuntimeTokens, Runtime!Issue(t) PROVE Runtime!TypeOK'
  BY <1>3 DEF Runtime!Issue
<1>4. ASSUME NEW t \in RuntimeTokens, Runtime!Expire(t) PROVE Runtime!TypeOK'
  BY <1>4 DEF Runtime!Expire
<1>5. ASSUME NEW d \in RuntimeDeliveries, Runtime!Verify(d) PROVE Runtime!TypeOK'
  BY <1>5 DEF Runtime!Verify
<1>6. ASSUME NEW d \in RuntimeDeliveries, Runtime!Acquire(d) PROVE Runtime!TypeOK'
  <2>1. Runtime!Remembered \in [RuntimeTokens -> 0 .. Runtime!Never]
    BY DEF Runtime!Remembered
  <2>2. RuntimeTokenOf[d] \in RuntimeTokens /\ runtimeNow \in 0 .. Runtime!Never
    OBVIOUS
  <2>3. runtimeConsumed' \in [RuntimeTokens -> 0 .. Runtime!Never]
    BY <1>6, <2>1, <2>2 DEF Runtime!Acquire
  <2>4. /\ runtimeActive' \subseteq RuntimeTokens /\ runtimeLost' \subseteq RuntimeTokens
        /\ runtimeAt' \in [RuntimeDeliveries -> Runtime!Places]
    BY <1>6, <2>2 DEF Runtime!Acquire
  <2>5. QED
    BY <1>6, <2>3, <2>4 DEF Runtime!Acquire
<1>7. ASSUME NEW d \in RuntimeDeliveries, Runtime!Reserve(d) PROVE Runtime!TypeOK'
  BY <1>7 DEF Runtime!Reserve
<1>8. ASSUME NEW d \in RuntimeDeliveries, Runtime!CannotRun(d) \/ Runtime!Finish(d)
      PROVE  Runtime!TypeOK'
  BY <1>8 DEF Runtime!CannotRun, Runtime!Finish
<1>9. ASSUME NEW d \in RuntimeDeliveries, Runtime!Run(d) \/ Runtime!Exit(d)
      PROVE  Runtime!TypeOK'
  BY <1>9 DEF Runtime!Run, Runtime!Exit
<1>10. ASSUME NEW d \in RuntimeDeliveries, Runtime!Settle(d) PROVE Runtime!TypeOK'
  <2>1. RuntimeTokenOf[d] \in RuntimeTokens
    OBVIOUS
  <2>2. runtimeHeld' \in [RuntimeTokens -> [state : {"none", "active", "settled", "expired"},
                                     until : Nat]]
    <3>1. CASE runtimeHeld' = runtimeHeld
      BY <3>1
    <3>2. CASE runtimeHeld' = [runtimeHeld EXCEPT ![RuntimeTokenOf[d]].state = "settled"]
      BY <2>1, <3>2
    <3>3. QED
      BY <1>10, <3>1, <3>2 DEF Runtime!Settle
  <2>3. QED
    BY <1>10, <2>2 DEF Runtime!Settle
<1>11. ASSUME NEW d \in RuntimeDeliveries, Runtime!Release(d) PROVE Runtime!TypeOK'
  BY <1>11 DEF Runtime!Release
<1>12. ASSUME NEW d \in RuntimeDeliveries, Runtime!Crash(d) PROVE Runtime!TypeOK'
  BY <1>12 DEF Runtime!Crash
<1>13. CASE Runtime!Tick
  BY <1>13 DEF Runtime!Tick
<1>14. CASE UNCHANGED Runtime!vars
  BY <1>14 DEF Runtime!vars
<1>15. QED
  BY <1>3, <1>4, <1>5, <1>6, <1>7, <1>8, <1>9, <1>10, <1>11, <1>12, <1>13, <1>14
     DEF Runtime!Next, Runtime!Handle

\* One slot per delivery that entered, and no more slots than the limit.
LEMMA RuntimeSlotsKept ==
    RuntimeInv /\ [Runtime!Next]_(Runtime!vars) => RuntimeSlots'
<1> SUFFICES ASSUME RuntimeInv, [Runtime!Next]_(Runtime!vars) PROVE RuntimeSlots'
  OBVIOUS
<1>1. /\ RuntimeConcurrency \in Nat /\ RuntimeTokenOf \in [RuntimeDeliveries -> RuntimeTokens]
      /\ runtimeAt \in [RuntimeDeliveries -> Runtime!Places]
      /\ RuntimeSlots /\ RuntimeMemory /\ RuntimeFresh
  BY DEF Runtime!RuntimeConstants, RuntimeInv, Runtime!TypeOK
<1>2. ASSUME runtimeActive' = runtimeActive,
             \A d \in RuntimeDeliveries : Entered(d)' => Entered(d)
      PROVE  RuntimeSlots'
  BY <1>1, <1>2 DEF RuntimeSlots
<1>3. ASSUME NEW t \in RuntimeTokens, Runtime!Issue(t) \/ Runtime!Expire(t) PROVE RuntimeSlots'
  BY <1>2, <1>3 DEF Runtime!Issue, Runtime!Expire, Entered
<1>4. ASSUME NEW d \in RuntimeDeliveries,
             \/ Runtime!Verify(d) \/ Runtime!Reserve(d) \/ Runtime!CannotRun(d)
             \/ Runtime!Run(d) \/ Runtime!Finish(d) \/ Runtime!Settle(d) \/ Runtime!Crash(d)
             \/ Runtime!Exit(d)
      PROVE  RuntimeSlots'
  BY <1>1, <1>2, <1>4
     DEF Runtime!Verify, Runtime!Reserve, Runtime!CannotRun, Runtime!Run, Runtime!Finish,
         Runtime!Settle, Runtime!Crash, Runtime!Exit, Runtime!Goto, Entered
<1>5. ASSUME NEW d \in RuntimeDeliveries, Runtime!Acquire(d) PROVE RuntimeSlots'
  <2> DEFINE t == RuntimeTokenOf[d]
  <2>1. CASE runtimeActive' = runtimeActive
    BY <1>1, <1>2, <1>5, <2>1
       DEF Runtime!Acquire, Runtime!Goto, Runtime!Refuse, Entered, RuntimeSlots
  <2>2. CASE runtimeActive' # runtimeActive
    <3>1. /\ t \notin runtimeActive /\ runtimeActive' = runtimeActive \cup {t}
          /\ ~Runtime!Full /\ runtimeAt[d] = "acquire"
          /\ runtimeAt' = [runtimeAt EXCEPT ![d] = "reserve"]
                \/ runtimeAt' = [runtimeAt EXCEPT ![d] = "done"]
      BY <1>5, <2>2 DEF Runtime!Acquire, Runtime!Goto, Runtime!Refuse
    <3>2. /\ IsFiniteSet(runtimeActive')
          /\ Cardinality(runtimeActive') = Cardinality(runtimeActive) + 1
      BY <1>1, <3>1, FS_AddElement DEF RuntimeSlots
    <3>3. Cardinality(runtimeActive') <= RuntimeConcurrency
      <4>1. Cardinality(runtimeActive) \in Nat
        BY <1>1, FS_CardinalityType DEF RuntimeSlots
      <4>2. ~(Cardinality(runtimeActive) >= RuntimeConcurrency)
        BY <3>1, RuntimeCardinality DEF Runtime!Full
      <4>3. QED
        BY <1>1, <3>2, <4>1, <4>2
    <3>4. \A e \in RuntimeDeliveries : Entered(e)' => e = d \/ Entered(e)
      BY <1>1, <3>1 DEF Entered
    <3>5. \A e \in RuntimeDeliveries : Entered(e) => RuntimeTokenOf[e] # t
      BY <1>1, <3>1 DEF RuntimeSlots
    <3>6. QED
      BY <1>1, <3>1, <3>2, <3>3, <3>4, <3>5 DEF RuntimeSlots
  <2>3. QED
    BY <2>1, <2>2
<1>6. ASSUME NEW d \in RuntimeDeliveries, Runtime!Release(d) PROVE RuntimeSlots'
  <2>1. /\ runtimeAt[d] = "release" /\ runtimeAt' = [runtimeAt EXCEPT ![d] = "done"]
        /\ runtimeActive' = runtimeActive \/ runtimeActive' = runtimeActive \ {RuntimeTokenOf[d]}
    BY <1>6 DEF Runtime!Release, Runtime!Goto
  <2>2. Entered(d) /\ \A e \in RuntimeDeliveries : Entered(e)' => e # d /\ Entered(e)
    BY <1>1, <2>1 DEF Entered
  <2>3. CASE runtimeActive' = runtimeActive
    BY <1>2, <2>2, <2>3
  <2>4. CASE runtimeActive' = runtimeActive \ {RuntimeTokenOf[d]}
    <3>1. IsFiniteSet(runtimeActive') /\ Cardinality(runtimeActive') <= RuntimeConcurrency
      <4>1. /\ IsFiniteSet(runtimeActive')
            /\ Cardinality(runtimeActive') <= Cardinality(runtimeActive)
        BY <1>1, <2>4, FS_Subset DEF RuntimeSlots
      <4>2. Cardinality(runtimeActive') \in Nat /\ Cardinality(runtimeActive) \in Nat
        BY <1>1, <4>1, FS_CardinalityType DEF RuntimeSlots
      <4>3. QED
        BY <1>1, <4>1, <4>2 DEF RuntimeSlots
    <3>2. QED
      BY <1>1, <2>2, <2>4, <3>1 DEF RuntimeSlots
  <2>5. QED
    BY <2>1, <2>3, <2>4
<1>7. CASE Runtime!Tick \/ UNCHANGED Runtime!vars
  BY <1>2, <1>7 DEF Runtime!Tick, Runtime!vars, Entered
<1>8. QED
  BY <1>3, <1>4, <1>5, <1>6, <1>7 DEF Runtime!Next, Runtime!Handle

\* What is consumed stays so while the token is accepted, and what ran was consumed.
LEMMA RuntimeMemoryKept ==
    RuntimeInv /\ [Runtime!Next]_(Runtime!vars)
      => RuntimeMemory' /\ RuntimeFresh' /\ Runtime!RunsOnce'
<1> SUFFICES ASSUME RuntimeInv, [Runtime!Next]_(Runtime!vars)
             PROVE  RuntimeMemory' /\ RuntimeFresh' /\ Runtime!RunsOnce'
  OBVIOUS
<1>1. /\ RuntimeMaxTime \in Nat /\ RuntimeTokenLife \in Nat \ {0} /\ RuntimePurgeAfter \in Nat
      /\ RuntimeTokenLife <= RuntimePurgeAfter /\ RuntimeTokenOf \in [RuntimeDeliveries -> RuntimeTokens]
      /\ runtimeNow \in Nat /\ runtimeExpires \in [RuntimeTokens -> Nat]
      /\ runtimeConsumed \in [RuntimeTokens -> Nat] /\ runtimeNow <= RuntimeMaxTime
      /\ runtimeRuns \in [RuntimeTokens -> Nat] /\ runtimeAt \in [RuntimeDeliveries -> Runtime!Places]
      /\ RuntimeSlots /\ RuntimeMemory /\ RuntimeFresh /\ Runtime!RunsOnce
  BY DEF Runtime!RuntimeConstants, RuntimeInv, Runtime!TypeOK, Runtime!Never
<1> USE DEF Runtime!Never, Runtime!Goto, Runtime!Places
<1>2. ASSUME runtimeNow' = runtimeNow, runtimeExpires' = runtimeExpires,
             runtimeConsumed' = runtimeConsumed, runtimeRuns' = runtimeRuns,
             \A d \in RuntimeDeliveries : /\ Entered(d)' => Entered(d)
                                          /\ runtimeAt'[d] = "acquire" => runtimeAt[d] = "acquire"
                                          /\ runtimeAt'[d] \in {"reserve", "run"}
                                               => runtimeAt[d] \in {"reserve", "run"}
      PROVE  RuntimeMemory' /\ RuntimeFresh' /\ Runtime!RunsOnce'
  BY <1>1, <1>2 DEF RuntimeMemory, RuntimeFresh, Runtime!RunsOnce
<1>3. ASSUME NEW t \in RuntimeTokens, Runtime!Issue(t)
      PROVE  RuntimeMemory' /\ RuntimeFresh' /\ Runtime!RunsOnce'
  <2>1. /\ runtimeExpires[t] = 0
        /\ runtimeExpires' = [runtimeExpires EXCEPT ![t] = runtimeNow + RuntimeTokenLife]
        /\ runtimeNow' = runtimeNow /\ runtimeConsumed' = runtimeConsumed
        /\ runtimeAt' = runtimeAt /\ runtimeRuns' = runtimeRuns
    BY <1>3 DEF Runtime!Issue
  <2>2. RuntimeFresh' /\ Runtime!RunsOnce'
    BY <1>1, <2>1 DEF RuntimeFresh, Runtime!RunsOnce
  <2>3. \A d \in RuntimeDeliveries : runtimeAt[d] = "acquire" \/ Entered(d) => RuntimeTokenOf[d] # t
    BY <1>1, <2>1 DEF RuntimeMemory
  <2>4. RuntimeMemory'
    BY <1>1, <2>1, <2>3 DEF RuntimeMemory, Entered
  <2>5. QED
    BY <2>2, <2>4
<1>4. ASSUME NEW t \in RuntimeTokens, Runtime!Expire(t)
      PROVE  RuntimeMemory' /\ RuntimeFresh' /\ Runtime!RunsOnce'
  BY <1>2, <1>4 DEF Runtime!Expire, Entered
<1>5. ASSUME NEW d \in RuntimeDeliveries, Runtime!Verify(d)
      PROVE  RuntimeMemory' /\ RuntimeFresh' /\ Runtime!RunsOnce'
  <2>1. /\ runtimeAt[d] = "start" /\ runtimeNow' = runtimeNow
        /\ runtimeExpires' = runtimeExpires
        /\ runtimeConsumed' = runtimeConsumed /\ runtimeRuns' = runtimeRuns
        /\ runtimeAt' = [runtimeAt EXCEPT ![d] =
                            IF runtimeNow < runtimeExpires[RuntimeTokenOf[d]] THEN "acquire" ELSE "done"]
    BY <1>5 DEF Runtime!Verify
  <2>2. \A e \in RuntimeDeliveries : Entered(e)' = Entered(e)
    BY <1>1, <2>1 DEF Entered
  <2>3. QED
    BY <1>1, <2>1, <2>2 DEF RuntimeMemory, RuntimeFresh, Runtime!RunsOnce
<1>6. ASSUME NEW d \in RuntimeDeliveries,
             \/ Runtime!Reserve(d) \/ Runtime!CannotRun(d) \/ Runtime!Finish(d)
             \/ Runtime!Settle(d) \/ Runtime!Release(d) \/ Runtime!Crash(d) \/ Runtime!Exit(d)
      PROVE  RuntimeMemory' /\ RuntimeFresh' /\ Runtime!RunsOnce'
  BY <1>1, <1>2, <1>6
     DEF Runtime!Reserve, Runtime!CannotRun, Runtime!Finish, Runtime!Settle,
         Runtime!Release, Runtime!Crash, Runtime!Exit, Entered
<1>7. ASSUME NEW d \in RuntimeDeliveries, Runtime!Run(d)
      PROVE  RuntimeMemory' /\ RuntimeFresh' /\ Runtime!RunsOnce'
  <2>1. /\ runtimeAt[d] = "run"
        /\ \/ runtimeAt' = [runtimeAt EXCEPT ![d] = "running"]
           \/ runtimeAt' = [runtimeAt EXCEPT ![d] = "settle"]
        /\ runtimeRuns' = [runtimeRuns EXCEPT ![RuntimeTokenOf[d]] = @ + 1]
        /\ runtimeNow' = runtimeNow /\ runtimeExpires' = runtimeExpires
        /\ runtimeConsumed' = runtimeConsumed
    BY <1>7 DEF Runtime!Run
  <2>2. Entered(d) /\ runtimeRuns[RuntimeTokenOf[d]] = 0
        /\ \A e \in RuntimeDeliveries : Entered(e)' = Entered(e)
    BY <1>1, <2>1 DEF Entered, RuntimeFresh
  <2>3. \A e \in RuntimeDeliveries : runtimeAt'[e] \in {"reserve", "run"}
                                => e # d /\ RuntimeTokenOf[e] # RuntimeTokenOf[d]
    BY <1>1, <2>1, <2>2 DEF RuntimeSlots, Entered
  <2>4. RuntimeFresh' /\ Runtime!RunsOnce'
    BY <1>1, <2>1, <2>2, <2>3 DEF RuntimeFresh, Runtime!RunsOnce
  <2>5. RuntimeMemory'
    BY <1>1, <2>1, <2>2 DEF RuntimeMemory
  <2>6. QED
    BY <2>4, <2>5
<1>8. ASSUME NEW d \in RuntimeDeliveries, Runtime!Acquire(d)
      PROVE  RuntimeMemory' /\ RuntimeFresh' /\ Runtime!RunsOnce'
  <2> DEFINE t == RuntimeTokenOf[d]
  <2>1. /\ runtimeAt[d] = "acquire" /\ t \in RuntimeTokens /\ runtimeNow < runtimeExpires[t]
        /\ runtimeNow' = runtimeNow /\ runtimeExpires' = runtimeExpires
        /\ runtimeRuns' = runtimeRuns
    BY <1>1, <1>8 DEF Runtime!Acquire, RuntimeMemory
  <2>2. \A x \in RuntimeTokens : Runtime!Remembered[x] # Runtime!Never =>
                             Runtime!Remembered[x] = runtimeConsumed[x]
    BY DEF Runtime!Remembered
  <2>3. \A x \in RuntimeTokens :
            runtimeConsumed[x] # Runtime!Never /\ Runtime!Remembered[x] = Runtime!Never
              => runtimeExpires[x] <= runtimeNow
    BY <1>1 DEF Runtime!Remembered, RuntimeMemory
  <2>4. CASE runtimeAt' = [runtimeAt EXCEPT ![d] = "done"]
             /\ runtimeConsumed' \in {runtimeConsumed, Runtime!Remembered}
    <3>1. \A e \in RuntimeDeliveries : /\ Entered(e)' => Entered(e)
                                       /\ runtimeAt'[e] = "acquire" => runtimeAt[e] = "acquire"
                                       /\ runtimeAt'[e] \in {"reserve", "run"}
                                            => runtimeAt[e] \in {"reserve", "run"}
      BY <1>1, <2>1, <2>4 DEF Entered
    <3>2. RuntimeFresh' /\ Runtime!RunsOnce'
      BY <1>1, <2>1, <3>1 DEF RuntimeFresh, Runtime!RunsOnce
    <3>3. RuntimeMemory'
      BY <1>1, <2>1, <2>2, <2>3, <2>4, <3>1 DEF RuntimeMemory
    <3>4. QED
      BY <3>2, <3>3
  <2>5. CASE /\ Runtime!Remembered[t] = Runtime!Never
             /\ runtimeConsumed' = [Runtime!Remembered EXCEPT ![t] = runtimeNow]
             /\ runtimeAt' \in {[runtimeAt EXCEPT ![d] = "done"],
                                [runtimeAt EXCEPT ![d] = "reserve"]}
    <3>1. runtimeConsumed[t] = Runtime!Never
      BY <1>1, <2>1, <2>3, <2>5
    <3>2. runtimeRuns[t] = 0 /\ \A e \in RuntimeDeliveries : Entered(e) => RuntimeTokenOf[e] # t
      BY <1>1, <2>1, <3>1 DEF RuntimeMemory
    <3>3. \A e \in RuntimeDeliveries : /\ Entered(e)' => e = d \/ Entered(e)
                                       /\ runtimeAt'[e] = "acquire" => runtimeAt[e] = "acquire"
                                       /\ runtimeAt'[e] \in {"reserve", "run"}
                                            => e = d \/ runtimeAt[e] \in {"reserve", "run"}
      BY <1>1, <2>1, <2>5 DEF Entered
    <3>4. RuntimeFresh' /\ Runtime!RunsOnce'
      BY <1>1, <2>1, <3>2, <3>3 DEF RuntimeFresh, Runtime!RunsOnce
    <3>5. \A x \in RuntimeTokens : runtimeConsumed'[x] =
                               IF x = t THEN runtimeNow ELSE Runtime!Remembered[x]
      BY <2>1, <2>5 DEF Runtime!Remembered
    <3>6. RuntimeMemory'
      BY <1>1, <2>1, <2>2, <2>3, <3>2, <3>3, <3>5 DEF RuntimeMemory
    <3>7. QED
      BY <3>4, <3>6
  <2>6. QED
    BY <1>8, <2>4, <2>5 DEF Runtime!Acquire, Runtime!Refuse, Runtime!ConsumedAt
<1>9. CASE Runtime!Tick
  <2>1. /\ runtimeNow' = runtimeNow + 1 /\ runtimeExpires' = runtimeExpires
        /\ runtimeConsumed' = runtimeConsumed /\ runtimeRuns' = runtimeRuns
        /\ runtimeAt' = runtimeAt /\ \A d \in RuntimeDeliveries : runtimeAt[d] # "acquire"
    BY <1>9 DEF Runtime!Tick
  <2>2. RuntimeFresh' /\ Runtime!RunsOnce'
    BY <1>1, <2>1 DEF RuntimeFresh, Runtime!RunsOnce
  <2>3. RuntimeMemory'
    BY <1>1, <2>1 DEF RuntimeMemory, Entered
  <2>4. QED
    BY <2>2, <2>3
<1>10. CASE UNCHANGED Runtime!vars
  BY <1>2, <1>10 DEF Runtime!vars, Entered
<1>11. QED
  BY <1>3, <1>4, <1>5, <1>6, <1>7, <1>8, <1>9, <1>10 DEF Runtime!Next, Runtime!Handle

\* An invocation under way holds a slot of its own.
LEMMA RuntimeBound == RuntimeInv => Runtime!InvocationsBounded
<1> SUFFICES ASSUME RuntimeInv PROVE Runtime!InvocationsBounded
  OBVIOUS
<1> DEFINE R == {d \in RuntimeDeliveries : Entered(d)}
           f == [d \in R |-> RuntimeTokenOf[d]]
<1>1. /\ RuntimeConcurrency \in Nat /\ RuntimeSlots /\ Runtime!TypeOK /\ Runtime!RunsOnce
  BY DEF RuntimeInv, Runtime!RuntimeConstants
<1>2. \A d \in R : d \in RuntimeDeliveries /\ Entered(d)
  OBVIOUS
<1>3. f \in Injection(R, runtimeActive)
  BY <1>1, <1>2 DEF RuntimeSlots, Injection, IsInjective
<1>4. IsFiniteSet(runtimeActive) /\ Cardinality(runtimeActive) <= RuntimeConcurrency
  BY <1>1 DEF RuntimeSlots
<1> HIDE DEF R, f
<1>5. IsFiniteSet(R) /\ Cardinality(R) <= Cardinality(runtimeActive)
  BY <1>3, <1>4, FS_Injection
<1>6. Cardinality(R) \in Nat /\ Cardinality(runtimeActive) \in Nat
  BY <1>4, <1>5, FS_CardinalityType
<1>7. Cardinality(R) <= RuntimeConcurrency
  BY <1>1, <1>4, <1>5, <1>6
<1>8. Runtime!InvocationsWithinSlots
  BY ONLY <1>7, RuntimeCardinality DEF R, Entered, Runtime!InvocationsWithinSlots
<1>9. QED
  BY <1>1, <1>8 DEF Runtime!InvocationsBounded

\* For any tokens, deliveries, limits and lifetimes a plugin is run once per token and at
\* most as many invocations are under way at a time as there are slots, whichever replies
\* are lost and whoever dies, provided a consumed token is remembered for as long as it is
\* accepted.  The processes in the sandboxes may be more: the code ends none that outlives
\* its invocation.
THEOREM RuntimeBounded == HandlersSpec => []InvocationsBounded
<1> DEFINE J == part = "runtime" => RuntimeInv
<1>1. HandlersInit => J
  BY InstanceConstants, RuntimeBegins DEF HandlersInit
<1>2. J /\ [HandlersNext]_allVars => J'
  <2>1. SUFFICES ASSUME J, [HandlersNext]_allVars, part' = "runtime" PROVE RuntimeInv'
    OBVIOUS
  <2>2. part = "runtime" /\ [Runtime!Next]_(Runtime!vars)
    BY <2>1 DEF HandlersNext, allVars, runtimeVars, Runtime!vars
  <2>3. QED
    BY <2>1, <2>2, RuntimeTypes, RuntimeSlotsKept, RuntimeMemoryKept
       DEF RuntimeInv, Runtime!RuntimeConstants
<1>3. J => InvocationsBounded
  BY RuntimeBound DEF InvocationsBounded
<1>4. QED
  BY <1>1, <1>2, <1>3, PTL DEF HandlersSpec

-----------------------------------------------------------------------------
(***************************************************************************)
(* Queries of other agents: AgentQueries.                                  *)
(***************************************************************************)

\* The instance counts as this module does.
LEMMA QueryCardinality ==
    ASSUME NEW S
    PROVE  AgentQuery!Cardinality(S) = Cardinality(S)
BY DEF AgentQuery!Cardinality, Cardinality

\* Where the handler of a query is, its two reservations and its bill are as it left them;
\* what may happen to them meanwhile is that they expire.
QueryPlaced(q) ==
    /\ queriesResult[q] # "none" => queriesAt[q] = "done"
    /\ queriesAt[q] \in {"start", "match", "reserve"} =>
          queriesUnit[q] = "none" /\ queriesAi[q] = "none"
    /\ queriesAt[q] \in {"search", "reserve-ai", "generate", "settle-ai", "release-ai",
                         "settle"} => queriesUnit[q] \in {"active", "expired"}
    /\ queriesAt[q] = "fail" => queriesUnit[q] # "none"
    /\ queriesAt[q] \in {"search", "reserve-ai"} => queriesAi[q] = "none"
    /\ queriesAt[q] \in {"generate", "settle-ai"} => queriesAi[q] \in {"active", "expired"}
    /\ queriesAt[q] = "settle-ai" => q \in queriesBilled
    /\ queriesAt[q] = "settle" /\ queriesMode[q] = "answer" =>
          q \in queriesBilled /\ queriesAi[q] \in {"settled", "expired"}
    /\ queriesResult[q] = "ok" /\ queriesMode[q] = "answer" =>
          queriesAi[q] \in {"settled", "expired"}

QueriesKept ==
    /\ AgentQuery!TypeOK /\ AgentQuery!ChargedAsAnswered
    /\ \A q \in QueryIds : QueryPlaced(q)

HeldBy(c) == {p \in AgentQuery!Held(QueryIds) : queriesCaller[p] = c}

\* The units that are held, settled or not, are within the limits.
QueriesRationed ==
    /\ IsFiniteSet(AgentQuery!Held(QueryIds))
    /\ Cardinality(AgentQuery!Held(QueryIds)) <= AgentQuery!Allowance
    /\ queriesSurface = "delegated" =>
         \A c \in QueryCallers : Cardinality(HeldBy(c)) <= QuerySubjectLimit

QueriesInv == AgentQuery!QueryConstants /\ QueriesKept /\ QueriesRationed

LEMMA QueriesBegin == AgentQuery!QueryConstants /\ AgentQuery!Init => QueriesInv
<1> SUFFICES ASSUME AgentQuery!QueryConstants, AgentQuery!Init PROVE QueriesInv
  OBVIOUS
<1> USE DEF AgentQuery!Init, AgentQuery!QueryConstants
<1>1. QueriesKept
  BY DEF QueriesKept, QueryPlaced, AgentQuery!TypeOK, AgentQuery!ChargedAsAnswered,
         AgentQuery!Steps, AgentQuery!Statuses, AgentQuery!Answers
<1>2. AgentQuery!Held(QueryIds) = {} /\ \A c : HeldBy(c) = {}
  BY DEF AgentQuery!Held, HeldBy
<1>3. QueriesRationed
  BY <1>2, FS_EmptySet DEF QueriesRationed, AgentQuery!Allowance
<1>4. QED
  BY <1>1, <1>3 DEF QueriesInv

LEMMA QueriesKeptInvariant ==
    QueriesInv /\ [AgentQuery!Next]_(AgentQuery!vars) => QueriesKept'
<1> SUFFICES ASSUME QueriesInv, [AgentQuery!Next]_(AgentQuery!vars) PROVE QueriesKept'
  OBVIOUS
<1>1. QueriesKept /\ QueryVersions \in Nat \ {0}
  BY DEF QueriesInv, AgentQuery!QueryConstants
<1> USE <1>1 DEF QueriesKept, QueryPlaced, AgentQuery!TypeOK, AgentQuery!ChargedAsAnswered,
         AgentQuery!Steps, AgentQuery!Statuses, AgentQuery!Answers,
         AgentQuery!Goto, AgentQuery!Reply, AgentQuery!stored, AgentQuery!asked
<1>2. CASE AgentQuery!Update
  BY <1>2 DEF AgentQuery!Update
<1>3. ASSUME NEW q \in QueryIds, AgentQuery!Admit(q) PROVE QueriesKept'
  <2> USE <1>3 DEF AgentQuery!Admit
  <2>1. AgentQuery!TypeOK'
    OBVIOUS
  <2>2. AgentQuery!ChargedAsAnswered'
    OBVIOUS
  <2>3. \A p \in QueryIds : QueryPlaced(p)'
    OBVIOUS
  <2>4. QED
    BY <2>1, <2>2, <2>3
<1>4. ASSUME NEW q \in QueryIds, AgentQuery!Match(q) PROVE QueriesKept'
  <2> USE <1>4 DEF AgentQuery!Match, AgentQuery!SameKey, AgentQuery!Cacheable
  <2>1. AgentQuery!TypeOK'
    OBVIOUS
  <2>2. AgentQuery!ChargedAsAnswered'
    OBVIOUS
  <2>3. \A p \in QueryIds : QueryPlaced(p)'
    OBVIOUS
  <2>4. QED
    BY <2>1, <2>2, <2>3
<1>5. ASSUME NEW q \in QueryIds, AgentQuery!Reserve(q) PROVE QueriesKept'
  <2> USE <1>5 DEF AgentQuery!Reserve
  <2>1. AgentQuery!TypeOK'
    OBVIOUS
  <2>2. AgentQuery!ChargedAsAnswered'
    OBVIOUS
  <2>3. \A p \in QueryIds : QueryPlaced(p)'
    OBVIOUS
  <2>4. QED
    BY <2>1, <2>2, <2>3
<1>6. ASSUME NEW q \in QueryIds, AgentQuery!NotConfigured(q) PROVE QueriesKept'
  BY <1>6 DEF AgentQuery!NotConfigured
<1>7. ASSUME NEW q \in QueryIds, AgentQuery!Search(q) PROVE QueriesKept'
  BY <1>7 DEF AgentQuery!Search
<1>8. ASSUME NEW q \in QueryIds, AgentQuery!ReserveAi(q) PROVE QueriesKept'
  BY <1>8 DEF AgentQuery!ReserveAi
<1>9. ASSUME NEW q \in QueryIds, AgentQuery!Generate(q) PROVE QueriesKept'
  BY <1>9 DEF AgentQuery!Generate
<1>10. ASSUME NEW q \in QueryIds, AgentQuery!SettleAi(q) PROVE QueriesKept'
  BY <1>10 DEF AgentQuery!SettleAi, AgentQuery!AiMaybe
<1>11. ASSUME NEW q \in QueryIds, AgentQuery!ReleaseAi(q) PROVE QueriesKept'
  BY <1>11 DEF AgentQuery!ReleaseAi, AgentQuery!AiMaybe
<1>12. ASSUME NEW q \in QueryIds, AgentQuery!Settle(q) PROVE QueriesKept'
  <2> USE <1>12 DEF AgentQuery!Settle, AgentQuery!Answered, AgentQuery!Cacheable
  <2>1. AgentQuery!TypeOK'
    OBVIOUS
  <2>2. AgentQuery!ChargedAsAnswered'
    OBVIOUS
  <2>3. \A p \in QueryIds : QueryPlaced(p)'
    OBVIOUS
  <2>4. QED
    BY <2>1, <2>2, <2>3
<1>13. ASSUME NEW q \in QueryIds, AgentQuery!Fail(q) PROVE QueriesKept'
  BY <1>13 DEF AgentQuery!Fail
<1>14. ASSUME NEW q \in QueryIds, AgentQuery!Store(q) \/ AgentQuery!Evict(q)
       PROVE  QueriesKept'
  BY <1>14 DEF AgentQuery!Store, AgentQuery!Evict, AgentQuery!SameKey
<1>15. ASSUME NEW q \in QueryIds, AgentQuery!Expire(q) PROVE QueriesKept'
  BY <1>15 DEF AgentQuery!Expire
<1>16. CASE UNCHANGED AgentQuery!vars
  BY <1>16 DEF AgentQuery!vars
<1>17. QED
  BY <1>2, <1>3, <1>4, <1>5, <1>6, <1>7, <1>8, <1>9, <1>10, <1>11, <1>12, <1>13, <1>14,
     <1>15, <1>16 DEF AgentQuery!Next

\* A query is let in only where there is room; whatever else is done to a unit, no other
\* is held after it.
LEMMA QueriesRationedInvariant ==
    QueriesInv /\ [AgentQuery!Next]_(AgentQuery!vars) => QueriesRationed'
<1> SUFFICES ASSUME QueriesInv, [AgentQuery!Next]_(AgentQuery!vars)
             PROVE  QueriesRationed'
  OBVIOUS
<1> DEFINE H == AgentQuery!Held(QueryIds)
           R == AgentQuery!Allowance
<1>1. /\ QueriesRationed /\ QuerySubjectLimit \in Nat /\ R \in Nat
      /\ queriesUnit \in [QueryIds -> AgentQuery!Statuses]
      /\ queriesCaller \in [QueryIds -> QueryCallers \cup {None}]
      /\ \A q \in QueryIds : QueryPlaced(q)
  BY DEF QueriesInv, QueriesKept, AgentQuery!QueryConstants, AgentQuery!TypeOK,
         AgentQuery!Allowance
<1>2. IsFiniteSet(H) /\ Cardinality(H) <= R
  BY <1>1 DEF QueriesRationed
<1>3. queriesSurface' = queriesSurface /\ R' = R
  BY DEF AgentQuery!Next, AgentQuery!Update, AgentQuery!Admit, AgentQuery!Match,
         AgentQuery!Reserve, AgentQuery!NotConfigured, AgentQuery!Search,
         AgentQuery!ReserveAi, AgentQuery!Generate, AgentQuery!SettleAi,
         AgentQuery!ReleaseAi, AgentQuery!Settle, AgentQuery!Fail, AgentQuery!Store,
         AgentQuery!Evict, AgentQuery!Expire, AgentQuery!vars, AgentQuery!asked,
         AgentQuery!Allowance
<1>4. ASSUME H' \subseteq H, \A p \in H' : queriesCaller'[p] = queriesCaller[p]
      PROVE  QueriesRationed'
  <2>1. IsFiniteSet(H') /\ Cardinality(H') <= Cardinality(H)
    BY <1>2, <1>4, FS_Subset
  <2>2. ASSUME NEW c PROVE /\ IsFiniteSet(HeldBy(c)) /\ IsFiniteSet(HeldBy(c)')
                           /\ Cardinality(HeldBy(c)') <= Cardinality(HeldBy(c))
    <3>1. HeldBy(c) \subseteq H /\ HeldBy(c)' \subseteq HeldBy(c)
      BY <1>4 DEF HeldBy
    <3>2. QED
      BY <1>2, <3>1, FS_Subset
  <2>3. QED
    BY <1>1, <1>2, <1>3, <2>1, <2>2, FS_CardinalityType DEF QueriesRationed
<1>5. ASSUME NEW q \in QueryIds, queriesAt[q] = "reserve", AgentQuery!Room(q),
             queriesUnit' = [queriesUnit EXCEPT ![q] = "active"],
             queriesCaller' = queriesCaller
      PROVE  QueriesRationed'
  <2>1. H' = H \cup {q} /\ q \notin H
    BY <1>1, <1>5 DEF AgentQuery!Held, QueryPlaced
  <2>2. IsFiniteSet(H') /\ Cardinality(H') = Cardinality(H) + 1 /\ Cardinality(H) < R
    <3>1. Cardinality(H) < R
      BY <1>5, QueryCardinality DEF AgentQuery!Room
    <3>2. QED
      BY <1>2, <2>1, <3>1, FS_AddElement
  <2>3. ASSUME queriesSurface = "delegated", NEW c \in QueryCallers
        PROVE  Cardinality(HeldBy(c)') <= QuerySubjectLimit
    <3>1. IsFiniteSet(HeldBy(c)) /\ Cardinality(HeldBy(c)) \in Nat
          /\ Cardinality(HeldBy(c)) <= QuerySubjectLimit
      <4>1. HeldBy(c) \subseteq H
        BY DEF HeldBy
      <4>2. QED
        BY <1>1, <1>2, <2>3, <4>1, FS_Subset, FS_CardinalityType DEF QueriesRationed
    <3>2. CASE queriesCaller[q] # c
      <4>1. HeldBy(c)' = HeldBy(c)
        BY <1>5, <2>1, <3>2 DEF HeldBy
      <4>2. QED
        BY <3>1, <4>1
    <3>3. CASE queriesCaller[q] = c
      <4>1. HeldBy(c)' = HeldBy(c) \cup {q} /\ q \notin HeldBy(c)
        BY <1>5, <2>1, <3>3 DEF HeldBy
      <4>2. AgentQuery!Held({p \in QueryIds : queriesCaller[p] = queriesCaller[q]})
              = HeldBy(c)
        BY <3>3 DEF HeldBy, AgentQuery!Held
      <4>3. Cardinality(HeldBy(c)) < QuerySubjectLimit
        BY <1>5, <2>3, <4>2, QueryCardinality DEF AgentQuery!Room
      <4>4. Cardinality(HeldBy(c)') = Cardinality(HeldBy(c)) + 1
        BY <3>1, <4>1, FS_AddElement
      <4>5. QED
        BY <1>1, <3>1, <4>3, <4>4
    <3>4. QED
      BY <3>2, <3>3
  <2>4. QED
    BY <1>1, <1>2, <1>3, <2>2, <2>3, FS_CardinalityType DEF QueriesRationed
<1>6. ASSUME NEW q \in QueryIds, AgentQuery!Reserve(q) PROVE QueriesRationed'
  BY <1>4, <1>5, <1>6 DEF AgentQuery!Reserve, AgentQuery!asked, AgentQuery!Held
<1>7. ASSUME NEW q \in QueryIds, AgentQuery!Admit(q) PROVE QueriesRationed'
  <2>1. q \notin H /\ H' = H
    BY <1>1, <1>7 DEF AgentQuery!Admit, QueryPlaced, AgentQuery!Held
  <2>2. \A p \in QueryIds \ {q} : queriesCaller'[p] = queriesCaller[p]
    BY <1>1, <1>7 DEF AgentQuery!Admit
  <2>3. QED
    BY <1>4, <2>1, <2>2 DEF AgentQuery!Held
<1>8. ASSUME NEW q \in QueryIds,
             AgentQuery!NotConfigured(q) \/ AgentQuery!Settle(q) \/ AgentQuery!Fail(q)
             \/ AgentQuery!Expire(q)
      PROVE  QueriesRationed'
  <2>1. queriesCaller' = queriesCaller /\ H' \subseteq H
    BY <1>1, <1>8 DEF AgentQuery!NotConfigured, AgentQuery!Settle, AgentQuery!Fail,
       AgentQuery!Expire, AgentQuery!asked, AgentQuery!Held
  <2>2. QED
    BY <1>4, <2>1
<1>9. ASSUME queriesUnit' = queriesUnit, queriesCaller' = queriesCaller
      PROVE  QueriesRationed'
  BY <1>4, <1>9 DEF AgentQuery!Held
<1>10. QED
  BY <1>6, <1>7, <1>8, <1>9
     DEF AgentQuery!Next, AgentQuery!Update, AgentQuery!Match, AgentQuery!Search,
         AgentQuery!ReserveAi, AgentQuery!Generate, AgentQuery!SettleAi,
         AgentQuery!ReleaseAi, AgentQuery!Store, AgentQuery!Evict, AgentQuery!vars,
         AgentQuery!asked

\* Who was answered holds a settled unit.
LEMMA QueriesBound == QueriesInv => AgentQuery!QueriesMetered
<1> SUFFICES ASSUME QueriesInv PROVE AgentQuery!AnsweredWithinLimits
  BY DEF QueriesInv, QueriesKept, AgentQuery!QueriesMetered
<1> DEFINE H == AgentQuery!Held(QueryIds)
           A == {q \in QueryIds : queriesResult[q] = "ok"}
           By(c) == {q \in A : queriesCaller[q] = c}
<1>1. QueriesRationed /\ QuerySubjectLimit \in Nat /\ AgentQuery!Allowance \in Nat
  BY DEF QueriesInv, AgentQuery!QueryConstants, AgentQuery!Allowance
<1>2. A \subseteq H /\ \A c : By(c) \subseteq HeldBy(c) /\ HeldBy(c) \subseteq H
  BY DEF QueriesInv, QueriesKept, AgentQuery!ChargedAsAnswered, AgentQuery!Held, HeldBy
<1>3. Cardinality(A) <= AgentQuery!Allowance
  BY <1>1, <1>2, FS_Subset, FS_CardinalityType DEF QueriesRationed
<1>4. ASSUME queriesSurface = "delegated", NEW c \in QueryCallers
      PROVE  Cardinality(By(c)) <= QuerySubjectLimit
  <2>1. IsFiniteSet(HeldBy(c)) /\ Cardinality(HeldBy(c)) <= QuerySubjectLimit
    BY <1>1, <1>2, <1>4, FS_Subset DEF QueriesRationed
  <2>2. QED
    BY <1>1, <1>2, <2>1, FS_Subset, FS_CardinalityType
<1>5. QED
  BY <1>3, <1>4, QueryCardinality DEF AgentQuery!AnsweredWithinLimits

\* For any callers, limits and queries of other agents: whoever is answered has paid a
\* unit and had no neurons given back, whoever is refused or answered from the cache has
\* reserved nothing, and no more are answered than the limits of all and of one allow.
\* That the neurons of an answer are counted is not claimed: the code does not see to it.
THEOREM QueriesAreMetered == HandlersSpec => []QueriesMetered
<1> DEFINE J == part = "queries" => QueriesInv
<1>1. HandlersInit => J
  BY InstanceConstants, QueriesBegin DEF HandlersInit
<1>2. J /\ [HandlersNext]_allVars => J'
  <2>1. SUFFICES ASSUME J, [HandlersNext]_allVars, part' = "queries" PROVE QueriesInv'
    OBVIOUS
  <2>2. part = "queries" /\ [AgentQuery!Next]_(AgentQuery!vars)
    BY <2>1 DEF HandlersNext, allVars, queriesVars, AgentQuery!vars
  <2>3. QED
    BY <2>1, <2>2, QueriesKeptInvariant, QueriesRationedInvariant
       DEF QueriesInv, AgentQuery!QueryConstants
<1>3. J => QueriesMetered
  BY QueriesBound DEF QueriesMetered
<1>4. QED
  BY <1>1, <1>2, <1>3, PTL DEF HandlersSpec

-----------------------------------------------------------------------------
(***************************************************************************)
(* What is sent to Discord: DiscordNotices.                                *)
(***************************************************************************)

\* As long as no digest was lost and no two manifests were synchronised at once, the digest
\* that is about to be stored is that of the registered manifest, and otherwise the one that
\* is stored.
ManifestInOrder ==
    ~noticesCut =>
        /\ \A s \in NoticeSyncs :
              noticesSync[s].at = "store" => noticesRegistered = noticesSync[s].version
        /\ (\A s \in NoticeSyncs : noticesSync[s].at # "store")
              => noticesStored = noticesRegistered
        /\ \A s, t \in NoticeSyncs :
              noticesSync[s].at # "idle" /\ noticesSync[t].at # "idle"
                => noticesSync[s].version = noticesSync[t].version

\* A destination that is still to be served is so once, and was neither served nor queued;
\* of a notice that has not begun, and of a secret one, there is nothing.
NoticeServedOnce ==
    \A n \in NoticeIds, d \in NoticeDestinations :
        /\ \A p, q \in Notice!Active :
              <<d, p>> \in noticesLeft[n] /\ <<d, q>> \in noticesLeft[n] => p = q
        /\ \A p \in Notice!Active :
              <<d, p>> \in noticesLeft[n] =>
                  /\ noticesShown[n][d] = "nothing" /\ <<n, d>> \notin noticesOutbox
                  /\ n \in noticesBegun \ noticesSecret
        /\ <<n, d>> \in noticesOutbox \/ noticesShown[n][d] # "nothing" =>
              n \in noticesBegun \ noticesSecret
        /\ <<n, d>> \in noticesOutbox => noticesShown[n][d] = "nothing"

NoticesInv ==
    Notice!NoticeConstants /\ Notice!TypeOK /\ ManifestInOrder /\ NoticeServedOnce

LEMMA NoticesBegin == Notice!NoticeConstants /\ Notice!Init => NoticesInv
<1> SUFFICES ASSUME Notice!NoticeConstants, Notice!Init PROVE NoticesInv
  OBVIOUS
<1> USE DEF Notice!NoticeConstants, Notice!Init
<1>1. Notice!TypeOK
  <2>1. /\ {noticesReleased, noticesRegistered, noticesStored} \subseteq 0 .. NoticeReleases
        /\ noticesSync \in [NoticeSyncs -> [at : {"idle", "put", "store"},
                                           version : 0 .. NoticeReleases]]
        /\ noticesCut \in BOOLEAN
    <3>1. NoticeReleases \in Nat \ {0} /\ 0 \in 0 .. NoticeReleases /\ 1 \in 0 .. NoticeReleases
      OBVIOUS
    <3>2. QED
      BY <3>1
  <2>2. /\ noticesDest \in [NoticeDestinations -> {"none", "revoked"} \cup Notice!Active]
        /\ noticesLeft \in [NoticeIds -> SUBSET (NoticeDestinations \X Notice!Active)]
        /\ noticesShown \in [NoticeIds -> [NoticeDestinations -> Notice!Contents]]
    BY DEF Notice!Active, Notice!Contents
  <2>3. \A n \in NoticeIds, d \in NoticeDestinations, p \in Notice!Active :
           <<d, p>> \in noticesLeft[n] => noticesShown[n][d] = "nothing"
    OBVIOUS
  <2>4. QED
    BY <2>1, <2>2, <2>3 DEF Notice!TypeOK
<1>2. ManifestInOrder
  BY DEF ManifestInOrder
<1>3. NoticeServedOnce
  BY DEF NoticeServedOnce, Notice!Active
<1>4. QED
  BY <1>1, <1>2, <1>3 DEF NoticesInv

LEMMA NoticesInvariant == NoticesInv /\ [Notice!Next]_(Notice!vars) => NoticesInv'
<1> SUFFICES ASSUME NoticesInv, [Notice!Next]_(Notice!vars) PROVE NoticesInv'
  OBVIOUS
<1>1. /\ NoticeReleases \in Nat \ {0} /\ Notice!NoticeConstants' /\ Notice!TypeOK
      /\ ManifestInOrder /\ NoticeServedOnce
  BY DEF NoticesInv, Notice!NoticeConstants
<1>2. ASSUME UNCHANGED Notice!delivery PROVE NoticeServedOnce'
  BY <1>1, <1>2 DEF NoticeServedOnce, Notice!delivery
<1>3. ASSUME UNCHANGED Notice!manifest PROVE ManifestInOrder'
  BY <1>1, <1>3 DEF ManifestInOrder, Notice!manifest
<1>4. CASE Notice!Manifest
  <2>1. UNCHANGED <<noticesDest, Notice!delivery>>
    BY <1>4 DEF Notice!Manifest, Notice!Release, Notice!Sync, Notice!Put, Notice!Store,
       Notice!SyncFails, Notice!delivery
  <2> DEFINE Calls == [NoticeSyncs -> [at : {"idle", "put", "store"},
                                       version : 0 .. NoticeReleases]]
             Kept == /\ noticesReleased' \in 0 .. NoticeReleases
                     /\ noticesRegistered' \in 0 .. NoticeReleases
                     /\ noticesStored' \in 0 .. NoticeReleases
                     /\ noticesSync' \in Calls /\ noticesCut' \in BOOLEAN
                     /\ ManifestInOrder'
  <2>2. /\ noticesSync \in Calls /\ noticesCut \in BOOLEAN
        /\ noticesReleased \in 0 .. NoticeReleases /\ noticesRegistered \in 0 .. NoticeReleases
        /\ noticesStored \in 0 .. NoticeReleases
    BY <1>1 DEF Notice!TypeOK
  <2>3. Kept
    <3>1. ASSUME NEW v \in 1 .. NoticeReleases, Notice!Release(v) PROVE Kept
      BY <1>1, <2>2, <3>1 DEF Notice!Release, ManifestInOrder
    <3>2. ASSUME NEW s \in NoticeSyncs, Notice!Sync(s) PROVE Kept
      BY <1>1, <2>2, <3>2 DEF Notice!Sync, ManifestInOrder
    <3>3. ASSUME NEW s \in NoticeSyncs, Notice!Put(s) PROVE Kept
      BY <1>1, <2>2, <3>3 DEF Notice!Put, ManifestInOrder
    <3>4. ASSUME NEW s \in NoticeSyncs, Notice!Store(s) PROVE Kept
      BY <1>1, <2>2, <3>4 DEF Notice!Store, ManifestInOrder
    <3>5. ASSUME NEW s \in NoticeSyncs, Notice!SyncFails(s) PROVE Kept
      BY <1>1, <2>2, <3>5 DEF Notice!SyncFails, ManifestInOrder
    <3>6. QED
      BY <1>4, <3>1, <3>2, <3>3, <3>4, <3>5 DEF Notice!Manifest
  <2>4. Notice!TypeOK'
    BY <1>1, <2>1, <2>3 DEF Notice!TypeOK, Notice!delivery
  <2>5. QED
    BY <1>1, <1>2, <2>1, <2>3, <2>4 DEF NoticesInv
<1>5. ASSUME NEW d \in NoticeDestinations,
             Notice!Revoke(d) \/ \E p \in Notice!Active : Notice!Configure(d, p)
      PROVE  NoticesInv'
  <2>1. /\ noticesDest' \in [NoticeDestinations -> {"none", "revoked"} \cup Notice!Active]
        /\ UNCHANGED <<Notice!manifest, Notice!delivery>>
    BY <1>1, <1>5 DEF Notice!Revoke, Notice!Configure, Notice!TypeOK, Notice!Active
  <2>2. Notice!TypeOK'
    BY <1>1, <2>1 DEF Notice!TypeOK, Notice!delivery, Notice!manifest
  <2>3. QED
    BY <1>1, <1>2, <1>3, <2>1, <2>2 DEF NoticesInv
<1>6. ASSUME NEW n \in NoticeIds, NEW isSecret \in BOOLEAN, Notice!Begin(n, isSecret)
      PROVE  NoticesInv'
  <2>1. UNCHANGED <<Notice!manifest, noticesDest, noticesShown, noticesOutbox>>
        /\ n \notin noticesBegun /\ noticesBegun' = noticesBegun \cup {n}
        /\ noticesSecret' = IF isSecret THEN noticesSecret \cup {n} ELSE noticesSecret
    BY <1>6 DEF Notice!Begin
  <2>2. PICK L : noticesLeft' = [noticesLeft EXCEPT ![n] = L]
                 /\ L \subseteq {<<d, noticesDest[d]>> : d \in {e \in NoticeDestinations :
                                                      noticesDest[e] \in Notice!Active}}
                 /\ (isSecret => L = {})
    BY <1>6 DEF Notice!Begin
  <2>3. /\ L \subseteq NoticeDestinations \X Notice!Active
        /\ \A d \in NoticeDestinations, p \in Notice!Active :
              <<d, p>> \in L => p = noticesDest[d] /\ ~isSecret
    BY <2>2
  <2>4. \A d \in NoticeDestinations :
           noticesShown[n][d] = "nothing" /\ <<n, d>> \notin noticesOutbox
    BY <1>1, <2>1 DEF NoticeServedOnce
  <2>5. Notice!TypeOK'
    BY <1>1, <2>1, <2>2, <2>3, <2>4 DEF Notice!TypeOK, Notice!manifest
  <2>6. NoticeServedOnce'
    <3>1. /\ noticesLeft'[n] = L /\ n \notin noticesSecret
          /\ \A m \in NoticeIds \ {n} : /\ noticesLeft'[m] = noticesLeft[m]
                                        /\ m \in noticesSecret' <=> m \in noticesSecret
      BY <1>1, <2>1, <2>2 DEF Notice!TypeOK
    <3>2. n \in noticesSecret' => isSecret
      BY <2>1, <3>1
    <3> DEFINE P(m, d) ==
          /\ \A p, q \in Notice!Active :
                <<d, p>> \in noticesLeft[m] /\ <<d, q>> \in noticesLeft[m] => p = q
          /\ \A p \in Notice!Active :
                <<d, p>> \in noticesLeft[m] =>
                    /\ noticesShown[m][d] = "nothing" /\ <<m, d>> \notin noticesOutbox
                    /\ m \in noticesBegun \ noticesSecret
          /\ <<m, d>> \in noticesOutbox \/ noticesShown[m][d] # "nothing" =>
                m \in noticesBegun \ noticesSecret
          /\ <<m, d>> \in noticesOutbox => noticesShown[m][d] = "nothing"
    <3>3. ASSUME NEW d \in NoticeDestinations PROVE P(n, d)'
      BY <2>1, <2>3, <2>4, <3>1, <3>2
    <3>4. ASSUME NEW m \in NoticeIds \ {n}, NEW d \in NoticeDestinations PROVE P(m, d)'
      <4>1. P(m, d)
        BY <1>1 DEF NoticeServedOnce
      <4>2. /\ noticesLeft'[m] = noticesLeft[m] /\ noticesShown' = noticesShown
            /\ noticesOutbox' = noticesOutbox
            /\ m \in noticesBegun \ noticesSecret => m \in noticesBegun' \ noticesSecret'
        BY <2>1, <3>1
      <4>3. QED
        BY ONLY <4>1, <4>2
    <3>5. QED
      BY <3>3, <3>4 DEF NoticeServedOnce
  <2>7. QED
    BY <1>1, <1>3, <2>1, <2>5, <2>6 DEF NoticesInv
<1>7. ASSUME NEW n \in NoticeIds, NEW d \in NoticeDestinations, NEW p \in Notice!Active,
             Notice!Deliver(n, d, p) \/ Notice!Uncertain(n, d, p)
      PROVE  NoticesInv'
  <2>1. UNCHANGED <<Notice!manifest, noticesDest, noticesBegun, noticesSecret, noticesOutbox>>
        /\ <<d, p>> \in noticesLeft[n]
        /\ noticesLeft' = [noticesLeft EXCEPT ![n] = @ \ {<<d, p>>}]
    BY <1>7 DEF Notice!Deliver, Notice!Uncertain, Notice!Show
  <2>2. PICK c \in Notice!Contents : noticesShown' = [noticesShown EXCEPT ![n][d] = c]
    BY <1>7 DEF Notice!Deliver, Notice!Uncertain, Notice!Show, Notice!Content,
       Notice!Contents
  <2>3. \A m \in NoticeIds, e \in NoticeDestinations : <<m, e>> # <<n, d>> =>
           noticesShown'[m][e] = noticesShown[m][e]
    BY <1>1, <2>2 DEF Notice!TypeOK
  <2>4. \A m \in NoticeIds, e \in NoticeDestinations, q \in Notice!Active :
           <<e, q>> \in noticesLeft'[m] => <<e, q>> \in noticesLeft[m] /\ <<m, e>> # <<n, d>>
    BY <1>1, <2>1 DEF Notice!TypeOK, NoticeServedOnce
  <2>5. Notice!TypeOK'
    BY <1>1, <2>1, <2>2, <2>3, <2>4 DEF Notice!TypeOK, Notice!manifest
  <2>6. NoticeServedOnce'
    BY <1>1, <2>1, <2>3, <2>4 DEF NoticeServedOnce
  <2>7. QED
    BY <1>1, <1>3, <2>1, <2>5, <2>6 DEF NoticesInv
<1>8. ASSUME NEW n \in NoticeIds, NEW d \in NoticeDestinations, NEW p \in Notice!Active,
             Notice!Queue(n, d, p)
      PROVE  NoticesInv'
  <2>1. UNCHANGED <<Notice!manifest, noticesDest, noticesBegun, noticesSecret, noticesShown>>
        /\ <<d, p>> \in noticesLeft[n]
        /\ noticesLeft' = [noticesLeft EXCEPT ![n] = @ \ {<<d, p>>}]
        /\ noticesOutbox' = noticesOutbox \cup {<<n, d>>}
    BY <1>8 DEF Notice!Queue
  <2>2. \A m \in NoticeIds, e \in NoticeDestinations, q \in Notice!Active :
           <<e, q>> \in noticesLeft'[m] => <<e, q>> \in noticesLeft[m] /\ <<m, e>> # <<n, d>>
    BY <1>1, <2>1 DEF Notice!TypeOK, NoticeServedOnce
  <2>3. Notice!TypeOK'
    BY <1>1, <2>1, <2>2 DEF Notice!TypeOK, Notice!manifest
  <2>4. NoticeServedOnce'
    BY <1>1, <2>1, <2>2 DEF NoticeServedOnce
  <2>5. QED
    BY <1>1, <1>3, <2>1, <2>3, <2>4 DEF NoticesInv
<1>9. ASSUME NEW n \in NoticeIds, Notice!Die(n) PROVE NoticesInv'
  <2>1. UNCHANGED <<Notice!manifest, noticesDest, noticesBegun, noticesSecret, noticesShown,
                    noticesOutbox>>
        /\ noticesLeft' = [noticesLeft EXCEPT ![n] = {}]
    BY <1>9 DEF Notice!Die
  <2>2. \A m \in NoticeIds : noticesLeft'[m] \subseteq noticesLeft[m]
    BY <1>1, <2>1 DEF Notice!TypeOK
  <2>3. Notice!TypeOK'
    BY <1>1, <2>1, <2>2 DEF Notice!TypeOK, Notice!manifest
  <2>4. NoticeServedOnce'
    BY <1>1, <2>1, <2>2 DEF NoticeServedOnce
  <2>5. QED
    BY <1>1, <1>3, <2>1, <2>3, <2>4 DEF NoticesInv
<1>10. CASE UNCHANGED Notice!vars
  <2>1. Notice!TypeOK'
    BY <1>1, <1>10 DEF Notice!TypeOK, Notice!vars
  <2>2. QED
    BY <1>1, <1>2, <1>3, <1>10, <2>1 DEF NoticesInv, Notice!vars, Notice!manifest,
       Notice!delivery
<1>11. QED
  BY <1>4, <1>5, <1>6, <1>7, <1>8, <1>9, <1>10 DEF Notice!Next, Notice!Notification

\* Whatever is released, rolled back and notified, and whatever fails: a synchronisation that
\* is skipped was not needed (unless a digest was lost, or manifests were synchronised at
\* once), a queued message was not shown, and no secret is (discord-gatekeeper's index.ts).
THEOREM NoticesAreTrue == HandlersSpec => []NoticesTrue
<1> DEFINE J == part = "notices" => NoticesInv
<1>1. HandlersInit => J
  BY InstanceConstants, NoticesBegin DEF HandlersInit
<1>2. J /\ [HandlersNext]_allVars => J'
  <2>1. SUFFICES ASSUME J, [HandlersNext]_allVars, part' = "notices" PROVE NoticesInv'
    OBVIOUS
  <2>2. part = "notices" /\ [Notice!Next]_(Notice!vars)
    BY <2>1 DEF HandlersNext, allVars, noticesVars, Notice!vars
  <2>3. QED
    BY <2>1, <2>2, NoticesInvariant
<1>3. J => NoticesTrue
  <2>1. ManifestInOrder => Notice!UnchangedIsRegistered
    BY DEF ManifestInOrder, Notice!UnchangedIsRegistered
  <2>2. NoticeServedOnce /\ Notice!TypeOK => Notice!QueuedWasNotSent
    BY DEF NoticeServedOnce, Notice!TypeOK, Notice!QueuedWasNotSent
  <2>3. QED
    BY <2>1, <2>2 DEF NoticesTrue, NoticesInv
<1>4. QED
  BY <1>1, <1>2, <1>3, PTL DEF HandlersSpec

-----------------------------------------------------------------------------
(***************************************************************************)
(* Exports and retention: Maintenance.                                     *)
(***************************************************************************)

\* How far an export is, its job, its objects and its rows belong together; only what is
\* over is old, and what retention has read to delete is of old exports.
UpkeepPlaced(e) ==
    /\ upkeepExport[e] \in {"start", "insert"} =>
          upkeepJob[e] = "none" /\ upkeepRow[e] = {}
    /\ upkeepExport[e] \in {"put", "record", "succeed"} => upkeepJob[e] = "running"
    /\ upkeepExport[e] = "put" =>
          upkeepRow[e] \in {{}, {"conversations"}} /\ upkeepObject[e] = upkeepRow[e]
    /\ upkeepExport[e] = "record" =>
          \/ upkeepRow[e] = {} /\ upkeepObject[e] = {"conversations"}
          \/ upkeepRow[e] = {"conversations"} /\ upkeepObject[e] = Upkeep!Files
    /\ upkeepExport[e] = "succeed" \/ (upkeepJob[e] = "succeeded" /\ e \notin upkeepOld) =>
          upkeepRow[e] = Upkeep!Files /\ upkeepObject[e] = Upkeep!Files
    /\ upkeepJob[e] = "none" => upkeepObject[e] = {}
    /\ upkeepExport[e] # "record" /\ e \notin upkeepTorn => upkeepObject[e] \subseteq upkeepRow[e]
    /\ e \in upkeepOld => upkeepExport[e] = "done" /\ upkeepJob[e] # "none"
    /\ upkeepRetention.files[e] # {} => e \in upkeepOld
    /\ upkeepRetention.at = "delete rows" =>
          upkeepObject[e] \cap upkeepRetention.files[e] = {}

UpkeepOrderly ==
    /\ \A e \in UpkeepExports : UpkeepPlaced(e)
    /\ Upkeep!OneJobPerKey

\* An upload that is not recorded and an installation that has found its inspection have
\* their archive, and the archive retention is about to delete is unused, unless they met.
UpkeepArchived ==
    /\ Upkeep!InstallableHasArchive
    /\ \A u \in UpkeepUploads :
          upkeepUpload[u] \in {"record", "install"} => upkeepArchive \/ upkeepOverlapped
    /\ Upkeep!Deleting => ~Upkeep!Used \/ upkeepOverlapped

ExportTypes ==
    /\ upkeepExport \in
         [UpkeepExports -> {"start", "insert", "put", "record", "succeed", "done"}]
    /\ upkeepJob \in
         [UpkeepExports -> {"none", "running", "succeeded", "failed", "gone"}]
    /\ upkeepObject \in [UpkeepExports -> SUBSET Upkeep!Files]
    /\ upkeepRow \in [UpkeepExports -> SUBSET Upkeep!Files]
    /\ upkeepOld \subseteq UpkeepExports /\ upkeepTorn \subseteq UpkeepExports

UploadTypes ==
    /\ upkeepArchive \in BOOLEAN /\ upkeepArtifact \in BOOLEAN
    /\ upkeepVersion \in BOOLEAN /\ upkeepOverlapped \in BOOLEAN
    /\ upkeepUpload \in [UpkeepUploads -> {"start", "record", "recorded", "install"}]
    /\ upkeepInspection \in [UpkeepUploads -> {"none", "accepted", "past", "gone"}]

RetentionTypes ==
    upkeepRetention \in
         [at : {"idle", "delete objects", "delete rows", "delete jobs",
                "expire inspections", "judge archive", "delete archive",
                "delete artifact", "roll up"},
          files : [UpkeepExports -> SUBSET Upkeep!Files]]

UpkeepInv == ExportTypes /\ UploadTypes /\ RetentionTypes /\ UpkeepOrderly /\ UpkeepArchived

LEMMA UpkeepBegins == Upkeep!Init => UpkeepInv
<1> SUFFICES ASSUME Upkeep!Init PROVE UpkeepInv
  OBVIOUS
<1> USE DEF Upkeep!Init, Upkeep!Idle, Upkeep!Files
<1>1. ExportTypes /\ UploadTypes /\ RetentionTypes
  BY DEF ExportTypes, UploadTypes, RetentionTypes
<1>2. UpkeepOrderly
  BY DEF UpkeepOrderly, UpkeepPlaced, Upkeep!OneJobPerKey
<1>3. UpkeepArchived
  BY DEF UpkeepArchived, Upkeep!InstallableHasArchive, Upkeep!Used, Upkeep!Inspected,
         Upkeep!Deleting
<1>4. QED
  BY <1>1, <1>2, <1>3 DEF UpkeepInv

\* A step of an export: the other exports are as they were, and so is the archive.
LEMMA UpkeepExportStep ==
    ASSUME UpkeepInv, NEW e \in UpkeepExports,
           \/ Upkeep!FindJob(e) \/ Upkeep!InsertJob(e) \/ Upkeep!PutFile(e)
           \/ Upkeep!RecordFile(e) \/ Upkeep!Succeed(e) \/ Upkeep!ExportFails(e)
           \/ Upkeep!Age(e)
    PROVE  UpkeepInv'
<1>1. ExportTypes /\ UploadTypes /\ RetentionTypes /\ UpkeepOrderly /\ UpkeepArchived
  BY DEF UpkeepInv
<1>2. UNCHANGED <<Upkeep!plugins, upkeepRetention>>
  BY DEF Upkeep!FindJob, Upkeep!InsertJob, Upkeep!PutFile, Upkeep!RecordFile,
         Upkeep!Succeed, Upkeep!ExportFails, Upkeep!Age
<1>3. UpkeepArchived' /\ UploadTypes' /\ RetentionTypes'
  BY <1>1, <1>2 DEF UpkeepArchived, Upkeep!InstallableHasArchive, Upkeep!Used,
     Upkeep!Inspected, Upkeep!Deleting, Upkeep!plugins, UploadTypes, RetentionTypes
<1> USE DEF Upkeep!FindJob, Upkeep!InsertJob, Upkeep!PutFile, Upkeep!RecordFile,
         Upkeep!Succeed, Upkeep!ExportFails, Upkeep!Age, Upkeep!Goto, Upkeep!File,
         Upkeep!Files
<1>4. ExportTypes'
  BY <1>1 DEF ExportTypes
<1>5. \A d \in UpkeepExports \ {e} :
         /\ upkeepExport'[d] = upkeepExport[d] /\ upkeepJob'[d] = upkeepJob[d]
         /\ upkeepObject'[d] = upkeepObject[d] /\ upkeepRow'[d] = upkeepRow[d]
         /\ (d \in upkeepOld' <=> d \in upkeepOld) /\ (d \in upkeepTorn' <=> d \in upkeepTorn)
  BY <1>1 DEF ExportTypes
<1>6. ASSUME NEW d \in UpkeepExports \ {e} PROVE UpkeepPlaced(d)'
  <2>1. UpkeepPlaced(d) /\ upkeepRetention' = upkeepRetention
    BY <1>1, <1>2 DEF UpkeepOrderly
  <2>2. QED
    BY ONLY <1>5, <2>1 DEF UpkeepPlaced
<1>7. UpkeepPlaced(e)'
  <2> USE <1>1, <1>2 DEF ExportTypes, UpkeepOrderly, UpkeepPlaced
  <2>1. CASE Upkeep!FindJob(e)
    BY <2>1
  <2>2. CASE Upkeep!InsertJob(e)
    BY <2>2
  <2>3. CASE Upkeep!PutFile(e)
    BY <2>3
  <2>4. CASE Upkeep!RecordFile(e)
    BY <2>4
  <2>5. CASE Upkeep!Succeed(e)
    BY <2>5
  <2>6. CASE Upkeep!ExportFails(e)
    BY <2>6
  <2>7. CASE Upkeep!Age(e)
    BY <2>7
  <2>8. QED
    BY <2>1, <2>2, <2>3, <2>4, <2>5, <2>6, <2>7
<1>8. Upkeep!OneJobPerKey'
  <2>1. CASE upkeepJob'[e] \in {"none", "gone"} \/ upkeepJob[e] \notin {"none", "gone"}
    BY <1>1, <1>5, <2>1 DEF UpkeepOrderly, Upkeep!OneJobPerKey
  <2>2. CASE upkeepJob'[e] \notin {"none", "gone"} /\ upkeepJob[e] \in {"none", "gone"}
    <3>1. ~Upkeep!Known(e)
      BY <1>1, <2>2 DEF UpkeepOrderly, UpkeepPlaced, ExportTypes
    <3>2. QED
      BY <1>1, <1>5, <3>1 DEF UpkeepOrderly, Upkeep!OneJobPerKey, Upkeep!Known
  <2>3. QED
    BY <2>1, <2>2
<1>9. QED
  BY <1>3, <1>4, <1>6, <1>7, <1>8 DEF UpkeepInv, UpkeepOrderly

\* Uploads and installations leave the exports alone.
LEMMA UpkeepUploadStep ==
    ASSUME UpkeepInv, NEW u \in UpkeepUploads,
           \/ Upkeep!Inspect(u) \/ Upkeep!RecordInspection(u) \/ Upkeep!FindInspection(u)
           \/ Upkeep!InsertVersion(u) \/ Upkeep!AgeInspection(u)
    PROVE  UpkeepInv'
<1>1. ExportTypes /\ UploadTypes /\ RetentionTypes /\ UpkeepOrderly /\ UpkeepArchived
  BY DEF UpkeepInv
<1> USE DEF Upkeep!Inspect, Upkeep!RecordInspection, Upkeep!FindInspection,
            Upkeep!InsertVersion, Upkeep!AgeInspection, Upkeep!UploadTo
<1>2. UNCHANGED <<Upkeep!exporting, upkeepRetention>>
  OBVIOUS
<1>3. UpkeepOrderly' /\ ExportTypes' /\ RetentionTypes'
  BY <1>1, <1>2 DEF UpkeepOrderly, UpkeepPlaced, Upkeep!OneJobPerKey, ExportTypes,
     RetentionTypes, Upkeep!exporting
<1>4. UploadTypes'
  BY <1>1 DEF UploadTypes
<1>5. UpkeepArchived'
  <2> USE <1>1 DEF UploadTypes, UpkeepArchived, Upkeep!InstallableHasArchive, Upkeep!Used,
          Upkeep!Inspected, Upkeep!Deleting
  <2>1. CASE Upkeep!Inspect(u)
    BY <2>1
  <2>2. CASE Upkeep!RecordInspection(u)
    BY <2>2
  <2>3. CASE Upkeep!FindInspection(u)
    BY <2>3
  <2>4. CASE Upkeep!InsertVersion(u)
    BY <2>4
  <2>5. CASE Upkeep!AgeInspection(u)
    BY <2>5
  <2>6. QED
    BY <2>1, <2>2, <2>3, <2>4, <2>5
<1>6. QED
  BY <1>3, <1>4, <1>5 DEF UpkeepInv

\* Retention deletes objects before their rows, of old exports only, and an archive only
\* when it is unused.
LEMMA UpkeepRetentionStep ==
    ASSUME UpkeepInv, Upkeep!Retention
    PROVE  UpkeepInv'
<1>1. ExportTypes /\ UploadTypes /\ RetentionTypes /\ UpkeepOrderly /\ UpkeepArchived
  BY DEF UpkeepInv
<1> USE DEF Upkeep!Then, Upkeep!Idle, Upkeep!Retention, Upkeep!ReadFiles, Upkeep!DeleteObjects,
            Upkeep!DeleteRows, Upkeep!DeleteJobs, Upkeep!ExpireInspections,
            Upkeep!JudgeArchive, Upkeep!DeleteArchive, Upkeep!DeleteArtifact,
            Upkeep!RollUp, Upkeep!RetentionFails, Upkeep!exporting, Upkeep!plugins
<1>2. RetentionTypes'
  <2> USE <1>1 DEF RetentionTypes, ExportTypes
  <2>1. CASE Upkeep!ReadFiles
    BY <2>1
  <2>2. CASE upkeepRetention' = Upkeep!Idle
    BY <2>2
  <2>3. CASE \E step \in {"delete rows", "delete jobs", "expire inspections",
                         "judge archive", "delete archive", "delete artifact", "roll up"} :
               upkeepRetention' = [upkeepRetention EXCEPT !.at = step]
    BY <2>3
  <2>4. QED
    BY <2>1, <2>2, <2>3
<1>3. ExportTypes'
  <2> USE <1>1 DEF RetentionTypes, ExportTypes
  <2>1. CASE Upkeep!DeleteObjects
    BY <2>1
  <2>2. CASE Upkeep!DeleteRows
    BY <2>2
  <2>3. CASE Upkeep!DeleteJobs
    BY <2>3
  <2>4. CASE UNCHANGED Upkeep!exporting
    BY <2>4
  <2>5. QED
    BY <2>1, <2>2, <2>3, <2>4
<1>4. UploadTypes'
  BY <1>1 DEF UploadTypes
<1>5. ASSUME NEW e \in UpkeepExports PROVE UpkeepPlaced(e)'
  <2> USE <1>1 DEF ExportTypes, RetentionTypes, UpkeepOrderly, UpkeepPlaced
  <2>1. CASE Upkeep!ReadFiles
    BY <2>1
  <2>2. CASE Upkeep!DeleteObjects
    BY <2>2
  <2>3. CASE Upkeep!DeleteRows
    BY <2>3
  <2>4. CASE Upkeep!DeleteJobs
    BY <2>4
  <2>5. CASE UNCHANGED Upkeep!exporting /\ upkeepRetention'.at # "delete rows"
             /\ upkeepRetention'.files[e] \in {{}, upkeepRetention.files[e]}
    BY <2>5
  <2>6. CASE UNCHANGED Upkeep!exporting /\ upkeepRetention' = Upkeep!Idle
    BY <2>5, <2>6
  <2>7. CASE /\ UNCHANGED Upkeep!exporting
             /\ \E step \in {"judge archive", "delete archive", "delete artifact", "roll up"} :
                  upkeepRetention' = [upkeepRetention EXCEPT !.at = step]
    BY <2>5, <2>7
  <2>8. QED
    BY ONLY Upkeep!Retention, <2>1, <2>2, <2>3, <2>4, <2>6, <2>7
<1>6. Upkeep!OneJobPerKey'
  BY <1>1 DEF UpkeepOrderly, Upkeep!OneJobPerKey, ExportTypes
<1>7. UpkeepArchived'
  <2> USE <1>1 DEF UploadTypes, UpkeepArchived, Upkeep!InstallableHasArchive, Upkeep!Used,
          Upkeep!Inspected, Upkeep!Deleting, RetentionTypes
  <2>1. CASE Upkeep!ExpireInspections
    BY <2>1
  <2>2. CASE Upkeep!JudgeArchive
    BY <2>2
  <2>3. CASE Upkeep!DeleteArchive
    BY <2>3
  <2>4. CASE Upkeep!DeleteArtifact
    BY <2>4
  <2>5. CASE UNCHANGED Upkeep!plugins
             /\ upkeepRetention'.at \notin {"delete archive", "delete artifact"}
    BY <2>5
  <2>6. CASE Upkeep!ReadFiles \/ Upkeep!DeleteObjects \/ Upkeep!DeleteRows
             \/ Upkeep!DeleteJobs \/ Upkeep!RollUp \/ Upkeep!RetentionFails
    <3>1. UNCHANGED Upkeep!plugins
          /\ upkeepRetention'.at \notin {"delete archive", "delete artifact"}
      <4>1. CASE Upkeep!ReadFiles
        BY <4>1
      <4>2. CASE Upkeep!RollUp \/ Upkeep!RetentionFails
        <5>1. UNCHANGED Upkeep!plugins /\ upkeepRetention' = Upkeep!Idle
          BY <4>2
        <5>2. QED
          BY ONLY <5>1
      <4>3. CASE Upkeep!DeleteObjects \/ Upkeep!DeleteRows \/ Upkeep!DeleteJobs
        BY <4>3
      <4>4. QED
        BY <2>6, <4>1, <4>2, <4>3
    <3>2. QED
      BY ONLY <2>5, <3>1
  <2>7. QED
    BY <2>1, <2>2, <2>3, <2>4, <2>6
<1>8. QED
  BY <1>2, <1>3, <1>4, <1>5, <1>6, <1>7 DEF UpkeepInv, UpkeepOrderly

\* For any exports and uploads, and wherever retention and they are interrupted: a repeated
\* export is made once and can be downloaded as a whole, no object that is still there is
\* forgotten, and the archives that are used or can be installed are kept.
THEOREM FilesAreKept == HandlersSpec => []UpkeepKeepsFiles
<1> DEFINE J == part = "upkeep" => UpkeepInv
<1>1. HandlersInit => J
  BY UpkeepBegins DEF HandlersInit
<1>2. J /\ [HandlersNext]_allVars => J'
  <2>1. SUFFICES ASSUME J, [HandlersNext]_allVars, part' = "upkeep" PROVE UpkeepInv'
    OBVIOUS
  <2>2. UpkeepInv /\ (Upkeep!Next \/ UNCHANGED Upkeep!vars)
    BY <2>1 DEF HandlersNext, allVars, upkeepVars, Upkeep!vars, Upkeep!exporting,
       Upkeep!plugins
  <2>3. CASE UNCHANGED Upkeep!vars
    <3> USE <2>2, <2>3 DEF Upkeep!vars, Upkeep!exporting, Upkeep!plugins
    <3>1. ExportTypes' /\ UploadTypes' /\ RetentionTypes'
      BY DEF UpkeepInv, ExportTypes, UploadTypes, RetentionTypes
    <3>2. UpkeepOrderly'
      BY DEF UpkeepInv, UpkeepOrderly, UpkeepPlaced, Upkeep!OneJobPerKey
    <3>3. UpkeepArchived'
      BY DEF UpkeepInv, UpkeepArchived, Upkeep!InstallableHasArchive, Upkeep!Used,
             Upkeep!Inspected, Upkeep!Deleting
    <3>4. QED
      BY <3>1, <3>2, <3>3 DEF UpkeepInv
  <2>4. QED
    BY <2>2, <2>3, UpkeepExportStep, UpkeepUploadStep, UpkeepRetentionStep
       DEF Upkeep!Next
<1>3. J => UpkeepKeepsFiles
  <2>1. UpkeepInv => Upkeep!TypeOK
    BY DEF UpkeepInv, ExportTypes, UploadTypes, RetentionTypes, UpkeepOrderly,
           UpkeepPlaced, Upkeep!TypeOK
  <2>2. UpkeepInv => Upkeep!SucceededIsComplete /\ Upkeep!ForgottenIsErased
    BY DEF UpkeepInv, UpkeepOrderly, UpkeepPlaced, Upkeep!SucceededIsComplete,
           Upkeep!ForgottenIsErased
  <2>3. QED
    BY <2>1, <2>2 DEF UpkeepKeepsFiles, UpkeepInv, UpkeepOrderly, UpkeepArchived
<1>4. QED
  BY <1>1, <1>2, <1>3, PTL DEF HandlersSpec

-----------------------------------------------------------------------------
(***************************************************************************)
(* Conversations and their registry: ConversationRegistry.                 *)
(***************************************************************************)

\* An object has its row and its first message from one creation; without tables it is
\* empty.
Sound(o) ==
    /\ o.row = o.initialized /\ o.texts = IF o.initialized THEN 1 ELSE 0
    /\ ~o.tables => ~o.row /\ o.stored = {} /\ o.memory = None

\* No deletion of the conversation has begun.
Undisturbed(c) ==
    \A d \in RegistryDeletions : RegistryOf[d] = c => registryAt[d] = "start"

RegistryTypes ==
    /\ registryObject \in [RegistryConversations -> Registry!Object]
    /\ registryRow \in [RegistryConversations -> Registry!Row \cup {None}]
    /\ registryAt \in [Registry!OwnerRequests ->
                         {"start", "initialize", "metadata", "register", "mark", "done"}]
    /\ registrySeen \in [Registry!OwnerRequests -> 0..RegistryObjectLimit]
    /\ registryAnswer \in [Registry!OwnerRequests -> {"none", "ok", "deleted", "failed"}]
    /\ registryMarked \subseteq RegistryDeletions
    /\ registryOrder \in [RegistryConversations -> Seq(RegistryMemories)]

RequestPlaced(r) ==
    /\ registryAt[r] = "initialize" => r \in RegistryCreations
    /\ registryAt[r] = "mark" => r \in RegistryDeletions
    /\ registryAt[r] \in {"metadata", "register"} =>
          r \in RegistryCreations \cup RegistryReads

RequestsPlaced == \A r \in Registry!OwnerRequests : RequestPlaced(r)

\* Until a deletion begins, what was created is there, and its row, once there is one, is
\* listed.
CreationsKept ==
    /\ \A c \in RegistryConversations :
          Undisturbed(c) =>
              /\ registryObject[c].tables
              /\ registryRow[c] # None => ~registryRow[c].deleted
    /\ \A p \in RegistryCreations :
          /\ Undisturbed(RegistryOf[p])
                /\ (registryAt[p] \in {"metadata", "register"} \/ registryAnswer[p] = "ok")
                => registryObject[RegistryOf[p]].initialized
          /\ registryAnswer[p] = "ok" => registryRow[RegistryOf[p]] # None

MarksKept ==
    \A d \in registryMarked :
        registryRow[RegistryOf[d]] # None /\ registryRow[RegistryOf[d]].deleted

\* The keys an object remembers are those of the requests that took effect in it.
Remembered(o, s) ==
    /\ o.stored = {RegistryKeyOf[s[i]] : i \in 1 .. Len(s)}
    /\ o.memory = IF s = <<>> THEN None ELSE RegistryValueOf[s[Len(s)]]

MemoryKept ==
    \A c \in RegistryConversations : Remembered(registryObject[c], registryOrder[c])

ObjectsSound == \A c \in RegistryConversations : Sound(registryObject[c])

RegistryInv ==
    /\ Registry!RegistryConstants /\ RegistryTypes /\ RequestsPlaced /\ ObjectsSound
    /\ CreationsKept /\ MarksKept /\ MemoryKept

LEMMA RegistryBegins ==
    ASSUME Registry!RegistryConstants, NEW scene, Registry!InitOf(scene)
    PROVE  RegistryInv
<1>1. /\ RegistryObjectLimit \in Nat /\ None \notin RegistryValues
      /\ RegistryOf \in [Registry!OwnerRequests -> RegistryConversations]
  BY DEF Registry!RegistryConstants
<1> USE DEF Registry!InitOf, Registry!Empty
<1>2. RegistryTypes
  BY <1>1 DEF RegistryTypes, Registry!Object
<1>3. RequestsPlaced /\ ObjectsSound /\ MarksKept
  BY DEF RequestsPlaced, RequestPlaced, ObjectsSound, Sound, MarksKept
<1>4. CreationsKept
  BY <1>1 DEF CreationsKept, Registry!OwnerRequests
<1>5. MemoryKept
  BY DEF MemoryKept, Remembered
<1>6. QED
  BY <1>2, <1>3, <1>4, <1>5 DEF RegistryInv

\* What the object's handlers make of it.
LEMMA ObjectHandlers ==
    ASSUME RegistryObjectLimit \in Nat, NEW o \in Registry!Object, Sound(o)
    PROVE  /\ o.tables /\ Registry!Writable(o) =>
                /\ Registry!Created(o) \in Registry!Object /\ Sound(Registry!Created(o))
                /\ Registry!Created(o).initialized /\ Registry!Created(o).tables
                /\ Registry!Created(o).stored = o.stored
                /\ Registry!Created(o).memory = o.memory
           /\ Registry!Erased(o) \in Registry!Object /\ Sound(Registry!Erased(o))
           /\ Registry!Erased(o).stored = IF o.row THEN {} ELSE o.stored
           /\ Registry!Erased(o).memory = IF o.row THEN None ELSE o.memory
<1> USE DEF Registry!Object, Sound
<1>1. ASSUME o.tables, Registry!Writable(o), ~o.initialized
      PROVE  /\ Registry!Created(o) \in Registry!Object /\ Sound(Registry!Created(o))
             /\ Registry!Created(o).initialized /\ Registry!Created(o).tables
             /\ Registry!Created(o).stored = o.stored
             /\ Registry!Created(o).memory = o.memory
  <2>1. Registry!Created(o) =
          [row |-> TRUE, texts |-> o.texts + 1, initialized |-> TRUE, stored |-> o.stored,
           memory |-> o.memory, size |-> o.size + 1, tables |-> o.tables]
    BY <1>1 DEF Registry!Created
  <2>2. o.size + 1 \in 0 .. RegistryObjectLimit /\ o.texts + 1 = 1
    BY <1>1 DEF Registry!Writable
  <2>3. QED
    BY <1>1, <2>1, <2>2
<1>2. o.initialized => Registry!Created(o) = o
  BY DEF Registry!Created
<1>3. /\ Registry!Empty \in Registry!Object /\ Sound(Registry!Empty)
      /\ Registry!Empty.stored = {} /\ Registry!Empty.memory = None
      /\ Registry!Torn \in Registry!Object /\ Sound(Registry!Torn)
      /\ Registry!Torn.stored = {} /\ Registry!Torn.memory = None
  <2>1. /\ Registry!Empty \in Registry!Object
        /\ ~Registry!Empty.row /\ ~Registry!Empty.initialized /\ Registry!Empty.texts = 0
        /\ Registry!Empty.stored = {} /\ Registry!Empty.memory = None
    BY DEF Registry!Empty
  <2>2. QED
    BY <2>1 DEF Registry!Torn
<1>4. /\ Registry!Erased(o) \in Registry!Object /\ Sound(Registry!Erased(o))
      /\ Registry!Erased(o).stored = IF o.row THEN {} ELSE o.stored
      /\ Registry!Erased(o).memory = IF o.row THEN None ELSE o.memory
  BY <1>3 DEF Registry!Erased
<1>5. QED
  BY <1>1, <1>2, <1>4

\* What is made of a row: a registration leaves deleted as it is, a mark sets it.
LEMMA RowHandlers ==
    ASSUME None \notin Registry!Row, NEW row \in Registry!Row \cup {None},
           NEW bytes \in 0 .. RegistryObjectLimit
    PROVE  /\ Registry!Registered(row, bytes) \in Registry!Row
           /\ Registry!Registered(row, bytes).deleted = (row # None /\ row.deleted)
           /\ row # None =>
                /\ [row EXCEPT !.deleted = TRUE] \in Registry!Row
                /\ [row EXCEPT !.deleted = TRUE].deleted
<1>1. CASE row = None
  BY <1>1 DEF Registry!Registered, Registry!Row
<1>2. CASE row \in Registry!Row
  <2>1. [row EXCEPT !.deleted = TRUE] \in Registry!Row /\ [row EXCEPT !.deleted = TRUE].deleted
    BY <1>2 DEF Registry!Row
  <2>2. \A b \in 0 .. RegistryObjectLimit :
          [row EXCEPT !.bytes = b] \in Registry!Row /\ [row EXCEPT !.bytes = b].deleted = row.deleted
    BY <1>2 DEF Registry!Row
  <2>3. row.bytes \in 0 .. RegistryObjectLimit /\ row # None /\ row.deleted \in BOOLEAN
    BY <1>2 DEF Registry!Row
  <2>4. QED
    BY <2>1, <2>2, <2>3 DEF Registry!Registered
<1>3. QED
  BY <1>1, <1>2

\* A handler's step that leaves the objects alone, and the rows but for one it registers.
LEMMA RequestStep ==
    ASSUME RegistryInv, NEW r \in Registry!OwnerRequests,
           \/ Registry!StorageStatus(r) \/ Registry!Metadata(r) \/ Registry!Register(r)
           \/ Registry!ReadState(r) \/ Registry!EraseUnreachable(r) \/ Registry!Mark(r)
           \/ Registry!Fail(r)
    PROVE  RegistryInv'
<1>1. /\ RegistryTypes /\ RequestsPlaced /\ ObjectsSound /\ CreationsKept /\ MarksKept
      /\ MemoryKept /\ RegistryObjectLimit \in Nat
      /\ RegistryOf \in [Registry!OwnerRequests -> RegistryConversations]
      /\ None \notin Registry!Row /\ RegistryCreations \cap RegistryDeletions = {}
  BY DEF RegistryInv, Registry!RegistryConstants
<1>2. UNCHANGED <<registryObject, registryOrder>> /\ Registry!RegistryConstants'
  BY DEF RegistryInv, Registry!StorageStatus, Registry!Metadata, Registry!Register,
         Registry!ReadState, Registry!EraseUnreachable, Registry!Mark, Registry!Fail,
         Registry!RegistryConstants
<1>3. ObjectsSound' /\ MemoryKept'
  BY <1>1, <1>2 DEF ObjectsSound, MemoryKept
<1> DEFINE c == RegistryOf[r]
           row == registryRow[c]
           new == Registry!Registered(row, registrySeen[r])
           gone == [row EXCEPT !.deleted = TRUE]
<1>4. /\ c \in RegistryConversations /\ row \in Registry!Row \cup {None}
      /\ registrySeen[r] \in 0 .. RegistryObjectLimit
  BY <1>1 DEF RegistryTypes
<1>5. /\ new \in Registry!Row /\ new # None /\ new.deleted = (row # None /\ row.deleted)
      /\ row # None => gone \in Registry!Row /\ gone # None /\ gone.deleted
  BY <1>1, <1>4, RowHandlers
\* The row of the conversation stays, is registered, or marked.
<1>6. /\ \/ registryRow' = registryRow
         \/ /\ registryRow' = [registryRow EXCEPT ![c] = new]
            /\ registryAt[r] = "register"
         \/ /\ row # None /\ registryRow' = [registryRow EXCEPT ![c] = gone]
            /\ registryAt[r] = "mark"
      /\ \/ registryMarked' = registryMarked
         \/ /\ row # None /\ registryRow' = [registryRow EXCEPT ![c] = gone]
            /\ registryAt[r] = "mark" /\ registryMarked' = registryMarked \cup {r}
  BY DEF Registry!StorageStatus, Registry!Metadata, Registry!Register, Registry!ReadState,
         Registry!EraseUnreachable, Registry!Mark, Registry!Fail
\* The handler goes on.
<1>7. /\ \/ registryAnswer' = registryAnswer
         \/ registryAnswer' = [registryAnswer EXCEPT ![r] = "deleted"]
         \/ registryAnswer' = [registryAnswer EXCEPT ![r] = "failed"]
         \/ /\ registryAnswer' = [registryAnswer EXCEPT ![r] = "ok"]
            /\ registryAt[r] = "register" /\ registryRow' = [registryRow EXCEPT ![c] = new]
      /\ \/ /\ registryAt' = [registryAt EXCEPT ![r] = "initialize"] /\ r \in RegistryCreations
         \/ /\ registryAt' = [registryAt EXCEPT ![r] = "mark"] /\ r \in RegistryDeletions
         \/ /\ registryAt' = [registryAt EXCEPT ![r] = "metadata"] /\ r \in RegistryReads
            /\ registryAt[r] = "start" /\ registryObject[c].row
         \/ /\ registryAt' = [registryAt EXCEPT ![r] = "register"]
            /\ registryAt[r] = "metadata"
         \/ registryAt' = [registryAt EXCEPT ![r] = "done"]
  <2> USE DEF Registry!Goto, Registry!Reply
  <2>1. CASE Registry!StorageStatus(r)
    BY <2>1 DEF Registry!StorageStatus
  <2>2. CASE Registry!Metadata(r)
    BY <2>2 DEF Registry!Metadata
  <2>3. CASE Registry!Register(r)
    BY <2>3 DEF Registry!Register
  <2>4. CASE Registry!ReadState(r)
    BY <2>4 DEF Registry!ReadState, Registry!Readable
  <2>5. CASE Registry!EraseUnreachable(r)
    BY <2>5 DEF Registry!EraseUnreachable
  <2>6. CASE Registry!Mark(r) \/ Registry!Fail(r)
    BY <2>6 DEF Registry!Mark, Registry!Fail
  <2>7. QED
    BY <2>1, <2>2, <2>3, <2>4, <2>5, <2>6
<1> HIDE DEF row, new, gone
<1>8. RegistryTypes'
  <2>1. registryRow' \in [RegistryConversations -> Registry!Row \cup {None}]
    <3>1. registryRow \in [RegistryConversations -> Registry!Row \cup {None}]
      BY <1>1 DEF RegistryTypes
    <3>2. QED
      BY ONLY <1>4, <1>5, <1>6, <3>1
  <2>2. registrySeen' \in [Registry!OwnerRequests -> 0..RegistryObjectLimit]
    <3>1. Registry!Size(registryObject[c]) \in 0 .. RegistryObjectLimit
      BY <1>1, <1>4 DEF RegistryTypes, Registry!Size, Registry!Object
    <3>2. \E n \in 0 .. RegistryObjectLimit :
             registrySeen' \in {registrySeen, [registrySeen EXCEPT ![r] = n]}
      BY <1>1, <3>1 DEF Registry!StorageStatus, Registry!Metadata, Registry!Register,
         Registry!ReadState, Registry!EraseUnreachable, Registry!Mark, Registry!Fail
    <3>3. QED
      BY <1>1, <3>2 DEF RegistryTypes
  <2>3. registryMarked' \subseteq RegistryDeletions
    BY <1>1, <1>6 DEF RegistryTypes, RequestsPlaced, RequestPlaced
  <2>4. QED
    BY <1>1, <1>2, <1>7, <2>1, <2>2, <2>3 DEF RegistryTypes
<1>9. RequestsPlaced'
  BY <1>1, <1>7 DEF RequestsPlaced, RequestPlaced, RegistryTypes
<1>10. MarksKept'
  <2>1. registryRow \in [RegistryConversations -> Registry!Row \cup {None}]
        /\ RegistryOf \in [Registry!OwnerRequests -> RegistryConversations]
        /\ MarksKept /\ \A d \in registryMarked : d \in Registry!OwnerRequests
    BY <1>1 DEF RegistryTypes, Registry!OwnerRequests
  <2>2. row = registryRow[RegistryOf[r]]
    BY DEF row
  <2>3. QED
    <3>1. ASSUME NEW d \in registryMarked
          PROVE  registryRow'[RegistryOf[d]] # None /\ registryRow'[RegistryOf[d]].deleted
      <4>1. RegistryOf[d] \in RegistryConversations /\ registryRow[RegistryOf[d]] # None
            /\ registryRow[RegistryOf[d]].deleted
        BY <2>1 DEF MarksKept
      <4>2. QED
        BY ONLY <1>4, <1>5, <1>6, <2>1, <2>2, <4>1
    <3>2. ASSUME registryMarked' # registryMarked
          PROVE  registryMarked' = registryMarked \cup {r}
                 /\ registryRow'[c] # None /\ registryRow'[c].deleted
      BY ONLY <1>4, <1>5, <1>6, <2>1, <3>2
    <3>3. QED
      BY <3>1, <3>2 DEF MarksKept
<1>11. CreationsKept'
  <2>1. ASSUME NEW b \in RegistryConversations, Undisturbed(b)'
        PROVE  Undisturbed(b) /\ (b = c => registryAt[r] # "mark" \/ r \notin RegistryDeletions)
    BY <1>1, <1>7, <2>1 DEF Undisturbed, RegistryTypes, Registry!OwnerRequests
  <2>2. ASSUME NEW b \in RegistryConversations, Undisturbed(b)'
        PROVE  /\ registryObject'[b].tables
               /\ registryRow'[b] # None => ~registryRow'[b].deleted
    <3>1. registryObject[b].tables /\ (registryRow[b] # None => ~registryRow[b].deleted)
      BY <1>1, <2>1, <2>2 DEF CreationsKept
    <3>2. b = c => registryAt[r] # "mark"
      BY <1>1, <2>1, <2>2 DEF RequestsPlaced, RequestPlaced
    <3>3. registryRow \in [RegistryConversations -> Registry!Row \cup {None}]
          /\ row = registryRow[RegistryOf[r]]
      BY <1>1 DEF RegistryTypes, row
    <3>4. registryRow'[b] # None => ~registryRow'[b].deleted
      BY ONLY <1>4, <1>5, <1>6, <3>1, <3>2, <3>3
    <3>5. QED
      BY <1>2, <3>1, <3>4
  <2>3. ASSUME NEW q \in RegistryCreations, Undisturbed(RegistryOf[q])',
               registryAt'[q] \in {"metadata", "register"} \/ registryAnswer'[q] = "ok"
        PROVE  registryObject'[RegistryOf[q]].initialized
    <3>1. q \in Registry!OwnerRequests /\ RegistryOf[q] \in RegistryConversations
      BY <1>1 DEF Registry!OwnerRequests
    <3>2. Undisturbed(RegistryOf[q])
      BY <2>1, <2>3, <3>1
    <3>3. CASE registryAt[q] \in {"metadata", "register"} \/ registryAnswer[q] = "ok"
      BY <1>1, <1>2, <3>2, <3>3 DEF CreationsKept
    <3>4. CASE q = r /\ registryObject[c].row
      BY <1>1, <1>2, <1>4, <3>4 DEF ObjectsSound, Sound
    <3>5. QED
      BY <1>1, <1>7, <2>3, <3>1, <3>3, <3>4 DEF RegistryTypes
  <2>4. ASSUME NEW q \in RegistryCreations, registryAnswer'[q] = "ok"
        PROVE  registryRow'[RegistryOf[q]] # None
    <3>1. q \in Registry!OwnerRequests /\ RegistryOf[q] \in RegistryConversations
      BY <1>1 DEF Registry!OwnerRequests
    <3>2. registryRow \in [RegistryConversations -> Registry!Row \cup {None}]
          /\ row = registryRow[RegistryOf[r]]
          /\ registryAnswer \in [Registry!OwnerRequests -> {"none", "ok", "deleted", "failed"}]
          /\ (registryAnswer[q] = "ok" => registryRow[RegistryOf[q]] # None)
      BY <1>1 DEF RegistryTypes, CreationsKept, row
    <3>3. QED
      BY ONLY <1>4, <1>5, <1>6, <1>7, <2>4, <3>1, <3>2
  <2>5. QED
    BY <2>2, <2>3, <2>4 DEF CreationsKept, Undisturbed
<1>12. QED
  BY <1>2, <1>3, <1>8, <1>9, <1>10, <1>11 DEF RegistryInv

\* One object is replaced: what is said of objects and rows is kept if the new one is sound
\* and, until a deletion begins, has what the old one had.
LEMMA ObjectReplaced ==
    ASSUME RegistryInv, NEW c \in RegistryConversations, NEW o \in Registry!Object, Sound(o),
           registryObject' = [registryObject EXCEPT ![c] = o],
           UNCHANGED <<registryRow, registryMarked, registrySeen>>,
           \A b \in RegistryConversations : Undisturbed(b)' => Undisturbed(b),
           Undisturbed(c)' => /\ o.tables
                              /\ registryObject[c].initialized => o.initialized,
           registryAt' \in [Registry!OwnerRequests ->
                              {"start", "initialize", "metadata", "register", "mark", "done"}],
           registryAnswer' \in [Registry!OwnerRequests -> {"none", "ok", "deleted", "failed"}],
           registryOrder' \in [RegistryConversations -> Seq(RegistryMemories)],
           RequestsPlaced',
           MemoryKept',
           \A p \in RegistryCreations :
              /\ registryAnswer'[p] = "ok" => registryAnswer[p] = "ok"
              /\ registryAt'[p] \in {"metadata", "register"} =>
                    \/ registryAt[p] \in {"metadata", "register"}
                    \/ RegistryOf[p] = c /\ o.initialized
    PROVE  RegistryInv'
<1>1. /\ RegistryTypes /\ ObjectsSound /\ CreationsKept /\ MarksKept
      /\ RegistryOf \in [Registry!OwnerRequests -> RegistryConversations]
      /\ Registry!RegistryConstants /\ Registry!RegistryConstants'
  BY DEF RegistryInv, Registry!RegistryConstants
<1>2. RegistryTypes'
  BY <1>1 DEF RegistryTypes
<1>3. \A b \in RegistryConversations :
         registryObject'[b] = IF b = c THEN o ELSE registryObject[b]
  BY <1>1 DEF RegistryTypes
<1>4. ObjectsSound'
  BY <1>1, <1>3 DEF ObjectsSound, Sound
<1>5. MarksKept'
  BY <1>1 DEF MarksKept
<1>6. CreationsKept'
  <2>1. ASSUME NEW b \in RegistryConversations, Undisturbed(b)'
        PROVE  /\ registryObject'[b].tables
               /\ registryRow'[b] # None => ~registryRow'[b].deleted
    BY <1>1, <1>3, <2>1 DEF CreationsKept
  <2>2. ASSUME NEW p \in RegistryCreations, Undisturbed(RegistryOf[p])',
               registryAt'[p] \in {"metadata", "register"} \/ registryAnswer'[p] = "ok"
        PROVE  registryObject'[RegistryOf[p]].initialized
    <3>1. RegistryOf[p] \in RegistryConversations
      BY <1>1 DEF Registry!OwnerRequests
    <3>2. \/ registryObject[RegistryOf[p]].initialized
          \/ RegistryOf[p] = c /\ o.initialized
      BY <1>1, <2>2, <3>1 DEF CreationsKept
    <3>3. QED
      BY <1>3, <2>2, <3>1, <3>2
  <2>3. ASSUME NEW p \in RegistryCreations, registryAnswer'[p] = "ok"
        PROVE  registryRow'[RegistryOf[p]] # None
    BY <1>1, <2>3 DEF CreationsKept
  <2>4. QED
    BY <2>1, <2>2, <2>3 DEF CreationsKept, Undisturbed
<1>7. QED
  BY <1>1, <1>2, <1>4, <1>5, <1>6 DEF RegistryInv



\* The calls to the object.
LEMMA ObjectStep ==
    ASSUME RegistryInv, NEW r \in Registry!OwnerRequests,
           Registry!Initialize(r) \/ Registry!Erase(r) \/ Registry!Memory(r)
    PROVE  RegistryInv'
<1> DEFINE c == RegistryOf[r]
           o == registryObject[c]
<1>1. /\ RegistryTypes /\ RequestsPlaced /\ ObjectsSound /\ CreationsKept /\ MemoryKept
      /\ RegistryObjectLimit \in Nat
      /\ RegistryOf \in [Registry!OwnerRequests -> RegistryConversations]
      /\ RegistryCreations \cap RegistryDeletions = {}
      /\ RegistryMemories \cap (RegistryCreations \cup RegistryDeletions) = {}
      /\ RegistryKeyOf \in [RegistryMemories -> RegistryKeys]
      /\ RegistryValueOf \in [RegistryMemories -> RegistryValues \cup {None}]
  BY DEF RegistryInv, Registry!RegistryConstants
<1>2. c \in RegistryConversations /\ o \in Registry!Object /\ Sound(o)
  BY <1>1 DEF RegistryTypes, ObjectsSound
\* The request has left its place, so that what is undisturbed then was so before.
<1>3. ASSUME NEW p \in {"initialize", "metadata", "register", "mark", "done"},
             registryAt' = [registryAt EXCEPT ![r] = p],
             NEW b \in RegistryConversations, Undisturbed(b)'
      PROVE  Undisturbed(b) /\ (b = c => r \notin RegistryDeletions)
  BY <1>1, <1>3 DEF Undisturbed, RegistryTypes, Registry!OwnerRequests
<1>4. /\ registryObject = [registryObject EXCEPT ![c] = o]
      /\ registryOrder = [registryOrder EXCEPT ![c] = registryOrder[c]]
      /\ registryOrder[c] \in Seq(RegistryMemories) /\ Remembered(o, registryOrder[c])
  BY <1>1, <1>2 DEF RegistryTypes, MemoryKept
<1> HIDE DEF c, o
<1>5. ASSUME NEW n, NEW s \in Seq(RegistryMemories), Remembered(n, s),
             registryObject' = [registryObject EXCEPT ![c] = n],
             registryOrder' = [registryOrder EXCEPT ![c] = s]
      PROVE  /\ MemoryKept'
             /\ registryOrder' \in [RegistryConversations -> Seq(RegistryMemories)]
  BY <1>1, <1>2, <1>5 DEF MemoryKept, RegistryTypes
\* One step of the handler with what it makes of the object.
<1>6. ASSUME NEW n \in Registry!Object, Sound(n), NEW s \in Seq(RegistryMemories),
             Remembered(n, s),
             registryObject' = [registryObject EXCEPT ![c] = n],
             registryOrder' = [registryOrder EXCEPT ![c] = s],
             UNCHANGED <<registryRow, registrySeen, registryMarked>>,
             NEW p \in {"metadata", "mark", "done"},
             registryAt' = [registryAt EXCEPT ![r] = p],
             NEW a \in {"none", "ok", "deleted", "failed"},
             registryAnswer' = [registryAnswer EXCEPT ![r] = a],
             p = "metadata" => r \in RegistryCreations /\ n.initialized,
             p = "mark" => r \in RegistryDeletions,
             \/ r \in RegistryDeletions \/ n = o
             \/ n.tables /\ (o.initialized => n.initialized),
             a = "ok" => r \notin RegistryCreations \/ registryAnswer[r] = "ok"
      PROVE  RegistryInv'
  <2>1. /\ registryAt' \in [Registry!OwnerRequests ->
                 {"start", "initialize", "metadata", "register", "mark", "done"}]
        /\ registryAnswer' \in
                [Registry!OwnerRequests -> {"none", "ok", "deleted", "failed"}]
    BY <1>1, <1>6 DEF RegistryTypes
  <2>2. RequestsPlaced'
    BY <1>1, <1>6 DEF RequestsPlaced, RequestPlaced, RegistryTypes
  <2>3. /\ \A b \in RegistryConversations : Undisturbed(b)' => Undisturbed(b)
        /\ Undisturbed(c)' => n.tables /\ (registryObject[c].initialized => n.initialized)
    <3>1. \A b \in RegistryConversations : Undisturbed(b)' => Undisturbed(b)
      BY <1>3, <1>6
    <3>2. Undisturbed(c) => o.tables
      BY <1>1, <1>2 DEF CreationsKept, o
    <3>3. Undisturbed(c)' => r \notin RegistryDeletions
      BY <1>2, <1>3, <1>6
    <3>4. QED
      BY <1>2, <1>6, <3>1, <3>2, <3>3 DEF o
  <2>4. \A q \in RegistryCreations :
           /\ registryAnswer'[q] = "ok" => registryAnswer[q] = "ok"
           /\ registryAt'[q] \in {"metadata", "register"} =>
                 \/ registryAt[q] \in {"metadata", "register"}
                 \/ RegistryOf[q] = c /\ n.initialized
    BY <1>1, <1>6 DEF RegistryTypes, Registry!OwnerRequests, c
  <2>5. MemoryKept' /\ registryOrder' \in [RegistryConversations -> Seq(RegistryMemories)]
    BY <1>5, <1>6
  <2>6. QED
    BY <1>2, <1>6, <2>1, <2>2, <2>3, <2>4, <2>5, ObjectReplaced
<1>7. /\ registryAnswer[r] \in {"none", "ok", "deleted", "failed"}
      /\ registryAnswer = [registryAnswer EXCEPT ![r] = registryAnswer[r]]
  BY <1>1 DEF RegistryTypes
<1> USE DEF Registry!Goto, Registry!Reply, Registry!Put
<1>8. CASE Registry!Initialize(r)
  <2>1. /\ UNCHANGED <<registryRow, registrySeen, registryMarked, registryOrder>>
        /\ r \in RegistryCreations
    BY <1>1, <1>8 DEF Registry!Initialize, RequestsPlaced, RequestPlaced
  <2>2. CASE o.tables /\ Registry!Writable(o)
    <3> DEFINE n == Registry!Created(o)
    <3>1. /\ registryObject' = [registryObject EXCEPT ![c] = n]
          /\ registryAt' = [registryAt EXCEPT ![r] = "metadata"]
          /\ registryAnswer' = registryAnswer
      BY <1>8, <2>2 DEF Registry!Initialize, c, o
    <3>2. /\ n \in Registry!Object /\ Sound(n) /\ n.initialized /\ n.tables
          /\ n.stored = o.stored /\ n.memory = o.memory
      BY <1>1, <1>2, <2>2, ObjectHandlers
    <3> HIDE DEF n
    <3>3. Remembered(n, registryOrder[c])
      BY <1>4, <3>2 DEF Remembered
    <3>4. QED
      BY <1>4, <1>6, <1>7, <2>1, <3>1, <3>2, <3>3
  <2>3. CASE ~(o.tables /\ Registry!Writable(o))
    <3>1. /\ registryObject' = registryObject
          /\ registryAt' = [registryAt EXCEPT ![r] = "done"]
          /\ registryAnswer' = [registryAnswer EXCEPT ![r] = "failed"]
      BY <1>8, <2>3 DEF Registry!Initialize, c, o
    <3>2. QED
      BY <1>2, <1>4, <1>6, <2>1, <3>1
  <2>4. QED
    BY <2>2, <2>3
<1>9. CASE Registry!Erase(r)
  <2> DEFINE n == Registry!Erased(o)
             s == IF o.row THEN <<>> ELSE registryOrder[c]
  <2>1. /\ UNCHANGED <<registryRow, registrySeen, registryMarked>>
        /\ r \in RegistryDeletions
        /\ registryObject' = [registryObject EXCEPT ![c] = n]
        /\ registryAt' = [registryAt EXCEPT ![r] = "mark"]
        /\ registryAnswer' = registryAnswer
        /\ registryOrder' = [registryOrder EXCEPT ![c] = s]
    BY <1>9 DEF Registry!Erase, c, o
  <2>2. /\ n \in Registry!Object /\ Sound(n)
        /\ n.stored = IF o.row THEN {} ELSE o.stored
        /\ n.memory = IF o.row THEN None ELSE o.memory
    BY <1>1, <1>2, ObjectHandlers
  <2> HIDE DEF n
  <2>3. s \in Seq(RegistryMemories) /\ Remembered(n, s)
    <3>1. <<>> \in Seq(RegistryMemories)
      OBVIOUS
    <3>2. o.row => Remembered(n, <<>>)
      BY <2>2 DEF Remembered
    <3>3. ~o.row => Remembered(n, registryOrder[c])
      BY <1>4, <2>2 DEF Remembered
    <3>4. QED
      BY <1>4, <3>1, <3>2, <3>3
  <2> HIDE DEF s
  <2>4. QED
    BY <1>6, <1>7, <2>1, <2>2, <2>3
<1>10. CASE Registry!Memory(r)
  <2>1. /\ UNCHANGED <<registryRow, registrySeen, registryMarked>>
        /\ r \in RegistryMemories /\ r \notin RegistryCreations
        /\ registryAt' = [registryAt EXCEPT ![r] = "done"]
        /\ registryAnswer' \in {[registryAnswer EXCEPT ![r] = "ok"],
                                [registryAnswer EXCEPT ![r] = "failed"]}
    BY <1>1, <1>10 DEF Registry!Memory
  <2>2. CASE UNCHANGED <<registryObject, registryOrder>>
    BY <1>2, <1>4, <1>6, <2>1, <2>2
  <2>3. CASE ~Registry!Refused(o, r) /\ ~Registry!Replayed(o, r)
    <3> DEFINE n == Registry!Written(o, r)
               s == Append(registryOrder[c], r)
    <3>1. registryObject' = [registryObject EXCEPT ![c] = n]
      BY <1>10, <2>3 DEF Registry!Memory, c, o
    <3>2. registryOrder' = [registryOrder EXCEPT ![c] = s]
      <4>1. Registry!Took(r)
        BY <1>10, <2>3 DEF Registry!Memory, c, o
      <4>2. ~\E q \in Registry!ToSet(registryOrder[c]) : RegistryKeyOf[q] = RegistryKeyOf[r]
        BY <1>4, <2>3 DEF Remembered, Registry!Replayed, Registry!ToSet
      <4>3. QED
        BY <4>1, <4>2 DEF Registry!Took, c
    <3>3. n \in Registry!Object /\ Sound(n) /\ n.tables /\ n.initialized = o.initialized
          /\ n.stored = o.stored \cup {RegistryKeyOf[r]} /\ n.memory = RegistryValueOf[r]
      <4>1. o.tables /\ o.size \in 0 .. RegistryObjectLimit
        BY <1>2, <2>3 DEF Registry!Refused, Registry!Object
      <4>2. RegistryKeyOf[r] \in RegistryKeys /\ RegistryValueOf[r] \in RegistryValues \cup {None}
        BY <1>1, <2>1
      <4> DEFINE k == IF o.size < RegistryObjectLimit THEN o.size + 1 ELSE o.size
      <4>3. /\ k \in 0 .. RegistryObjectLimit
            /\ n = [o EXCEPT !.memory = RegistryValueOf[r],
                             !.stored = o.stored \cup {RegistryKeyOf[r]}, !.size = k]
        BY <1>1, <4>1 DEF Registry!Written
      <4>4. Sound(o)
        BY <1>1, <1>2 DEF ObjectsSound, o
      <4> HIDE DEF n, k
      <4>5. QED
        BY <1>2, <4>1, <4>2, <4>3, <4>4 DEF Sound, Registry!Object
    <3> HIDE DEF n
    <3>4. s \in Seq(RegistryMemories) /\ Remembered(n, s)
      <4>1. /\ s \in Seq(RegistryMemories) /\ s # <<>> /\ Len(s) = Len(registryOrder[c]) + 1
            /\ \A i \in 1 .. Len(registryOrder[c]) : s[i] = registryOrder[c][i]
            /\ s[Len(s)] = r
        BY <1>4, <2>1
      <4> HIDE DEF s
      <4>2. Len(registryOrder[c]) \in Nat
        BY <1>4
      <4>3. {RegistryKeyOf[s[i]] : i \in 1 .. Len(s)}
              = {RegistryKeyOf[registryOrder[c][i]] : i \in 1 .. Len(registryOrder[c])}
                    \cup {RegistryKeyOf[r]}
        BY <4>1, <4>2
      <4>4. QED
        BY <1>4, <3>3, <4>1, <4>3 DEF Remembered
    <3> HIDE DEF s
    <3>5. QED
      BY <1>6, <2>1, <3>1, <3>2, <3>3, <3>4
  <2>4. QED
    BY <1>10, <2>2, <2>3 DEF Registry!Memory, c, o
<1>11. QED
  BY <1>8, <1>9, <1>10

\* The object grows by a write of another kind, or is started anew after its end.
LEMMA ObjectAlone ==
    ASSUME RegistryInv, NEW c \in RegistryConversations, Registry!Grow(c) \/ Registry!Restart(c)
    PROVE  RegistryInv'
<1> DEFINE o == registryObject[c]
<1>1. /\ RegistryTypes /\ RequestsPlaced /\ ObjectsSound /\ CreationsKept /\ MemoryKept
      /\ RegistryObjectLimit \in Nat
  BY DEF RegistryInv, Registry!RegistryConstants
<1>2. UNCHANGED <<registryRow, registryAt, registrySeen, registryAnswer, registryMarked,
                  registryOrder>>
  BY DEF Registry!Grow, Registry!Restart
<1>3. o \in Registry!Object /\ Sound(o) /\ Remembered(o, registryOrder[c])
  BY <1>1 DEF RegistryTypes, ObjectsSound, MemoryKept
<1>4. Undisturbed(c) => o.tables
  BY <1>1 DEF CreationsKept
<1> HIDE DEF o
<1>5. ASSUME NEW n \in Registry!Object, Sound(n),
             registryObject' = [registryObject EXCEPT ![c] = n],
             n.stored = o.stored, n.memory = o.memory,
             o.tables => n.tables /\ n.initialized = o.initialized
      PROVE  RegistryInv'
  <2>1. \A b \in RegistryConversations : Undisturbed(b)' => Undisturbed(b)
    BY <1>2 DEF Undisturbed
  <2>2. Undisturbed(c)' => n.tables /\ (registryObject[c].initialized => n.initialized)
    BY <1>4, <1>5, <2>1 DEF o
  <2>3. /\ registryAt' \in [Registry!OwnerRequests ->
                 {"start", "initialize", "metadata", "register", "mark", "done"}]
        /\ registryAnswer' \in [Registry!OwnerRequests -> {"none", "ok", "deleted", "failed"}]
        /\ registryOrder' \in [RegistryConversations -> Seq(RegistryMemories)]
    BY <1>1, <1>2 DEF RegistryTypes
  <2>4. RequestsPlaced'
    BY <1>1, <1>2 DEF RequestsPlaced, RequestPlaced
  <2>5. MemoryKept'
    <3>1. Remembered(n, registryOrder[c])
      BY <1>3, <1>5 DEF Remembered
    <3>2. \A b \in RegistryConversations :
             registryObject'[b] = IF b = c THEN n ELSE registryObject[b]
      BY <1>1, <1>5 DEF RegistryTypes
    <3>3. QED
      BY <1>1, <1>2, <3>1, <3>2 DEF MemoryKept
  <2>6. QED
    BY <1>2, <1>5, <2>1, <2>2, <2>3, <2>4, <2>5, ObjectReplaced
<1>6. CASE Registry!Grow(c)
  <2> DEFINE n == [o EXCEPT !.size = o.size + 1]
  <2>1. registryObject' = [registryObject EXCEPT ![c] = n]
    BY <1>6 DEF Registry!Grow, Registry!Put, o
  <2>2. o.size \in 0 .. RegistryObjectLimit /\ o.size + 1 \in 0 .. RegistryObjectLimit
    BY <1>1, <1>3, <1>6 DEF Registry!Grow, Registry!Writable, Registry!Object, o
  <2>3. /\ n \in Registry!Object /\ Sound(n) /\ n.stored = o.stored /\ n.memory = o.memory
        /\ n.tables = o.tables /\ n.initialized = o.initialized
    BY <1>3, <2>2 DEF Registry!Object, Sound
  <2> HIDE DEF n
  <2>4. QED
    BY <1>5, <2>1, <2>3
<1>7. CASE Registry!Restart(c)
  <2>1. registryObject' = [registryObject EXCEPT ![c] = Registry!Empty] /\ ~o.tables
    BY <1>7 DEF Registry!Restart, Registry!Put, o
  <2>2. o.stored = {} /\ o.memory = None
    BY <1>3, <2>1 DEF Sound
  <2>3. /\ Registry!Empty \in Registry!Object /\ Sound(Registry!Empty)
        /\ Registry!Empty.stored = {} /\ Registry!Empty.memory = None
    BY <1>1 DEF Registry!Empty, Registry!Object, Sound
  <2>4. QED
    BY <1>5, <2>1, <2>2, <2>3
<1>8. QED
  BY <1>6, <1>7

LEMMA RegistryUnmoved == RegistryInv /\ UNCHANGED Registry!vars => RegistryInv'
<1>1. SUFFICES ASSUME RegistryInv, UNCHANGED Registry!vars PROVE RegistryInv'
  OBVIOUS
<1> USE <1>1 DEF RegistryInv, Registry!vars
<1>2. Registry!RegistryConstants' /\ RegistryTypes'
  BY DEF Registry!RegistryConstants, RegistryTypes
<1>3. RequestsPlaced' /\ ObjectsSound'
  BY DEF RequestsPlaced, RequestPlaced, ObjectsSound
<1>4. CreationsKept'
  BY DEF CreationsKept, Undisturbed
<1>5. MarksKept' /\ MemoryKept'
  BY DEF MarksKept, MemoryKept
<1>6. QED
  BY <1>2, <1>3, <1>4, <1>5

\* What RegistryInv says of requests, rows and memories.
LEMMA RegistryKept ==
    ASSUME RegistryInv
    PROVE  /\ Registry!TypeOK /\ Registry!DeletedIsNotListed
           /\ Registry!CreatedIsListed /\ Registry!NewestIsKept
<1>1. /\ RegistryTypes /\ ObjectsSound /\ CreationsKept /\ MarksKept /\ MemoryKept
      /\ RegistryOf \in [Registry!OwnerRequests -> RegistryConversations]
  BY DEF RegistryInv, Registry!RegistryConstants
<1>2. Registry!TypeOK
  BY <1>1 DEF RegistryTypes, ObjectsSound, Sound, Registry!TypeOK
<1>3. Registry!DeletedIsNotListed
  BY <1>1 DEF MarksKept, Registry!DeletedIsNotListed, Registry!Listed
<1>4. Registry!CreatedIsListed
  <2>1. SUFFICES ASSUME NEW p \in RegistryCreations, registryAnswer[p] = "ok",
                        \A d \in RegistryDeletions :
                           RegistryOf[d] = RegistryOf[p] => registryAt[d] = "start"
                 PROVE  /\ Registry!Listed(RegistryOf[p])
                        /\ registryObject[RegistryOf[p]].row
                        /\ registryObject[RegistryOf[p]].texts = 1
    BY DEF Registry!CreatedIsListed
  <2>2. RegistryOf[p] \in RegistryConversations /\ Undisturbed(RegistryOf[p])
    BY <1>1, <2>1 DEF Undisturbed, Registry!OwnerRequests
  <2>3. Registry!Listed(RegistryOf[p])
    BY <1>1, <2>1, <2>2 DEF CreationsKept, Registry!Listed
  <2>4. registryObject[RegistryOf[p]].initialized
    BY <1>1, <2>1, <2>2 DEF CreationsKept
  <2>5. QED
    BY <1>1, <2>2, <2>3, <2>4 DEF ObjectsSound, Sound
<1>5. Registry!NewestIsKept
  BY <1>1 DEF MemoryKept, Remembered, Registry!NewestIsKept, Registry!Last
<1>6. QED
  BY <1>2, <1>3, <1>4, <1>5

\* However requests to create, read and delete a conversation overtake each other, are lost
\* or repeated: what was created is listed and readable until a deletion of it begins, what
\* was marked deleted is never listed again, and a repeated write to the memory neither
\* takes a newer value back nor brings a deleted one back (index.ts of the assistant and of
\* the conversation agent).
THEOREM ConversationsAreKept == HandlersSpec => []ConversationsKept
<1> DEFINE J == part = "registry" => RegistryInv
<1>1. HandlersInit => J
  <2>1. SUFFICES ASSUME HandlersInit, part = "registry" PROVE RegistryInv
    OBVIOUS
  <2>2. Registry!Init /\ Registry!RegistryConstants
    BY <2>1, InstanceConstants DEF HandlersInit
  <2>3. PICK scene \in RegistryScenes : Registry!InitOf(scene)
    BY <2>2 DEF Registry!Init
  <2>4. QED
    BY <2>2, <2>3, RegistryBegins
<1>2. J /\ [HandlersNext]_allVars => J'
  <2>1. SUFFICES ASSUME J, [HandlersNext]_allVars, part' = "registry" PROVE RegistryInv'
    OBVIOUS
  <2>2. RegistryInv /\ (Registry!Next \/ UNCHANGED Registry!vars)
    BY <2>1 DEF HandlersNext, allVars, registryVars, Registry!vars
  <2>3. CASE UNCHANGED Registry!vars
    BY <2>2, <2>3, RegistryUnmoved
  <2>4. ASSUME NEW r \in Registry!OwnerRequests,
               \/ Registry!StorageStatus(r) \/ Registry!Initialize(r) \/ Registry!Metadata(r)
               \/ Registry!Register(r) \/ Registry!ReadState(r) \/ Registry!Erase(r)
               \/ Registry!EraseUnreachable(r) \/ Registry!Mark(r) \/ Registry!Memory(r)
               \/ Registry!Fail(r)
        PROVE  RegistryInv'
    BY <2>2, <2>4, RequestStep, ObjectStep
  <2>5. QED
    BY <2>2, <2>3, <2>4, ObjectAlone DEF Registry!Next
<1>3. J => ConversationsKept
  BY RegistryKept DEF ConversationsKept
<1>4. QED
  BY <1>1, <1>2, <1>3, PTL DEF HandlersSpec

-----------------------------------------------------------------------------
(***************************************************************************)
(* The owner's settings: ControlSettings.                                  *)
(***************************************************************************)

\* A handler that has answered does nothing more, and one that may write a row back has read
\* it; a budget is not written back.
HandlersPlaced ==
    \A q \in SettingsRequests :
        /\ settingsAnswer[q] # "none" => settingsAt[q] = "done"
        /\ settingsPrev[q] # None => settingsPrev[q].version > 0
        /\ settingsAt[q] = "rollback" => settingsKind # "budget"
        /\ settingsAt[q] = "enforce" => settingsKind = "budget"

\* Where one budget change is all there is: it is stored from its first write on, and
\* whatever enforces it, enforces it for good.
BudgetKept(r) ==
    settingsKind = "budget" /\ Settings!OnlyChange(r) =>
        \A q \in SettingsRequests :
            /\ settingsAt[q] \in {"audit", "enforce"} \/ settingsAnswer[q] = "ok"
                  => settingsRow.value = SettingsValueOf[r]
            /\ settingsAnswer[q] = "ok"
                  => settingsQuota = [ai |-> SettingsValueOf[r], nonAi |-> SettingsValueOf[r]]

\* Where the updates of one key are all there is: who goes on to write has read the row as
\* it was before all of them.
SourceKept(r) ==
    settingsKind = "source" /\ Settings!OnlyKeyAt(SettingsKeyOf[r]) =>
        /\ settingsRow # None =>
             /\ settingsRow.version <= 2
             /\ settingsRow.key # SettingsKeyOf[r] => settingsRow.version <= 1
        /\ \A q \in SettingsRequests :
             settingsAt[q] \in {"write", "audit", "rollback"} /\ settingsPrev[q] # None
             => settingsPrev[q].version <= 1

\* The providers' last update is stored from its write on, unless its own audit fails.
LastKept(r) ==
    (/\ settingsKind = "providers" /\ settingsLast = r /\ Settings!OwnKey(r)
     /\ settingsAt[r] = "audit" \/ settingsAnswer[r] = "ok")
    => settingsRow.key = SettingsKeyOf[r] /\ settingsRow.value = SettingsValueOf[r]

SettingsInv ==
    /\ Settings!SettingsConstants /\ Settings!TypeOK /\ HandlersPlaced
    /\ \A r \in SettingsRequests : BudgetKept(r) /\ SourceKept(r) /\ LastKept(r)

LEMMA SettingsBegins == Settings!SettingsConstants /\ Settings!Init => SettingsInv
<1> SUFFICES ASSUME Settings!SettingsConstants, Settings!Init PROVE SettingsInv
  OBVIOUS
<1> USE DEF Settings!Init
<1>1. Settings!First \in Settings!Row /\ Settings!First.version = 1
  BY DEF Settings!First, Settings!Row, Settings!SettingsConstants
<1>2. Settings!TypeOK
  BY <1>1 DEF Settings!TypeOK, Settings!Kinds, Settings!Places, Settings!Answers,
     Settings!SettingsConstants
<1>3. HandlersPlaced
  BY DEF HandlersPlaced
<1>4. \A r \in SettingsRequests : BudgetKept(r) /\ SourceKept(r) /\ LastKept(r)
  BY <1>1 DEF BudgetKept, SourceKept, LastKept, Settings!SettingsConstants
<1>5. QED
  BY <1>2, <1>3, <1>4 DEF SettingsInv

\* A step of one handler: the others keep their place, and none that has begun begins anew.
SettingsStep(r) ==
    \/ Settings!Read(r) \/ Settings!Write(r) \/ Settings!Delete(r) \/ Settings!Audit(r)
    \/ Settings!AuditFails(r) \/ Settings!Rollback(r) \/ Settings!SetQuota(r)
    \/ Settings!Crash(r)

\* Where a step leads its handler, and what it is answered.
LEMMA SettingsMoves ==
    ASSUME SettingsInv, NEW r \in SettingsRequests, SettingsStep(r)
    PROVE  \E p \in Settings!Places \ {"start"}, a \in Settings!Answers :
              /\ settingsAt' = [settingsAt EXCEPT ![r] = p]
              /\ settingsAnswer' = [settingsAnswer EXCEPT ![r] = a]
              /\ a # "none" => p = "done"
              /\ settingsAt[r] # "done"
              /\ p = "rollback" => settingsKind # "budget"
              /\ p = "enforce" => settingsKind = "budget"
<1> USE DEF SettingsInv, Settings!Goto, Settings!Reply, Settings!Accepted
<1>1. /\ settingsAt \in [SettingsRequests -> Settings!Places]
      /\ settingsAnswer \in [SettingsRequests -> Settings!Answers]
      /\ settingsAt[r] # "done" => settingsAnswer[r] = "none"
  BY DEF Settings!TypeOK, HandlersPlaced
<1>2. ASSUME NEW p \in Settings!Places \ {"start"}, Settings!Goto(r, p), settingsAt[r] # "done",
             p = "rollback" => settingsKind # "budget",
             p = "enforce" => settingsKind = "budget"
      PROVE  /\ "none" \in Settings!Answers
             /\ settingsAt' = [settingsAt EXCEPT ![r] = p]
             /\ settingsAnswer' = [settingsAnswer EXCEPT ![r] = "none"]
  BY <1>1, <1>2 DEF Settings!Answers
<1>3. "done" \in Settings!Places \ {"start"}
  BY DEF Settings!Places
<1>4. CASE Settings!Read(r)
  BY <1>1, <1>2, <1>3, <1>4 DEF Settings!Read, Settings!Places, Settings!Answers
<1>5. CASE Settings!Write(r)
  <2>1. Settings!Goto(r, "audit") /\ settingsAt[r] # "done"
    BY <1>5 DEF Settings!Write
  <2>2. "audit" \in Settings!Places \ {"start"}
    BY DEF Settings!Places
  <2>3. QED
    BY <1>2, <2>1, <2>2
<1>6. CASE Settings!Delete(r)
  BY <1>1, <1>2, <1>3, <1>6 DEF Settings!Delete, Settings!Places, Settings!Answers
<1>7. CASE Settings!Audit(r)
  BY <1>1, <1>2, <1>3, <1>7 DEF Settings!Audit, Settings!Places, Settings!Answers
<1>8. CASE Settings!AuditFails(r)
  BY <1>1, <1>2, <1>3, <1>8 DEF Settings!AuditFails, Settings!Places, Settings!Answers
<1>9. CASE Settings!Rollback(r)
  BY <1>1, <1>2, <1>3, <1>9 DEF Settings!Rollback, Settings!Places, Settings!Answers
<1>10. CASE Settings!SetQuota(r)
  BY <1>1, <1>2, <1>3, <1>10 DEF Settings!SetQuota, Settings!Places, Settings!Answers
<1>11. CASE Settings!Crash(r)
  BY <1>1, <1>2, <1>3, <1>11 DEF Settings!Crash, Settings!Places, Settings!Answers
<1>12. QED
  BY <1>4, <1>5, <1>6, <1>7, <1>8, <1>9, <1>10, <1>11 DEF SettingsStep

\* What a step does to the row.
LEMMA SettingsRow ==
    ASSUME SettingsInv, NEW r \in SettingsRequests, SettingsStep(r)
    PROVE  \/ settingsRow' = settingsRow
           \/ /\ settingsAt[r] = "write" /\ settingsAt'[r] = "audit"
              /\ settingsRow' = [value |-> SettingsValueOf[r], key |-> SettingsKeyOf[r],
                                 version |-> Settings!NextVersion(r),
                                 enabled |-> SettingsValueOf[r] \notin SettingsOff]
           \/ /\ Settings!Deleting(r) /\ settingsRow # None
              /\ \/ settingsRow' = [settingsRow EXCEPT !.enabled = FALSE, !.version = @ + 1]
                 \/ settingsRow' = Settings!Enabled(settingsRow)
           \/ /\ settingsAt[r] = "rollback" /\ ~Settings!Deleting(r)
              /\ settingsKind = "providers" => Settings!Repeats(r)
              /\ settingsRow' = settingsPrev[r]
<1> USE DEF SettingsInv
<1>1. CASE settingsAt[r] # "rollback" /\ ~Settings!Write(r) /\ ~Settings!Delete(r)
  BY <1>1 DEF SettingsStep, Settings!Read, Settings!Audit, Settings!AuditFails,
     Settings!SetQuota,
     Settings!Crash, Settings!Rollback
<1>2. CASE Settings!Write(r)
  BY <1>2 DEF Settings!Write, Settings!Goto, Settings!TypeOK
<1>3. CASE Settings!Delete(r)
  BY <1>3 DEF Settings!Delete
<1>4. CASE settingsAt[r] = "rollback"
  BY <1>4 DEF SettingsStep, Settings!Read, Settings!Audit, Settings!AuditFails,
     Settings!SetQuota,
     Settings!Crash, Settings!Rollback, Settings!Write, Settings!Delete, Settings!Restored
<1>5. QED
  BY <1>1, <1>2, <1>3, <1>4

LEMMA SettingsTyped ==
    ASSUME SettingsInv, NEW r \in SettingsRequests, SettingsStep(r)
    PROVE  Settings!TypeOK' /\ HandlersPlaced'
<1> USE DEF SettingsInv
<1>1. PICK p \in Settings!Places \ {"start"}, a \in Settings!Answers :
              /\ settingsAt' = [settingsAt EXCEPT ![r] = p]
              /\ settingsAnswer' = [settingsAnswer EXCEPT ![r] = a]
              /\ a # "none" => p = "done"
              /\ p = "rollback" => settingsKind # "budget"
              /\ p = "enforce" => settingsKind = "budget"
  BY SettingsMoves
<1>2. /\ settingsAt' \in [SettingsRequests -> Settings!Places]
      /\ settingsAnswer' \in [SettingsRequests -> Settings!Answers]
  BY <1>1 DEF Settings!TypeOK
<1>3. /\ settingsKind' = settingsKind
      /\ settingsAudited' \subseteq SettingsRequests
      /\ settingsPrev' = settingsPrev \/ settingsPrev' = [settingsPrev EXCEPT ![r] = settingsRow]
      /\ settingsQuota' \in [ai : SettingsValues, nonAi : SettingsValues]
      /\ settingsLast' \in SettingsRequests \cup {None}
  BY DEF SettingsStep, Settings!Read, Settings!Audit, Settings!AuditFails, Settings!SetQuota,
     Settings!Crash, Settings!Rollback, Settings!Write, Settings!Delete, Settings!TypeOK,
     Settings!SettingsConstants
<1>4. settingsRow' \in Settings!Row \cup {None} /\ (settingsRow' # None => settingsRow'.version > 0)
  <2>1. /\ settingsRow \in Settings!Row \cup {None} /\ (settingsRow # None => settingsRow.version > 0)
        /\ settingsPrev[r] \in Settings!Row \cup {None}
        /\ settingsPrev[r] # None => settingsPrev[r].version > 0
        /\ SettingsValueOf[r] \in SettingsValues /\ SettingsKeyOf[r] \in SettingsKeys
    BY DEF Settings!TypeOK, HandlersPlaced, Settings!SettingsConstants
  <2>2. Settings!NextVersion(r) \in Nat /\ Settings!NextVersion(r) > 0
    BY <2>1 DEF Settings!NextVersion, Settings!Row
  <2>3. ASSUME NEW x \in Settings!Row, NEW b \in BOOLEAN, NEW v \in Nat
        PROVE  LET n == [x EXCEPT !.enabled = b, !.version = v]
               IN  n \in Settings!Row /\ n.version = v
    BY DEF Settings!Row
  <2>4. ASSUME NEW x \in Settings!Row, x.version > 0
        PROVE  Settings!Enabled(x) \in Settings!Row /\ Settings!Enabled(x).version > 0
    <3> DEFINE v == IF x.version > 1 THEN x.version - 1 ELSE 1
    <3>1. v \in Nat /\ v > 0
      BY <2>4 DEF Settings!Row
    <3>2. Settings!Enabled(x) = [x EXCEPT !.enabled = TRUE, !.version = v]
      BY DEF Settings!Enabled
    <3> HIDE DEF v
    <3>3. QED
      BY <2>3, <3>1, <3>2
  <2>5. CASE settingsRow' = [value |-> SettingsValueOf[r], key |-> SettingsKeyOf[r],
                             version |-> Settings!NextVersion(r),
                             enabled |-> SettingsValueOf[r] \notin SettingsOff]
    BY <2>1, <2>2, <2>5 DEF Settings!Row
  <2>6. CASE settingsRow # None /\ settingsRow' = [settingsRow EXCEPT !.enabled = FALSE, !.version = @ + 1]
    <3>1. settingsRow \in Settings!Row /\ settingsRow.version + 1 \in Nat /\ settingsRow.version + 1 > 0
      BY <2>1, <2>6 DEF Settings!Row
    <3>2. QED
      BY <2>3, <2>6, <3>1
  <2>7. QED
    BY <2>1, <2>4, <2>5, <2>6, SettingsRow
<1>5. Settings!TypeOK'
  BY <1>2, <1>3, <1>4 DEF Settings!TypeOK
<1>6. HandlersPlaced'
  BY <1>1, <1>2, <1>3 DEF HandlersPlaced, Settings!TypeOK
<1>7. QED
  BY <1>5, <1>6

LEMMA SettingsBudget ==
    ASSUME SettingsInv, NEW r \in SettingsRequests, SettingsStep(r), NEW u \in SettingsRequests
    PROVE  BudgetKept(u)'
<1> USE DEF SettingsInv
<1>1. PICK p \in Settings!Places \ {"start"}, a \in Settings!Answers :
              /\ settingsAt' = [settingsAt EXCEPT ![r] = p]
              /\ settingsAnswer' = [settingsAnswer EXCEPT ![r] = a]
              /\ a # "none" => p = "done"
              /\ settingsAt[r] # "done"
  BY SettingsMoves
<1>2. /\ settingsAt \in [SettingsRequests -> Settings!Places]
      /\ settingsAnswer \in [SettingsRequests -> Settings!Answers]
      /\ settingsQuota \in [ai : SettingsValues, nonAi : SettingsValues]
      /\ settingsKind' = settingsKind
      /\ HandlersPlaced
  BY DEF Settings!TypeOK, SettingsStep, Settings!Read, Settings!Audit, Settings!AuditFails,
     Settings!SetQuota, Settings!Crash, Settings!Rollback, Settings!Write, Settings!Delete
<1> DEFINE v == SettingsValueOf[u]
           enforced == [ai |-> v, nonAi |-> v]
<1>3. SUFFICES ASSUME settingsKind = "budget", Settings!OnlyChange(u)'
               PROVE  \A q \in SettingsRequests :
                         /\ settingsAt'[q] \in {"audit", "enforce"} \/ settingsAnswer'[q] = "ok"
                               => settingsRow'.value = v
                         /\ settingsAnswer'[q] = "ok" => settingsQuota' = enforced
  BY <1>2 DEF BudgetKept
<1>4. Settings!OnlyChange(u) /\ SettingsValueOf[r] = v
  BY <1>1, <1>2, <1>3 DEF Settings!OnlyChange, Settings!OnlyKeyAt, Settings!Deleting
<1>5. \A q \in SettingsRequests :
         /\ settingsAt[q] \in {"audit", "enforce"} \/ settingsAnswer[q] = "ok" => settingsRow.value = v
         /\ settingsAnswer[q] = "ok" => settingsQuota = enforced
  BY <1>3, <1>4 DEF BudgetKept
<1>6. settingsRow' = settingsRow \/ settingsRow'.value = v
  BY <1>2, <1>3, <1>4, SettingsRow DEF HandlersPlaced, Settings!Deleting
<1>7. settingsQuota' = settingsQuota \/ settingsAt[r] = "enforce"
  BY DEF SettingsStep, Settings!Read, Settings!Audit, Settings!AuditFails, Settings!SetQuota,
     Settings!Crash, Settings!Rollback, Settings!Write, Settings!Delete
<1>8. settingsQuota = enforced => settingsQuota' = enforced
  <2>1. SUFFICES ASSUME settingsQuota = enforced, settingsAt[r] = "enforce" PROVE settingsQuota' = enforced
    BY <1>7
  <2>2. settingsQuota' \in {settingsQuota, [settingsQuota EXCEPT !.ai = v],
                           [settingsQuota EXCEPT !.nonAi = v], enforced}
    BY <1>4, <2>1 DEF SettingsStep, Settings!Read, Settings!Audit, Settings!AuditFails,
       Settings!SetQuota, Settings!Crash, Settings!Rollback, Settings!Write, Settings!Delete
  <2>3. [settingsQuota EXCEPT !.ai = v] = enforced /\ [settingsQuota EXCEPT !.nonAi = v] = enforced
    BY <2>1
  <2>4. QED
    BY <2>1, <2>2, <2>3
<1> HIDE DEF enforced, v
<1>9. /\ p \in {"audit", "enforce"} \/ a = "ok" => settingsRow'.value = v
      /\ a = "ok" => settingsQuota' = enforced
  <2> SUFFICES ASSUME p \in {"audit", "enforce"} \/ a = "ok"
               PROVE  settingsRow'.value = v /\ (a = "ok" => settingsQuota' = enforced)
    OBVIOUS
  <2>1. settingsAt'[r] = p /\ settingsAnswer'[r] = a /\ settingsAnswer[r] = "none"
    BY <1>1, <1>2 DEF HandlersPlaced
  <2>2. CASE settingsAt[r] = "start"
    BY <1>2, <1>3, <1>4, <2>1, <2>2 DEF SettingsStep, Settings!Read,
       Settings!Audit, Settings!AuditFails, Settings!SetQuota, Settings!Crash,
       Settings!Rollback, Settings!Write, Settings!Delete, Settings!Goto, Settings!Reply,
       Settings!Accepted, Settings!Deleting
  <2>3. CASE settingsAt[r] = "write"
    BY <1>2, <1>3, <1>4, <2>1, <2>3 DEF SettingsStep, Settings!Read,
       Settings!Audit, Settings!AuditFails, Settings!SetQuota, Settings!Crash,
       Settings!Rollback, Settings!Write, Settings!Delete, Settings!Goto, Settings!Reply,
       Settings!Accepted
  <2>4. CASE settingsAt[r] = "audit"
    BY <1>2, <1>3, <1>5, <1>6, <2>1, <2>4 DEF SettingsStep, Settings!Read,
       Settings!Audit, Settings!AuditFails, Settings!SetQuota, Settings!Crash,
       Settings!Rollback, Settings!Write, Settings!Delete, Settings!Goto, Settings!Reply,
       Settings!Accepted
  <2>5. CASE settingsAt[r] = "enforce"
    BY <1>2, <1>3, <1>4, <1>5, <1>6, <2>1, <2>5 DEF SettingsStep, Settings!Read,
       Settings!Audit, Settings!AuditFails, Settings!SetQuota, Settings!Crash,
       Settings!Rollback, Settings!Write, Settings!Delete, Settings!Goto, Settings!Reply,
       Settings!Accepted, enforced
  <2>6. settingsAt[r] \notin {"rollback", "done"}
    BY <1>1, <1>2, <1>3 DEF HandlersPlaced
  <2>7. QED
    BY <1>2, <2>2, <2>3, <2>4, <2>5, <2>6 DEF Settings!Places
<1>10. QED
  BY <1>1, <1>2, <1>5, <1>6, <1>8, <1>9

LEMMA SettingsSource ==
    ASSUME SettingsInv, NEW r \in SettingsRequests, SettingsStep(r), NEW u \in SettingsRequests
    PROVE  SourceKept(u)'
<1> USE DEF SettingsInv
<1>1. PICK p \in Settings!Places \ {"start"} : settingsAt' = [settingsAt EXCEPT ![r] = p]
  BY SettingsMoves
<1>2. /\ settingsAt \in [SettingsRequests -> Settings!Places]
      /\ settingsPrev \in [SettingsRequests -> Settings!Row \cup {None}]
      /\ settingsRow \in Settings!Row \cup {None}
      /\ settingsKind' = settingsKind
  BY DEF Settings!TypeOK, SettingsStep, Settings!Read, Settings!Audit, Settings!AuditFails,
     Settings!SetQuota, Settings!Crash, Settings!Rollback, Settings!Write, Settings!Delete
<1> DEFINE Low(x) == x # None => x.version <= 1
           Fits(x) == x # None => x.version <= 2 /\ (x.key # SettingsKeyOf[u] => x.version <= 1)
<1>3. SUFFICES ASSUME settingsKind = "source", Settings!OnlyKeyAt(SettingsKeyOf[u])'
               PROVE  /\ Fits(settingsRow)'
                      /\ \A q \in SettingsRequests :
                            settingsAt'[q] \in {"write", "audit", "rollback"} => Low(settingsPrev[q])'
  BY <1>2 DEF SourceKept
<1>4. /\ Settings!OnlyKeyAt(SettingsKeyOf[u])
      /\ SettingsKeyOf[r] = SettingsKeyOf[u] /\ ~Settings!Deleting(r)
  BY <1>1, <1>2, <1>3 DEF Settings!OnlyKeyAt, Settings!Deleting
<1>5. /\ Fits(settingsRow)
      /\ \A q \in SettingsRequests :
            settingsAt[q] \in {"write", "audit", "rollback"} => Low(settingsPrev[q])
  BY <1>3, <1>4 DEF SourceKept
<1>6. Fits(settingsRow)'
  <2>1. CASE /\ settingsAt[r] = "write"
             /\ settingsRow' = [value |-> SettingsValueOf[r], key |-> SettingsKeyOf[r],
                                version |-> Settings!NextVersion(r),
                                enabled |-> SettingsValueOf[r] \notin SettingsOff]
    <3>1. Low(settingsPrev[r]) /\ settingsPrev[r] \in Settings!Row \cup {None}
      BY <1>2, <1>5, <2>1
    <3>2. Settings!NextVersion(r) <= 2
      BY <3>1 DEF Settings!NextVersion, Settings!Row
    <3>3. QED
      BY <1>4, <2>1, <3>2
  <2>2. CASE settingsAt[r] = "rollback" /\ settingsRow' = settingsPrev[r]
    <3>1. Low(settingsPrev[r]) /\ settingsPrev[r] \in Settings!Row \cup {None}
      BY <1>2, <1>5, <2>2
    <3>2. QED
      BY <2>2, <3>1 DEF Settings!Row
  <2>3. QED
    BY <1>4, <1>5, <2>1, <2>2, SettingsRow
<1>7. ASSUME NEW q \in SettingsRequests, settingsAt'[q] \in {"write", "audit", "rollback"}
      PROVE  Low(settingsPrev[q])'
  <2>1. CASE q # r
    BY <1>1, <1>2, <1>5, <1>7, <2>1 DEF SettingsStep, Settings!Read, Settings!Audit,
       Settings!AuditFails,
       Settings!SetQuota, Settings!Crash, Settings!Rollback, Settings!Write, Settings!Delete
  <2>2. CASE q = r /\ Settings!Read(r)
    <3>1. settingsPrev'[r] = settingsRow /\ ~Settings!Repeats(r)
      BY <1>1, <1>2, <1>3, <1>7, <2>2 DEF Settings!Read, Settings!Accepted, Settings!Reply
    <3>2. QED
      BY <1>4, <1>5, <2>2, <3>1 DEF Settings!Repeats
  <2>3. CASE q = r /\ ~Settings!Read(r)
    BY <1>1, <1>2, <1>4, <1>5, <1>7, <2>3 DEF SettingsStep, Settings!Read, Settings!Audit,
       Settings!AuditFails, Settings!SetQuota, Settings!Crash, Settings!Rollback, Settings!Write,
       Settings!Delete, Settings!Goto, Settings!Reply, Settings!Accepted
  <2>4. QED
    BY <2>1, <2>2, <2>3
<1>8. QED
  BY <1>6, <1>7

\* Nobody else's rollback finds the key of the last update, and its own comes with no
\* success.
LEMMA SettingsStood ==
    ASSUME SettingsInv, NEW r \in SettingsRequests, SettingsStep(r), NEW u \in SettingsRequests
    PROVE  LastKept(u)'
<1> USE DEF SettingsInv
<1>1. PICK p \in Settings!Places \ {"start"}, a \in Settings!Answers :
              /\ settingsAt' = [settingsAt EXCEPT ![r] = p]
              /\ settingsAnswer' = [settingsAnswer EXCEPT ![r] = a]
              /\ a # "none" => p = "done"
              /\ settingsAt[r] # "done"
  BY SettingsMoves
<1>2. /\ settingsAt \in [SettingsRequests -> Settings!Places]
      /\ settingsAnswer \in [SettingsRequests -> Settings!Answers]
      /\ settingsKind' = settingsKind
      /\ settingsLast' = settingsLast \/ Settings!Write(r)
  BY DEF Settings!TypeOK, SettingsStep, Settings!Read, Settings!Audit, Settings!AuditFails,
     Settings!SetQuota, Settings!Crash, Settings!Rollback, Settings!Write, Settings!Delete
<1>3. SUFFICES ASSUME settingsKind = "providers", settingsLast' = u, Settings!OwnKey(u),
                      settingsAt'[u] = "audit" \/ settingsAnswer'[u] = "ok"
               PROVE  /\ settingsRow'.key = SettingsKeyOf[u]
                      /\ settingsRow'.value = SettingsValueOf[u]
  BY <1>2 DEF LastKept, Settings!OwnKey
<1>4. CASE Settings!Write(r)
  <2>1. /\ u = r
        /\ settingsRow' = [value |-> SettingsValueOf[r], key |-> SettingsKeyOf[r],
                           version |-> Settings!NextVersion(r),
                           enabled |-> SettingsValueOf[r] \notin SettingsOff]
    BY <1>3, <1>4 DEF Settings!Write
  <2>2. QED
    BY <2>1
<1>5. CASE ~Settings!Write(r)
  <2>1. settingsLast = u
    BY <1>2, <1>3, <1>5
  <2>2. settingsAt[u] = "audit" \/ settingsAnswer[u] = "ok"
    BY <1>1, <1>2, <1>3, <1>5 DEF HandlersPlaced, SettingsStep, Settings!Read, Settings!Audit,
       Settings!AuditFails, Settings!SetQuota, Settings!Crash, Settings!Rollback,
       Settings!Delete, Settings!Goto, Settings!Reply, Settings!Accepted, Settings!Deleting
  <2>3. settingsRow.key = SettingsKeyOf[u] /\ settingsRow.value = SettingsValueOf[u]
    BY <1>3, <2>1, <2>2 DEF LastKept
  <2>4. settingsAt[r] = "rollback" /\ Settings!Repeats(r) => u = r
    BY <1>3, <2>3 DEF Settings!OwnKey, Settings!Repeats
  <2>5. settingsAt[r] = "rollback" => u # r
    BY <1>2, <2>2 DEF HandlersPlaced
  <2>6. settingsRow' = settingsRow
    BY <1>3, <1>5, <2>4, <2>5 DEF SettingsStep, Settings!Read, Settings!Audit,
       Settings!AuditFails, Settings!SetQuota, Settings!Crash, Settings!Rollback,
       Settings!Delete, Settings!Deleting, Settings!Restored
  <2>7. QED
    BY <2>3, <2>6
<1>6. QED
  BY <1>4, <1>5

LEMMA SettingsUnmoved == SettingsInv /\ UNCHANGED Settings!vars => SettingsInv'
<1>1. SUFFICES ASSUME SettingsInv, UNCHANGED Settings!vars PROVE SettingsInv'
  OBVIOUS
<1> USE <1>1 DEF SettingsInv, Settings!vars
<1>2. Settings!SettingsConstants' /\ Settings!TypeOK'
  BY DEF Settings!SettingsConstants, Settings!TypeOK, Settings!Row, Settings!Kinds,
     Settings!Places, Settings!Answers
<1>3. HandlersPlaced'
  BY DEF HandlersPlaced
<1>4. \A r \in SettingsRequests : BudgetKept(r)'
  BY DEF BudgetKept, Settings!OnlyChange, Settings!OnlyKeyAt, Settings!Deleting
<1>5. \A r \in SettingsRequests : SourceKept(r)'
  BY DEF SourceKept, Settings!OnlyKeyAt, Settings!Deleting
<1>6. \A r \in SettingsRequests : LastKept(r)'
  BY DEF LastKept, Settings!OwnKey
<1>7. QED
  BY <1>2, <1>3, <1>4, <1>5, <1>6

LEMMA SettingsNext ==
    SettingsInv /\ (Settings!Next \/ UNCHANGED Settings!vars) => SettingsInv'
<1>1. SUFFICES ASSUME SettingsInv, NEW r \in SettingsRequests, SettingsStep(r)
               PROVE  SettingsInv'
  BY SettingsUnmoved DEF Settings!Next, SettingsStep
<1>2. Settings!SettingsConstants'
  BY <1>1 DEF SettingsInv, Settings!SettingsConstants
<1>3. QED
  BY <1>1, <1>2, SettingsTyped, SettingsBudget, SettingsSource, SettingsStood DEF SettingsInv

\* A budget change that was sent and sent again and answered with success is stored and
\* enforced in both halves of the quota object, a definition of a source under one key makes
\* one version, and the providers' last update, answered with success, is taken back by no
\* rollback of an earlier one, for any number of requests, however they interleave and
\* wherever they fail (the settings of the control worker's and the assistant's index.ts).
THEOREM SettingsAreKept == HandlersSpec => []SettingsStand
<1> DEFINE J == part = "settings" => SettingsInv
<1>1. HandlersInit => J
  BY InstanceConstants, SettingsBegins DEF HandlersInit
<1>2. J /\ [HandlersNext]_allVars => J'
  <2>1. SUFFICES ASSUME J, [HandlersNext]_allVars, part' = "settings" PROVE SettingsInv'
    OBVIOUS
  <2>2. SettingsInv /\ (Settings!Next \/ UNCHANGED Settings!vars)
    BY <2>1 DEF HandlersNext, allVars, settingsVars, Settings!vars
  <2>3. QED
    BY <2>2, SettingsNext
<1>3. J => SettingsStand
  <2>1. SUFFICES ASSUME SettingsInv
                 PROVE  /\ Settings!TypeOK /\ Settings!OkEnforced
                        /\ Settings!OneVersionPerUpdate /\ Settings!LastUpdateStands
    BY DEF SettingsStand
  <2>2. Settings!OkEnforced
    BY <2>1 DEF SettingsInv, BudgetKept, Settings!OkEnforced
  <2>3. Settings!OneVersionPerUpdate
    BY <2>1 DEF SettingsInv, SourceKept, Settings!OneVersionPerUpdate
  <2>4. Settings!LastUpdateStands
    BY <2>1 DEF SettingsInv, LastKept, Settings!LastUpdateStands
  <2>5. QED
    BY <2>1, <2>2, <2>3, <2>4 DEF SettingsInv
<1>4. QED
  BY <1>1, <1>2, <1>3, PTL DEF HandlersSpec

-----------------------------------------------------------------------------
(***************************************************************************)
(* Accounts at the providers: OAuthConnections.                            *)
(***************************************************************************)

\* A row of the connections, a callback, a read and a disconnection under way.
ConnectionRow ==
    [subject : OAuthSubjects \cup {None}, token : {None} \cup 1 .. OAuthTokens,
     status : {"none", "active", "expired", "revoked"}]

CallbackState ==
    [step : {"idle", "consume", "exchange", "find", "store", "done"},
     tx : OAuthTransactions \cup {None}, subject : OAuthSubjects \cup {None},
     token : {None} \cup 1 .. OAuthTokens, found : OAuthLinks \cup {None}]

ReadState ==
    [step : {"idle", "refresh", "save", "expire", "ready", "served", "refused"},
     conn : OAuthLinks \cup {None}, token : {None} \cup 1 .. OAuthTokens]

LeaveState == [step : {"idle", "revoke", "delete"}, conn : OAuthLinks \cup {None}]

OAuthTypes ==
    /\ oauthGatekeeper \in OAuthGatekeepers
    /\ oauthTx \in [OAuthTransactions -> {"none", "open", "expired", "consumed"}]
    /\ oauthConn \in [OAuthLinks -> ConnectionRow]
    /\ oauthIssued \in 0 .. OAuthTokens /\ oauthLive \subseteq 1 .. oauthIssued
    /\ oauthCall \in [OAuthCallbacks -> CallbackState]
    /\ oauthRead \in [OAuthReads -> ReadState]
    /\ oauthLeaving \in LeaveState
    /\ oauthExchanged \in [OAuthTransactions -> {0, 1}]
    /\ oauthLate \in [OAuthReads -> BOOLEAN]

Known(i) == i \in OAuthLinks /\ oauthConn[i].status # "none"

\* An account has one active connection (a delegated one has one row), with a credential;
\* a revoked connection has none.
ConnectionSound(i) ==
    /\ oauthConn[i].subject = None <=> oauthConn[i].status = "none"
    /\ oauthConn[i].status = "active" => oauthConn[i].token # None
    /\ oauthConn[i].status = "revoked" => oauthConn[i].token = None
    /\ \A j \in OAuthLinks :
          /\ oauthConn[i].subject = oauthConn[j].subject /\ oauthConn[i].subject # None
          /\ oauthGatekeeper = "delegated"
                \/ (oauthConn[i].status = "active" /\ oauthConn[j].status = "active")
          => i = j

ConnectionsSound == \A i \in OAuthLinks : ConnectionSound(i)

\* Who may exchange the code of a transaction has consumed it, alone, and nobody has yet.
TransactionsSound ==
    /\ \A c \in OAuthCallbacks :
          /\ oauthCall[c].step \in {"consume", "exchange"} => oauthCall[c].tx \in OAuthTransactions
          /\ oauthCall[c].step = "exchange" =>
               /\ oauthTx[oauthCall[c].tx] = "consumed"
               /\ oauthExchanged[oauthCall[c].tx] = 0
               /\ \A d \in OAuthCallbacks :
                    oauthCall[d].step = "exchange" /\ oauthCall[d].tx = oauthCall[c].tx => c = d
    /\ \A t \in OAuthTransactions : oauthExchanged[t] = 1 => oauthTx[t] = "consumed"

\* What a callback brings is a token the provider issued, for an account.
CallsSound ==
    \A c \in OAuthCallbacks :
        /\ oauthCall[c].step # "idle" => oauthCall[c].subject \in OAuthSubjects
        /\ oauthCall[c].step \in {"find", "store"} => oauthCall[c].token \in 1 .. oauthIssued
        /\ oauthCall[c].step = "store" /\ oauthCall[c].found # None => Known(oauthCall[c].found)

\* A read that goes on is of a connection that exists and was not revoked when it began.
ReadsSound ==
    \A r \in OAuthReads :
        /\ oauthRead[r].step \notin {"idle", "refused"} => Known(oauthRead[r].conn)
        /\ oauthRead[r].step = "save" => oauthRead[r].token \in 1 .. oauthIssued
        /\ oauthLate[r] => oauthRead[r].step = "refused"

LeavingSound == oauthLeaving.step # "idle" => Known(oauthLeaving.conn)

OAuthInv ==
    /\ OAuth!ConnectionConstants /\ OAuthTypes /\ ConnectionsSound /\ TransactionsSound
    /\ CallsSound /\ ReadsSound /\ LeavingSound

\* RevokedStays without its box.
RevokedRemain ==
    \A i \in OAuthLinks :
        oauthGatekeeper # "delegated" /\ oauthConn[i].status = "revoked"
        => oauthConn'[i].status = "revoked"

LEMMA OAuthBegins ==
    OAuth!ConnectionConstants /\ OAuth!Init /\ oauthGatekeeper \in OAuthGatekeepers => OAuthInv
<1> SUFFICES ASSUME OAuth!ConnectionConstants, OAuth!Init PROVE OAuthInv
  BY DEF OAuth!Init
<1> USE DEF OAuth!Init, OAuth!NoConnection, OAuth!NoCall, OAuth!NoRead, OAuth!NotLeaving
<1>1. OAuthTypes
  BY DEF OAuthTypes, ConnectionRow, CallbackState, ReadState, LeaveState,
     OAuth!ConnectionConstants
<1>2. ConnectionsSound
  BY DEF ConnectionsSound, ConnectionSound
<1>3. TransactionsSound /\ CallsSound /\ ReadsSound /\ LeavingSound
  BY DEF TransactionsSound, CallsSound, ReadsSound, LeavingSound
<1>4. QED
  BY <1>1, <1>2, <1>3 DEF OAuthInv

LEMMA ConnectionsKept ==
    ASSUME OAuthInv, UNCHANGED <<oauthGatekeeper, oauthConn>>
    PROVE  /\ oauthConn' \in [OAuthLinks -> ConnectionRow] /\ ConnectionsSound' /\ RevokedRemain
           /\ \A k : Known(k) => Known(k)'
BY DEF OAuthInv, OAuthTypes, ConnectionsSound, ConnectionSound, RevokedRemain, Known

\* A connection that exists changes.
LEMMA ConnectionChanged ==
    ASSUME OAuthInv, UNCHANGED oauthGatekeeper, NEW i \in OAuthLinks, Known(i),
           NEW n \in ConnectionRow, oauthConn' = [oauthConn EXCEPT ![i] = n],
           n.subject = oauthConn[i].subject, n.status # "none",
           n.status = "active" => n.token # None
               /\ (oauthGatekeeper = "delegated" \/ oauthConn[i].status = "active"),
           n.status = "revoked" => n.token = None,
           oauthGatekeeper # "delegated" /\ oauthConn[i].status = "revoked" => n.status = "revoked"
    PROVE  /\ oauthConn' \in [OAuthLinks -> ConnectionRow] /\ ConnectionsSound' /\ RevokedRemain
           /\ \A k : Known(k) => Known(k)'
<1>1. oauthConn \in [OAuthLinks -> ConnectionRow] /\ ConnectionsSound
  BY DEF OAuthInv, OAuthTypes
<1>2. /\ oauthConn' \in [OAuthLinks -> ConnectionRow]
      /\ \A k \in OAuthLinks : oauthConn'[k] = IF k = i THEN n ELSE oauthConn[k]
  BY <1>1
<1>3. (\A k : Known(k) => Known(k)') /\ RevokedRemain
  BY <1>2 DEF Known, RevokedRemain
<1>4. ASSUME NEW k \in OAuthLinks PROVE ConnectionSound(k)'
  <2>1. ConnectionSound(k) /\ ConnectionSound(i) /\ oauthConn[i].status # "none"
    BY <1>1 DEF ConnectionsSound, Known
  <2>2. /\ oauthConn'[k].subject = oauthConn[k].subject
        /\ oauthConn'[k].status = "none" <=> oauthConn[k].status = "none"
    BY <1>2, <2>1
  <2>3. /\ oauthConn'[k].status = "active" => oauthConn'[k].token # None
        /\ oauthConn'[k].status = "revoked" => oauthConn'[k].token = None
    BY <1>2, <2>1 DEF ConnectionSound
  <2>4. \A j \in OAuthLinks :
           /\ oauthConn'[j].subject = oauthConn[j].subject
           /\ oauthConn'[j].status = "active" =>
                 oauthGatekeeper = "delegated" \/ oauthConn[j].status = "active"
    BY <1>2
  <2>5. ASSUME NEW j \in OAuthLinks, oauthConn'[k].subject = oauthConn'[j].subject,
               oauthConn'[k].subject # None,
               oauthGatekeeper' = "delegated"
                  \/ (oauthConn'[k].status = "active" /\ oauthConn'[j].status = "active")
        PROVE  k = j
    <3>1. oauthGatekeeper = "delegated"
             \/ (oauthConn[k].status = "active" /\ oauthConn[j].status = "active")
      BY <2>4, <2>5
    <3>2. oauthConn[k].subject = oauthConn[j].subject /\ oauthConn[k].subject # None
      BY <2>4, <2>5
    <3>3. QED
      BY <2>1, <3>1, <3>2 DEF ConnectionSound
  <2>6. oauthConn'[k].subject = None <=> oauthConn'[k].status = "none"
    BY <2>1, <2>2 DEF ConnectionSound
  <2>7. QED
    BY <2>3, <2>5, <2>6 DEF ConnectionSound
<1>5. QED
  BY <1>2, <1>3, <1>4 DEF ConnectionsSound

\* A new connection is made where no other is the account's.
LEMMA ConnectionMade ==
    ASSUME OAuthInv, UNCHANGED oauthGatekeeper, NEW i \in OAuthLinks, oauthConn[i].status = "none",
           NEW n \in ConnectionRow, oauthConn' = [oauthConn EXCEPT ![i] = n],
           n.subject # None, n.status = "active", n.token # None,
           \A j \in OAuthLinks : ~OAuth!Same(j, n.subject)
    PROVE  /\ oauthConn' \in [OAuthLinks -> ConnectionRow] /\ ConnectionsSound' /\ RevokedRemain
           /\ \A k : Known(k) => Known(k)'
<1>1. oauthConn \in [OAuthLinks -> ConnectionRow] /\ ConnectionsSound
  BY DEF OAuthInv, OAuthTypes
<1>2. /\ oauthConn' \in [OAuthLinks -> ConnectionRow]
      /\ \A k \in OAuthLinks : oauthConn'[k] = IF k = i THEN n ELSE oauthConn[k]
  BY <1>1
<1>3. (\A k : Known(k) => Known(k)') /\ RevokedRemain
  BY <1>2 DEF Known, RevokedRemain
<1>4. ASSUME NEW k \in OAuthLinks PROVE ConnectionSound(k)'
  <2>1. \A j \in OAuthLinks :
           oauthConn[j].subject = n.subject =>
              oauthGatekeeper # "delegated" /\ oauthConn[j].status # "active"
    BY DEF OAuth!Same
  <2>2. ConnectionSound(k)
    BY <1>1 DEF ConnectionsSound
  <2>3. QED
    BY <1>2, <2>1, <2>2 DEF ConnectionSound
<1>5. QED
  BY <1>2, <1>3, <1>4 DEF ConnectionsSound

\* What a step may leave alone: the callbacks, the reads, the disconnection.
LEMMA CallsLeft ==
    ASSUME OAuthInv, UNCHANGED <<oauthTx, oauthCall, oauthExchanged>>, oauthIssued <= oauthIssued',
           oauthIssued' \in Nat, \A k : Known(k) => Known(k)'
    PROVE  TransactionsSound' /\ CallsSound'
<1>1. TransactionsSound /\ CallsSound /\ OAuthTypes
  BY DEF OAuthInv
<1>2. oauthIssued \in Nat
  BY <1>1 DEF OAuthTypes, OAuthInv, OAuth!ConnectionConstants
<1>3. TransactionsSound'
  BY <1>1 DEF TransactionsSound
<1>4. CallsSound'
  BY <1>1, <1>2 DEF CallsSound
<1>5. QED
  BY <1>3, <1>4

LEMMA ReadsLeft ==
    ASSUME OAuthInv, UNCHANGED <<oauthRead, oauthLate>>, oauthIssued <= oauthIssued',
           oauthIssued' \in Nat, \A k : Known(k) => Known(k)'
    PROVE  ReadsSound'
<1>1. ReadsSound /\ OAuthTypes
  BY DEF OAuthInv
<1>2. oauthIssued \in Nat
  BY <1>1 DEF OAuthTypes, OAuthInv, OAuth!ConnectionConstants
<1>3. QED
  BY <1>1, <1>2 DEF ReadsSound

LEMMA LeavingLeft ==
    ASSUME OAuthInv, UNCHANGED oauthLeaving, \A k : Known(k) => Known(k)'
    PROVE  LeavingSound'
BY DEF OAuthInv, LeavingSound

\* A callback moves on: the transactions and the callbacks stay sound where the one that
\* moves is.
LEMMA CallMoves ==
    ASSUME OAuthInv, NEW c \in OAuthCallbacks, NEW n \in CallbackState,
           oauthCall' = [oauthCall EXCEPT ![c] = n], UNCHANGED <<oauthTx, oauthExchanged>>,
           n.step \notin {"idle", "exchange"}, n.subject \in OAuthSubjects,
           n.step = "consume" => n.tx \in OAuthTransactions,
           n.step \in {"find", "store"} => n.token \in 1 .. oauthIssued,
           n.step = "store" /\ n.found # None => Known(n.found),
           UNCHANGED oauthIssued, \A k : Known(k) => Known(k)'
    PROVE  /\ oauthCall' \in [OAuthCallbacks -> CallbackState]
           /\ TransactionsSound' /\ CallsSound'
<1>1. TransactionsSound /\ CallsSound /\ oauthCall \in [OAuthCallbacks -> CallbackState]
  BY DEF OAuthInv, OAuthTypes
<1>2. /\ oauthCall' \in [OAuthCallbacks -> CallbackState]
      /\ \A d \in OAuthCallbacks : oauthCall'[d] = IF d = c THEN n ELSE oauthCall[d]
  BY <1>1
<1>3. TransactionsSound'
  BY <1>1, <1>2 DEF TransactionsSound
<1>4. CallsSound'
  BY <1>1, <1>2 DEF CallsSound
<1>5. QED
  BY <1>2, <1>3, <1>4

\* The step of a callback that changes neither transactions nor tokens: what is left to show
\* of it is where the callback goes, and what becomes of the connections.
LEMMA CallbackStep ==
    ASSUME OAuthInv, NEW c \in OAuthCallbacks, NEW n \in CallbackState,
           oauthCall' = [oauthCall EXCEPT ![c] = n],
           UNCHANGED <<oauthGatekeeper, oauthTx, oauthIssued, oauthLive, oauthRead, oauthLeaving,
                       oauthExchanged, oauthLate>>,
           n.step \notin {"idle", "exchange"}, n.subject \in OAuthSubjects,
           n.step = "consume" => n.tx \in OAuthTransactions,
           n.step \in {"find", "store"} => n.token \in 1 .. oauthIssued,
           n.step = "store" /\ n.found # None => Known(n.found),
           oauthConn' \in [OAuthLinks -> ConnectionRow], ConnectionsSound',
           \A k : Known(k) => Known(k)'
    PROVE  OAuthInv'
<1>1. OAuthTypes /\ OAuth!ConnectionConstants /\ oauthIssued \in Nat
  BY DEF OAuthInv, OAuthTypes, OAuth!ConnectionConstants
<1>2. oauthCall' \in [OAuthCallbacks -> CallbackState] /\ TransactionsSound' /\ CallsSound'
  BY CallMoves
<1>3. ReadsSound' /\ LeavingSound'
  BY <1>1, ReadsLeft, LeavingLeft
<1>4. OAuthTypes'
  BY <1>1, <1>2 DEF OAuthTypes
<1>5. QED
  BY <1>1, <1>2, <1>3, <1>4 DEF OAuthInv, OAuth!ConnectionConstants

LEMMA OAuthStarts ==
    ASSUME OAuthInv, NEW t \in OAuthTransactions, OAuth!Begin(t) \/ OAuth!Expire(t)
    PROVE  OAuthInv' /\ RevokedRemain
<1> USE DEF OAuth!Begin, OAuth!Expire, OAuth!provider, OAuth!assistant
<1>1. OAuthTypes /\ OAuth!ConnectionConstants /\ oauthIssued \in Nat
  BY DEF OAuthInv, OAuthTypes, OAuth!ConnectionConstants
<1>2. /\ oauthTx' \in [OAuthTransactions -> {"none", "open", "expired", "consumed"}]
      /\ \A u \in OAuthTransactions : oauthTx[u] = "consumed" => oauthTx'[u] = "consumed"
  BY <1>1 DEF OAuthTypes
<1>3. /\ oauthConn' \in [OAuthLinks -> ConnectionRow] /\ ConnectionsSound' /\ RevokedRemain
      /\ \A k : Known(k) => Known(k)'
  BY ConnectionsKept
<1>4. OAuthTypes'
  BY <1>1, <1>2, <1>3 DEF OAuthTypes
<1>5. TransactionsSound'
  BY <1>2 DEF OAuthInv, TransactionsSound
<1>6. CallsSound'
  BY DEF OAuthInv, CallsSound, Known
<1>7. ReadsSound' /\ LeavingSound'
  BY <1>1, <1>3, ReadsLeft, LeavingLeft
<1>8. QED
  BY <1>1, <1>3, <1>4, <1>5, <1>6, <1>7 DEF OAuthInv, OAuth!ConnectionConstants

LEMMA OAuthConsumes ==
    ASSUME OAuthInv, NEW c \in OAuthCallbacks, OAuth!Consume(c) \/ OAuth!Exchange(c)
    PROVE  OAuthInv' /\ RevokedRemain
<1> USE DEF OAuth!provider, OAuth!assistant
<1>1. /\ OAuthTypes /\ OAuth!ConnectionConstants /\ oauthIssued \in Nat /\ OAuthTokens \in Nat
      /\ TransactionsSound /\ CallsSound
  BY DEF OAuthInv, OAuthTypes, OAuth!ConnectionConstants
<1>2. UNCHANGED <<oauthGatekeeper, oauthConn, oauthRead, oauthLeaving, oauthLate>>
  BY DEF OAuth!Consume, OAuth!Exchange
<1>3. /\ oauthConn' \in [OAuthLinks -> ConnectionRow] /\ ConnectionsSound' /\ RevokedRemain
      /\ \A k : Known(k) => Known(k)'
  BY <1>2, ConnectionsKept
<1> DEFINE t == oauthCall[c].tx
<1>4. t \in OAuthTransactions /\ oauthCall[c] \in CallbackState /\ oauthCall[c].subject \in OAuthSubjects
  BY <1>1 DEF OAuthTypes, TransactionsSound, CallsSound, OAuth!Consume, OAuth!Exchange
<1>5. CASE OAuth!Consume(c)
  <2> DEFINE n == [oauthCall[c] EXCEPT !.step = IF oauthTx[t] = "consumed" THEN "done" ELSE "exchange"]
  <2>1. /\ n \in CallbackState /\ n.tx = t /\ n.subject = oauthCall[c].subject
        /\ n.step = IF oauthTx[t] = "consumed" THEN "done" ELSE "exchange"
    BY <1>4 DEF CallbackState
  <2>2. /\ oauthTx' = [oauthTx EXCEPT ![t] = "consumed"] /\ oauthCall' = [oauthCall EXCEPT ![c] = n]
        /\ UNCHANGED <<oauthIssued, oauthLive, oauthExchanged>>
    BY <1>5 DEF OAuth!Consume
  <2> HIDE DEF n, t
  <2>3. /\ oauthTx' \in [OAuthTransactions -> {"none", "open", "expired", "consumed"}]
        /\ \A u \in OAuthTransactions : oauthTx'[u] = IF u = t THEN "consumed" ELSE oauthTx[u]
        /\ oauthCall' \in [OAuthCallbacks -> CallbackState]
        /\ \A d \in OAuthCallbacks : oauthCall'[d] = IF d = c THEN n ELSE oauthCall[d]
    BY <1>1, <1>4, <2>1, <2>2 DEF OAuthTypes
  <2>4. OAuthTypes'
    BY <1>1, <1>2, <1>3, <2>2, <2>3 DEF OAuthTypes
  <2>5. oauthTx[t] # "consumed" => oauthExchanged[t] = 0
    BY <1>1, <1>4 DEF TransactionsSound, OAuthTypes
  <2>6. TransactionsSound'
    <3>1. \A d \in OAuthCallbacks :
             oauthCall'[d].step \in {"consume", "exchange"} => oauthCall'[d].tx \in OAuthTransactions
      BY <1>1, <1>4, <2>1, <2>3 DEF TransactionsSound
    <3>2. \A d \in OAuthCallbacks : oauthCall'[d].step = "exchange" =>
             oauthTx'[oauthCall'[d].tx] = "consumed" /\ oauthExchanged[oauthCall'[d].tx] = 0
      BY <1>1, <1>4, <2>1, <2>3, <2>5 DEF TransactionsSound
    <3>3. ASSUME NEW d \in OAuthCallbacks, NEW e \in OAuthCallbacks,
                 oauthCall'[d].step = "exchange", oauthCall'[e].step = "exchange",
                 oauthCall'[e].tx = oauthCall'[d].tx
          PROVE  d = e
      <4>1. \A b \in OAuthCallbacks :
               b # c /\ oauthCall'[b].step = "exchange" /\ oauthCall'[b].tx = t
               => oauthTx[t] = "consumed"
        BY <1>1, <2>3 DEF TransactionsSound
      <4>2. oauthCall'[c].step = "exchange" => oauthTx[t] # "consumed" /\ oauthCall'[c].tx = t
        BY <2>1, <2>3
      <4>3. CASE d = c \/ e = c
        BY <3>3, <4>1, <4>2, <4>3
      <4>4. CASE d # c /\ e # c
        BY <1>1, <2>3, <3>3, <4>4 DEF TransactionsSound
      <4>5. QED
        BY <4>3, <4>4
    <3>4. \A u \in OAuthTransactions : oauthExchanged[u] = 1 => oauthTx'[u] = "consumed"
      BY <1>1, <2>3 DEF TransactionsSound
    <3>5. QED
      BY <2>2, <3>1, <3>2, <3>3, <3>4 DEF TransactionsSound
  <2>7. CallsSound'
    BY <1>1, <1>3, <1>4, <2>1, <2>2, <2>3 DEF CallsSound
  <2>8. ReadsSound' /\ LeavingSound'
    BY <1>1, <1>2, <1>3, <2>2, ReadsLeft, LeavingLeft
  <2>9. QED
    BY <1>1, <1>3, <2>4, <2>6, <2>7, <2>8 DEF OAuthInv, OAuth!ConnectionConstants
<1>6. CASE OAuth!Exchange(c)
  <2> DEFINE n == [oauthCall[c] EXCEPT !.step = "find", !.token = oauthIssued + 1]
  <2>1. /\ oauthIssued + 1 \in 1 .. OAuthTokens /\ oauthIssued' = oauthIssued + 1
        /\ oauthLive' = oauthLive \cup {oauthIssued + 1}
        /\ oauthCall' = [oauthCall EXCEPT ![c] = n]
        /\ oauthExchanged' = [oauthExchanged EXCEPT ![t] = oauthExchanged[t] + 1]
        /\ oauthTx' = oauthTx /\ oauthCall[c].step = "exchange"
    <3>1. /\ oauthIssued + 1 \in 1 .. OAuthTokens /\ oauthIssued' = oauthIssued + 1
          /\ oauthLive' = oauthLive \cup {oauthIssued + 1}
          /\ oauthTx' = oauthTx /\ oauthCall[c].step = "exchange"
      BY <1>1, <1>6 DEF OAuth!Exchange
    <3>2. oauthCall' = [oauthCall EXCEPT ![c] = n]
      BY <1>1, <1>6 DEF OAuth!Exchange, OAuthTypes
    <3>3. oauthExchanged' = [oauthExchanged EXCEPT ![t] = oauthExchanged[t] + 1]
      BY <1>6 DEF OAuth!Exchange
    <3>4. QED
      BY <3>1, <3>2, <3>3
  <2>2. /\ n \in CallbackState /\ n.step = "find" /\ n.token = oauthIssued + 1
        /\ n.subject = oauthCall[c].subject
    BY <1>4, <2>1 DEF CallbackState
  <2>3. oauthTx[t] = "consumed" /\ oauthExchanged[t] = 0
    BY <1>1, <2>1 DEF TransactionsSound
  <2> HIDE DEF n, t
  <2>4. /\ oauthExchanged' \in [OAuthTransactions -> {0, 1}]
        /\ \A u \in OAuthTransactions : oauthExchanged'[u] = IF u = t THEN 1 ELSE oauthExchanged[u]
        /\ oauthCall' \in [OAuthCallbacks -> CallbackState]
        /\ \A d \in OAuthCallbacks : oauthCall'[d] = IF d = c THEN n ELSE oauthCall[d]
    BY <1>1, <1>4, <2>1, <2>2, <2>3 DEF OAuthTypes
  <2>5. oauthIssued' \in 0 .. OAuthTokens /\ oauthLive' \subseteq 1 .. oauthIssued'
    BY <1>1, <2>1 DEF OAuthTypes
  <2>6. OAuthTypes'
    BY <1>1, <1>2, <1>3, <2>1, <2>4, <2>5 DEF OAuthTypes
  <2>7. TransactionsSound'
    <3>1. \A d \in OAuthCallbacks :
             d # c /\ oauthCall[d].step = "exchange" => oauthCall[d].tx # t
      BY <1>1, <2>1 DEF TransactionsSound, t
    <3>2. QED
      BY <1>1, <2>1, <2>2, <2>3, <2>4, <3>1 DEF TransactionsSound
  <2>8. CallsSound'
    BY <1>1, <1>3, <1>4, <2>1, <2>2, <2>4 DEF CallsSound
  <2>9. ReadsSound' /\ LeavingSound'
    BY <1>1, <1>2, <1>3, <2>1, ReadsLeft, LeavingLeft
  <2>10. QED
    BY <1>1, <1>3, <2>6, <2>7, <2>8, <2>9 DEF OAuthInv, OAuth!ConnectionConstants
<1>7. QED
  BY <1>5, <1>6

LEMMA OAuthCalls ==
    ASSUME OAuthInv, NEW c \in OAuthCallbacks,
           \/ \E t \in OAuthTransactions, s \in OAuthSubjects : OAuth!Arrive(c, t, s)
           \/ OAuth!CallbackFails(c) \/ OAuth!Find(c)
    PROVE  OAuthInv' /\ RevokedRemain
<1> USE DEF OAuth!provider, OAuth!assistant
<1>1. /\ OAuthTypes /\ CallsSound /\ TransactionsSound /\ ConnectionsSound
      /\ None \notin OAuthSubjects /\ oauthCall[c] \in CallbackState
  BY DEF OAuthInv, OAuthTypes, OAuth!ConnectionConstants
<1>2. UNCHANGED <<oauthGatekeeper, oauthTx, oauthConn, oauthIssued, oauthLive, oauthRead,
                  oauthLeaving, oauthExchanged, oauthLate>>
  BY DEF OAuth!Arrive, OAuth!CallbackFails, OAuth!Find
<1>3. /\ oauthConn' \in [OAuthLinks -> ConnectionRow] /\ ConnectionsSound' /\ RevokedRemain
      /\ \A k : Known(k) => Known(k)'
  BY <1>2, ConnectionsKept
<1>4. ASSUME NEW t \in OAuthTransactions, NEW s \in OAuthSubjects, OAuth!Arrive(c, t, s)
      PROVE  OAuthInv'
  <2> DEFINE n == [OAuth!NoCall EXCEPT !.step = IF oauthTx[t] = "open" THEN "consume" ELSE "done",
                                       !.tx = t, !.subject = s]
  <2>1. /\ n \in CallbackState /\ n.step \in {"consume", "done"} /\ n.tx = t /\ n.subject = s
        /\ oauthCall' = [oauthCall EXCEPT ![c] = n]
    BY <1>4 DEF OAuth!Arrive, OAuth!NoCall, CallbackState
  <2> HIDE DEF n
  <2>2. QED
    BY <1>2, <1>3, <2>1, CallbackStep
<1>5. CASE OAuth!CallbackFails(c)
  <2> DEFINE n == [oauthCall[c] EXCEPT !.step = "done"]
  <2>1. /\ n \in CallbackState /\ n.step = "done" /\ n.subject = oauthCall[c].subject
        /\ oauthCall' = [oauthCall EXCEPT ![c] = n] /\ oauthCall[c].step # "idle"
    BY <1>1, <1>5 DEF OAuth!CallbackFails, CallbackState
  <2> HIDE DEF n
  <2>2. n.subject \in OAuthSubjects
    BY <1>1, <2>1 DEF CallsSound
  <2>3. QED
    BY <1>2, <1>3, <2>1, <2>2, CallbackStep
<1>6. CASE OAuth!Find(c)
  <2>1. PICK i \in OAuthLinks \cup {None} :
           /\ i # None => i \in OAuthLinks /\ OAuth!Same(i, oauthCall[c].subject)
           /\ oauthCall' = [oauthCall EXCEPT ![c].step = "store", ![c].found = i]
    BY <1>6 DEF OAuth!Find
  <2> DEFINE n == [oauthCall[c] EXCEPT !.step = "store", !.found = i]
  <2>2. /\ n \in CallbackState /\ n.step = "store" /\ n.subject = oauthCall[c].subject
        /\ n.found = i /\ n.token = oauthCall[c].token
    BY <1>1, <2>1 DEF CallbackState
  <2>3. oauthCall' = [oauthCall EXCEPT ![c] = n]
    BY <1>1, <2>1 DEF OAuthTypes
  <2> HIDE DEF n
  <2>4. oauthCall[c].subject \in OAuthSubjects /\ oauthCall[c].token \in 1 .. oauthIssued
    BY <1>1, <1>6 DEF CallsSound, OAuth!Find
  <2>5. i # None => Known(i)
    BY <1>1, <2>1, <2>4 DEF Known, OAuth!Same, ConnectionsSound, ConnectionSound
  <2>6. QED
    BY <1>2, <1>3, <2>2, <2>3, <2>4, <2>5, CallbackStep
<1>7. QED
  BY <1>3, <1>4, <1>5, <1>6

\* The credential a callback brings is stored.
LEMMA OAuthStores ==
    ASSUME OAuthInv, NEW c \in OAuthCallbacks, OAuth!Replace(c) \/ OAuth!Insert(c)
    PROVE  OAuthInv' /\ RevokedRemain
<1> USE DEF OAuth!provider, OAuth!assistant
<1>1. /\ OAuthTypes /\ CallsSound /\ ConnectionsSound /\ oauthCall[c] \in CallbackState
      /\ oauthConn \in [OAuthLinks -> ConnectionRow]
      /\ oauthIssued \in 0 .. OAuthTokens /\ OAuthTokens \in Nat /\ None \notin Nat \cup OAuthSubjects
  BY DEF OAuthInv, OAuthTypes, OAuth!ConnectionConstants
<1> DEFINE n == [oauthCall[c] EXCEPT !.step = "done"]
<1>2. /\ n \in CallbackState /\ n.step = "done" /\ n.subject = oauthCall[c].subject
      /\ oauthCall' = [oauthCall EXCEPT ![c] = n] /\ oauthCall[c].step = "store"
      /\ UNCHANGED <<oauthGatekeeper, oauthTx, oauthIssued, oauthLive, oauthRead, oauthLeaving,
                      oauthExchanged, oauthLate>>
  BY <1>1 DEF OAuth!Replace, OAuth!Insert, CallbackState
<1> HIDE DEF n
<1>3. oauthCall[c].subject \in OAuthSubjects /\ oauthCall[c].token \in 1 .. oauthIssued
  BY <1>1, <1>2 DEF CallsSound
<1>4. oauthCall[c].token \in 1 .. OAuthTokens /\ oauthCall[c].token # None
  BY <1>1, <1>3
<1>5. SUFFICES /\ oauthConn' \in [OAuthLinks -> ConnectionRow] /\ ConnectionsSound' /\ RevokedRemain
               /\ \A k : Known(k) => Known(k)'
  BY <1>2, <1>3, CallbackStep
<1>6. CASE OAuth!Replace(c)
  <2> DEFINE i == oauthCall[c].found
  <2>1. Known(i)
    BY <1>1, <1>2, <1>6 DEF CallsSound, OAuth!Replace
  <2>2. oauthConn[i] \in ConnectionRow /\ i \in OAuthLinks
    BY <1>1, <2>1 DEF Known
  <2>3. CASE oauthConn' = oauthConn
    BY <1>2, <2>3, ConnectionsKept
  <2>4. CASE oauthGatekeeper = "delegated"
    <3> DEFINE m == [oauthConn[i] EXCEPT !.status = "active", !.token = oauthCall[c].token]
    <3>1. /\ m \in ConnectionRow /\ m.status = "active" /\ m.token # None
          /\ m.subject = oauthConn[i].subject
      BY <1>4, <2>2 DEF ConnectionRow
    <3>2. oauthConn' = [oauthConn EXCEPT ![i] = m]
      BY <1>1, <1>6, <2>4 DEF OAuth!Replace
    <3> HIDE DEF m, i
    <3>3. QED
      BY <1>2, <2>1, <2>2, <2>4, <3>1, <3>2, ConnectionChanged
  <2>5. CASE oauthGatekeeper # "delegated" /\ oauthConn[i].token # None
    <3> DEFINE m == [oauthConn[i] EXCEPT !.token = oauthCall[c].token]
    <3>1. /\ m \in ConnectionRow /\ m.status = oauthConn[i].status /\ m.token # None
          /\ m.subject = oauthConn[i].subject
      BY <1>4, <2>2 DEF ConnectionRow
    <3>2. oauthConn' = [oauthConn EXCEPT ![i] = m]
      BY <1>1, <1>6, <2>5 DEF OAuth!Replace
    <3>3. oauthConn[i].status \notin {"none", "revoked"}
      BY <1>1, <2>1, <2>2, <2>5 DEF Known, ConnectionsSound, ConnectionSound
    <3> HIDE DEF m, i
    <3>4. QED
      BY <1>2, <2>1, <2>2, <3>1, <3>2, <3>3, ConnectionChanged
  <2>6. QED
    BY <1>6, <2>3, <2>4, <2>5 DEF OAuth!Replace
<1>7. CASE OAuth!Insert(c)
  <2>1. CASE oauthConn' = oauthConn
    BY <1>2, <2>1, ConnectionsKept
  <2>2. CASE oauthConn' # oauthConn
    <3> DEFINE m == [subject |-> oauthCall[c].subject, status |-> "active", token |-> oauthCall[c].token]
    <3>1. PICK i \in OAuthLinks : oauthConn[i].status = "none" /\ oauthConn' = [oauthConn EXCEPT ![i] = m]
      BY <1>7, <2>2 DEF OAuth!Insert
    <3>2. \A j \in OAuthLinks : ~OAuth!Same(j, m.subject)
      BY <1>7, <2>2 DEF OAuth!Insert
    <3>3. /\ m \in ConnectionRow /\ m.status = "active" /\ m.token # None /\ m.subject # None
      BY <1>1, <1>3, <1>4 DEF ConnectionRow
    <3> HIDE DEF m
    <3>4. QED
      BY <1>2, <3>1, <3>2, <3>3, ConnectionMade
  <2>3. QED
    BY <2>1, <2>2
<1>8. QED
  BY <1>6, <1>7

\* A read moves on; a token may be issued for it, and its connection may change.
LEMMA ReadStep ==
    ASSUME OAuthInv, NEW r \in OAuthReads, NEW n \in ReadState, NEW b \in BOOLEAN,
           oauthRead' = [oauthRead EXCEPT ![r] = n], oauthLate' = [oauthLate EXCEPT ![r] = b],
           UNCHANGED <<oauthGatekeeper, oauthTx, oauthCall, oauthLeaving, oauthExchanged>>,
           n.step \notin {"idle", "refused"} => Known(n.conn),
           n.step = "save" => n.token \in 1 .. oauthIssued',
           b => n.step = "refused",
           oauthIssued' \in oauthIssued .. OAuthTokens, oauthLive' \subseteq 1 .. oauthIssued',
           oauthConn' \in [OAuthLinks -> ConnectionRow], ConnectionsSound',
           \A k : Known(k) => Known(k)'
    PROVE  OAuthInv'
<1>1. /\ OAuthTypes /\ OAuth!ConnectionConstants /\ ReadsSound /\ OAuthTokens \in Nat
      /\ oauthIssued \in Nat
  BY DEF OAuthInv, OAuthTypes, OAuth!ConnectionConstants
<1>2. oauthIssued <= oauthIssued' /\ oauthIssued' \in Nat /\ oauthIssued' \in 0 .. OAuthTokens
  BY <1>1
<1>3. TransactionsSound' /\ CallsSound' /\ LeavingSound'
  BY <1>2, CallsLeft, LeavingLeft
<1>4. /\ oauthRead' \in [OAuthReads -> ReadState] /\ oauthLate' \in [OAuthReads -> BOOLEAN]
      /\ \A q \in OAuthReads : /\ oauthRead'[q] = IF q = r THEN n ELSE oauthRead[q]
                               /\ oauthLate'[q] = IF q = r THEN b ELSE oauthLate[q]
  BY <1>1 DEF OAuthTypes
<1>5. ASSUME NEW q \in OAuthReads
      PROVE  (/\ oauthRead[q].step \notin {"idle", "refused"} => Known(oauthRead[q].conn)
              /\ oauthRead[q].step = "save" => oauthRead[q].token \in 1 .. oauthIssued
              /\ oauthLate[q] => oauthRead[q].step = "refused")'
  <2>1. CASE q = r
    BY <1>4, <2>1 DEF Known
  <2>2. CASE q # r
    <3>1. 1 .. oauthIssued \subseteq 1 .. oauthIssued'
      BY <1>1, <1>2
    <3>2. QED
      BY <1>1, <1>4, <2>2, <3>1 DEF ReadsSound, Known
  <2>3. QED
    BY <2>1, <2>2
<1>6. ReadsSound'
  BY <1>5 DEF ReadsSound
<1>7. OAuthTypes'
  BY <1>1, <1>2, <1>4 DEF OAuthTypes
<1>8. QED
  BY <1>1, <1>3, <1>6, <1>7 DEF OAuthInv, OAuth!ConnectionConstants

\* A read begins, with what the assistant's list offers.
LEMMA OAuthSelects ==
    ASSUME OAuthInv, NEW r \in OAuthReads, NEW i \in OAuthLinks, OAuth!Select(r, i)
    PROVE  OAuthInv' /\ RevokedRemain
<1> USE DEF OAuth!provider, OAuth!assistant
<1>1. /\ OAuthTypes /\ oauthConn[i] \in ConnectionRow /\ OAuthTokens \in Nat
      /\ oauthIssued \in Nat /\ oauthIssued <= OAuthTokens /\ oauthLive \subseteq 1 .. oauthIssued
  BY DEF OAuthInv, OAuthTypes, OAuth!ConnectionConstants
<1>2. UNCHANGED <<oauthGatekeeper, oauthTx, oauthConn, oauthIssued, oauthLive, oauthCall,
                  oauthLeaving, oauthExchanged>>
  BY DEF OAuth!Select
<1>3. /\ oauthConn' \in [OAuthLinks -> ConnectionRow] /\ ConnectionsSound' /\ RevokedRemain
      /\ \A k : Known(k) => Known(k)'
  BY <1>2, ConnectionsKept
<1> DEFINE b == oauthConn[i].status = "revoked"
<1>4. PICK step \in {"refused", "refresh", "ready"} :
        /\ oauthConn[i].status # "active" => step = "refused"
        /\ oauthRead' = [oauthRead EXCEPT ![r] = [step |-> step, conn |-> i, token |-> oauthConn[i].token]]
  BY DEF OAuth!Select
<1> DEFINE n == [step |-> step, conn |-> i, token |-> oauthConn[i].token]
<1>5. n \in ReadState /\ n.step = step /\ n.conn = i
  BY <1>1 DEF ReadState, ConnectionRow
<1>6. oauthLate' = [oauthLate EXCEPT ![r] = b] /\ b \in BOOLEAN
  BY DEF OAuth!Select
<1>7. step # "refused" => Known(i) /\ ~b
  BY <1>4 DEF Known
<1>8. oauthIssued' \in oauthIssued .. OAuthTokens /\ oauthLive' \subseteq 1 .. oauthIssued'
  BY <1>1, <1>2
<1> HIDE DEF n, b
<1>9. oauthRead' = [oauthRead EXCEPT ![r] = n]
  BY <1>4 DEF n
<1>10. OAuthInv'
  BY <1>2, <1>3, <1>4, <1>5, <1>6, <1>7, <1>8, <1>9, ReadStep
<1>11. QED
  BY <1>3, <1>10

\* It goes on.
LEMMA OAuthReadsOn ==
    ASSUME OAuthInv, NEW r \in OAuthReads,
           \/ OAuth!Refresh(r) \/ OAuth!RefreshFails(r) \/ OAuth!SaveRefreshed(r)
           \/ OAuth!Reconsent(r) \/ OAuth!MarkExpired(r) \/ OAuth!GoogleRead(r)
           \/ OAuth!GitHubRead(r) \/ OAuth!DelegatedRead(r)
    PROVE  OAuthInv' /\ RevokedRemain
<1> USE DEF OAuth!provider, OAuth!assistant
<1> DEFINE i == oauthRead[r].conn
           q == oauthRead[r]
<1>1. /\ OAuthTypes /\ ReadsSound /\ OAuthTokens \in Nat /\ None \notin Nat /\ q \in ReadState
      /\ oauthIssued \in Nat /\ oauthIssued <= OAuthTokens /\ oauthLive \subseteq 1 .. oauthIssued
      /\ oauthRead \in [OAuthReads -> ReadState] /\ ConnectionsSound
      /\ oauthConn \in [OAuthLinks -> ConnectionRow]
  BY DEF OAuthInv, OAuthTypes, OAuth!ConnectionConstants
<1>2. /\ UNCHANGED <<oauthGatekeeper, oauthTx, oauthCall, oauthLeaving, oauthExchanged, oauthLate>>
      /\ q.step \notin {"idle", "refused"}
  BY DEF OAuth!Refresh, OAuth!RefreshFails, OAuth!SaveRefreshed, OAuth!Reconsent,
     OAuth!MarkExpired,
     OAuth!GoogleRead, OAuth!GitHubRead, OAuth!DelegatedRead, OAuth!Answer
<1>3. Known(i) /\ i \in OAuthLinks /\ oauthConn[i] \in ConnectionRow
  BY <1>1, <1>2 DEF ReadsSound, Known
<1>4. oauthLate' = [oauthLate EXCEPT ![r] = FALSE]
  BY <1>1, <1>2 DEF ReadsSound, OAuthTypes
<1>5. ASSUME NEW step \in {"save", "expire", "ready", "served", "refused"},
             NEW token \in {None} \cup 1 .. OAuthTokens,
             oauthRead' = [oauthRead EXCEPT ![r] = [step |-> step, conn |-> i, token |-> token]],
             step = "save" => token \in 1 .. oauthIssued',
             oauthIssued' \in oauthIssued .. OAuthTokens, oauthLive' \subseteq 1 .. oauthIssued',
             /\ oauthConn' \in [OAuthLinks -> ConnectionRow] /\ ConnectionsSound' /\ RevokedRemain
             /\ \A k : Known(k) => Known(k)'
      PROVE  OAuthInv' /\ RevokedRemain
  <2> DEFINE n == [step |-> step, conn |-> i, token |-> token]
  <2>1. n \in ReadState /\ n.step = step /\ n.conn = i /\ n.token = token
    BY <1>3, <1>5 DEF ReadState
  <2>2. oauthRead' = [oauthRead EXCEPT ![r] = n]
    BY <1>5
  <2> HIDE DEF n
  <2>3. OAuthInv'
    BY <1>2, <1>3, <1>4, <1>5, <2>1, <2>2, ReadStep
  <2>4. QED
    BY <1>5, <2>3
<1>6. \A step : [q EXCEPT !.step = step] = [step |-> step, conn |-> i, token |-> q.token]
  BY <1>1 DEF ReadState
<1>7. \A token : [q EXCEPT !.step = "save", !.token = token] = [step |-> "save", conn |-> i, token |-> token]
  <2>1. ASSUME NEW token
        PROVE  LET y == [step |-> "save", conn |-> i, token |-> q.token]
               IN  [y EXCEPT !.token = token] = [step |-> "save", conn |-> i, token |-> token]
    OBVIOUS
  <2>2. [q EXCEPT !.step = "save"] = [step |-> "save", conn |-> i, token |-> q.token]
    BY <1>6
  <2>3. QED
    BY <2>1, <2>2
<1>8. q.token \in {None} \cup 1 .. OAuthTokens
  BY <1>1 DEF ReadState
<1>9. UNCHANGED oauthConn => /\ oauthConn' \in [OAuthLinks -> ConnectionRow] /\ ConnectionsSound'
                             /\ RevokedRemain /\ \A k : Known(k) => Known(k)'
  BY <1>2, ConnectionsKept
<1>10. UNCHANGED <<oauthIssued, oauthLive>> =>
          oauthIssued' \in oauthIssued .. OAuthTokens /\ oauthLive' \subseteq 1 .. oauthIssued'
  BY <1>1
<1>11. ASSUME NEW step \in {"expire", "ready", "served", "refused"},
              oauthRead' = [oauthRead EXCEPT ![r].step = step],
              UNCHANGED <<oauthIssued, oauthLive>>,
              /\ oauthConn' \in [OAuthLinks -> ConnectionRow] /\ ConnectionsSound' /\ RevokedRemain
              /\ \A k : Known(k) => Known(k)'
       PROVE  OAuthInv' /\ RevokedRemain
  <2>1. oauthRead' = [oauthRead EXCEPT ![r] = [step |-> step, conn |-> i, token |-> q.token]]
    BY <1>6, <1>11
  <2> HIDE DEF i, q
  <2>2. QED
    BY <1>5, <1>8, <1>10, <1>11, <2>1
<1>12. CASE OAuth!Refresh(r)
  <2>1. UNCHANGED oauthConn
    BY <1>12 DEF OAuth!Refresh
  <2>2. CASE /\ oauthRead' = [oauthRead EXCEPT ![r].step = "save"]
             /\ UNCHANGED <<oauthIssued, oauthLive>>
    <3>1. q.token \in 1 .. oauthIssued'
      BY <1>1, <1>12, <2>2 DEF OAuth!Refresh
    <3>2. oauthRead' = [oauthRead EXCEPT ![r] = [step |-> "save", conn |-> i, token |-> q.token]]
      BY <1>6, <2>2
    <3> HIDE DEF i, q
    <3>3. QED
      BY <1>5, <1>8, <1>9, <1>10, <2>1, <2>2, <3>1, <3>2
  <2>3. CASE /\ oauthIssued < OAuthTokens /\ oauthIssued' = oauthIssued + 1
             /\ oauthLive' = (oauthLive \ {q.token}) \cup {oauthIssued + 1}
             /\ oauthRead' = [oauthRead EXCEPT ![r].step = "save", ![r].token = oauthIssued + 1]
    <3>1. /\ oauthIssued' \in oauthIssued .. OAuthTokens /\ oauthLive' \subseteq 1 .. oauthIssued'
          /\ oauthIssued + 1 \in 1 .. oauthIssued' /\ oauthIssued + 1 \in 1 .. OAuthTokens
      BY <1>1, <2>3
    <3>2. oauthRead' = [oauthRead EXCEPT ![r] = [q EXCEPT !.step = "save", !.token = oauthIssued + 1]]
      BY <1>1, <2>3
    <3>3. oauthRead' = [oauthRead EXCEPT ![r] = [step |-> "save", conn |-> i, token |-> oauthIssued + 1]]
      BY <1>7, <3>2
    <3> HIDE DEF i, q
    <3>4. QED
      BY <1>5, <1>9, <2>1, <3>1, <3>3
  <2>4. QED
    BY <1>12, <2>2, <2>3 DEF OAuth!Refresh
<1>13. CASE OAuth!RefreshFails(r)
  BY <1>9, <1>11, <1>13 DEF OAuth!RefreshFails
<1>14. CASE OAuth!SaveRefreshed(r)
  <2>1. CASE oauthConn[i].token = None
    BY <1>9, <1>11, <1>14, <2>1 DEF OAuth!SaveRefreshed
  <2>2. CASE oauthConn[i].token # None
    <3> DEFINE m == [oauthConn[i] EXCEPT !.token = q.token]
    <3>1. q.token \in 1 .. OAuthTokens /\ q.token # None
      BY <1>1, <1>14 DEF OAuth!SaveRefreshed, ReadsSound
    <3>2. /\ m \in ConnectionRow /\ m.status = oauthConn[i].status /\ m.token # None
          /\ m.subject = oauthConn[i].subject
      BY <1>3, <3>1 DEF ConnectionRow
    <3>3. oauthConn' = [oauthConn EXCEPT ![i] = m]
      BY <1>14, <2>2 DEF OAuth!SaveRefreshed
    <3>4. oauthConn[i].status \notin {"none", "revoked"}
      BY <1>1, <1>3, <2>2 DEF Known, ConnectionsSound, ConnectionSound
    <3>5. oauthRead' = [oauthRead EXCEPT ![r].step = "ready"] /\ UNCHANGED <<oauthIssued, oauthLive>>
      BY <1>14 DEF OAuth!SaveRefreshed
    <3> HIDE DEF m, i, q
    <3>6. /\ oauthConn' \in [OAuthLinks -> ConnectionRow] /\ ConnectionsSound' /\ RevokedRemain
          /\ \A k : Known(k) => Known(k)'
      BY <1>2, <1>3, <3>2, <3>3, <3>4, ConnectionChanged
    <3>7. QED
      BY <1>11, <3>5, <3>6
  <2>3. QED
    BY <2>1, <2>2
<1>15. CASE OAuth!Reconsent(r)
  BY <1>9, <1>11, <1>15 DEF OAuth!Reconsent
<1>16. CASE OAuth!MarkExpired(r)
  <2>1. oauthRead' = [oauthRead EXCEPT ![r].step = "refused"] /\ UNCHANGED <<oauthIssued, oauthLive>>
    BY <1>16 DEF OAuth!MarkExpired
  <2>2. CASE oauthConn' = oauthConn
    BY <1>9, <1>11, <2>1, <2>2
  <2>3. CASE oauthGatekeeper = "delegated" \/ oauthConn[i].status = "active"
    <3> DEFINE m == [oauthConn[i] EXCEPT !.status = "expired"]
    <3>1. m \in ConnectionRow /\ m.status = "expired" /\ m.subject = oauthConn[i].subject
      BY <1>3 DEF ConnectionRow
    <3>2. oauthConn' = [oauthConn EXCEPT ![i] = m]
      BY <1>16, <2>3 DEF OAuth!MarkExpired
    <3> HIDE DEF m, i, q
    <3>3. /\ oauthConn' \in [OAuthLinks -> ConnectionRow] /\ ConnectionsSound' /\ RevokedRemain
          /\ \A k : Known(k) => Known(k)'
      BY <1>2, <1>3, <2>3, <3>1, <3>2, ConnectionChanged
    <3>4. QED
      BY <1>11, <2>1, <3>3
  <2>4. QED
    BY <1>16, <2>2, <2>3 DEF OAuth!MarkExpired
<1>17. CASE OAuth!GoogleRead(r) \/ OAuth!GitHubRead(r) \/ OAuth!DelegatedRead(r)
  BY <1>9, <1>11, <1>17 DEF OAuth!GoogleRead, OAuth!GitHubRead, OAuth!DelegatedRead,
     OAuth!Answer
<1>18. QED
  BY <1>12, <1>13, <1>14, <1>15, <1>16, <1>17

\* The assistant's list and the owner's consent: neither callbacks nor reads nor rows change.
LEMMA OAuthAround ==
    ASSUME OAuthInv,
           UNCHANGED <<oauthGatekeeper, oauthTx, oauthConn, oauthIssued, oauthCall, oauthRead,
                       oauthExchanged, oauthLate>>,
           oauthLive' \subseteq oauthLive, oauthLeaving' \in LeaveState,
           oauthLeaving'.step # "idle" => Known(oauthLeaving.conn)'
    PROVE  OAuthInv' /\ RevokedRemain
<1>1. OAuthTypes /\ OAuth!ConnectionConstants /\ oauthIssued \in Nat
  BY DEF OAuthInv, OAuthTypes, OAuth!ConnectionConstants
<1>2. /\ oauthConn' \in [OAuthLinks -> ConnectionRow] /\ ConnectionsSound' /\ RevokedRemain
      /\ \A k : Known(k) => Known(k)'
  BY ConnectionsKept
<1>3. TransactionsSound' /\ CallsSound' /\ ReadsSound'
  BY <1>1, <1>2, CallsLeft, ReadsLeft
<1>4. LeavingSound' /\ OAuthTypes'
  BY <1>1, <1>2 DEF LeavingSound, OAuthTypes
<1>5. QED
  BY <1>1, <1>2, <1>3, <1>4 DEF OAuthInv, OAuth!ConnectionConstants

LEMMA OAuthLeaves ==
    ASSUME OAuthInv, OAuth!Disconnect
    PROVE  OAuthInv' /\ RevokedRemain
<1> USE DEF OAuth!provider, OAuth!assistant
<1>1. /\ OAuthTypes /\ OAuth!ConnectionConstants /\ oauthIssued \in Nat /\ OAuthTokens \in Nat
      /\ LeavingSound /\ oauthLeaving \in LeaveState /\ oauthConn \in [OAuthLinks -> ConnectionRow]
      /\ ConnectionsSound
  BY DEF OAuthInv, OAuthTypes, OAuth!ConnectionConstants
<1>2. ASSUME NEW i \in OAuthLinks, OAuth!Leave(i) PROVE OAuthInv' /\ RevokedRemain
  <2>1. PICK step \in {"revoke", "delete"} : oauthLeaving' = [step |-> step, conn |-> i]
    BY <1>2 DEF OAuth!Leave
  <2>2. oauthLeaving' \in LeaveState /\ oauthLeaving'.conn = i
    BY <2>1 DEF LeaveState
  <2>3. Known(oauthLeaving.conn)'
    BY <1>2, <2>2 DEF OAuth!Leave, Known
  <2>4. QED
    BY <1>2, <2>2, <2>3, OAuthAround DEF OAuth!Leave
<1>3. CASE OAuth!RevokeRemotely
  <2>1. /\ oauthLeaving' \in LeaveState /\ oauthLeaving'.conn = oauthLeaving.conn
        /\ Known(oauthLeaving.conn)
    BY <1>1, <1>3 DEF OAuth!RevokeRemotely, LeaveState, LeavingSound
  <2>2. Known(oauthLeaving.conn)'
    BY <1>3, <2>1 DEF OAuth!RevokeRemotely, Known
  <2>3. QED
    BY <1>3, <2>1, <2>2, OAuthAround DEF OAuth!RevokeRemotely
<1>4. OAuth!NotLeaving \in LeaveState /\ OAuth!NotLeaving.step = "idle"
  BY DEF OAuth!NotLeaving, LeaveState
<1>5. CASE OAuth!LeaveFails
  BY <1>4, <1>5, OAuthAround DEF OAuth!LeaveFails
<1>6. CASE OAuth!Delete
  <2> DEFINE i == oauthLeaving.conn
             m == [oauthConn[i] EXCEPT !.status = "revoked", !.token = None]
  <2>1. Known(i) /\ i \in OAuthLinks /\ oauthConn[i] \in ConnectionRow
    BY <1>1, <1>6 DEF OAuth!Delete, LeavingSound, Known
  <2>2. /\ m \in ConnectionRow /\ m.status = "revoked" /\ m.token = None
        /\ m.subject = oauthConn[i].subject
    BY <2>1 DEF ConnectionRow
  <2>3. oauthConn' = [oauthConn EXCEPT ![i] = m]
    BY <1>1, <1>6 DEF OAuth!Delete
  <2>4. /\ UNCHANGED <<oauthGatekeeper, oauthTx, oauthIssued, oauthLive, oauthCall, oauthRead,
                       oauthExchanged, oauthLate>>
        /\ oauthLeaving' = OAuth!NotLeaving
    BY <1>6 DEF OAuth!Delete
  <2> HIDE DEF m, i
  <2>5. /\ oauthConn' \in [OAuthLinks -> ConnectionRow] /\ ConnectionsSound' /\ RevokedRemain
        /\ \A k : Known(k) => Known(k)'
    BY <2>1, <2>2, <2>3, <2>4, ConnectionChanged
  <2>6. TransactionsSound' /\ CallsSound' /\ ReadsSound'
    BY <1>1, <2>4, <2>5, CallsLeft, ReadsLeft
  <2>7. LeavingSound' /\ OAuthTypes'
    BY <1>1, <1>4, <2>4, <2>5 DEF LeavingSound, OAuthTypes
  <2>8. QED
    BY <1>1, <2>5, <2>6, <2>7 DEF OAuthInv, OAuth!ConnectionConstants
<1>7. QED
  BY <1>2, <1>3, <1>5, <1>6 DEF OAuth!Disconnect

LEMMA OAuthElse ==
    ASSUME OAuthInv,
           \/ OAuth!FetchList \/ OAuth!StoreList \/ OAuth!ForgetList
           \/ \E t \in 1 .. OAuthTokens : OAuth!Withdraw(t)
           \/ UNCHANGED OAuth!vars
    PROVE  OAuthInv' /\ RevokedRemain
<1> USE DEF OAuth!provider, OAuth!assistant
<1>1. oauthLeaving \in LeaveState /\ LeavingSound
  BY DEF OAuthInv, OAuthTypes
<1>2. /\ UNCHANGED <<oauthGatekeeper, oauthTx, oauthConn, oauthIssued, oauthCall, oauthRead,
                      oauthExchanged, oauthLate>>
      /\ oauthLive' \subseteq oauthLive /\ oauthLeaving' = oauthLeaving
  BY DEF OAuth!FetchList, OAuth!StoreList, OAuth!ForgetList, OAuth!Withdraw, OAuth!vars
<1>3. oauthLeaving'.step # "idle" => Known(oauthLeaving.conn)'
  BY <1>1, <1>2 DEF LeavingSound, Known
<1>4. QED
  BY <1>1, <1>2, <1>3, OAuthAround

LEMMA OAuthNext == OAuthInv /\ (OAuth!Next \/ UNCHANGED OAuth!vars) => OAuthInv' /\ RevokedRemain
<1>1. SUFFICES ASSUME OAuthInv, OAuth!Authorize \/ OAuth!Serve PROVE OAuthInv' /\ RevokedRemain
  BY OAuthLeaves, OAuthElse DEF OAuth!Next, OAuth!Google, OAuth!GitHub, OAuth!DelegatedSource
<1>2. CASE OAuth!Authorize
  BY <1>1, <1>2, OAuthStarts, OAuthConsumes, OAuthCalls, OAuthStores DEF OAuth!Authorize
<1>3. CASE OAuth!Serve
  BY <1>1, <1>3, OAuthSelects, OAuthReadsOn DEF OAuth!Serve
<1>4. QED
  BY <1>1, <1>2, <1>3

\* For any number of callbacks, reads and disconnections at the three gatekeepers, however
\* they interleave with the assistant's stale list: a transaction's code is exchanged once,
\* no callback and no refresh gives a disconnected account its credential back, a read that
\* begins after the disconnection is refused, and a revoked personal connection stays revoked
\* (the gatekeepers' index.ts and packages/oauth-core).
THEOREM ConnectionsAreKept == HandlersSpec => ConnectionsHold
<1> DEFINE J == part = "oauth" => OAuthInv
           Safe == part = "oauth" =>
                      OAuth!TypeOK /\ OAuth!ExchangedOnce /\ OAuth!CredentialFollowsStatus
                      /\ OAuth!RevokedIsNotRead
<1>1. HandlersInit => J
  BY InstanceConstants, OAuthBegins DEF HandlersInit
<1>2. J /\ [HandlersNext]_allVars => J'
  <2>1. SUFFICES ASSUME J, [HandlersNext]_allVars, part' = "oauth" PROVE OAuthInv'
    OBVIOUS
  <2>2. OAuthInv /\ (OAuth!Next \/ UNCHANGED OAuth!vars)
    BY <2>1 DEF HandlersNext, allVars, oauthVars, OAuth!vars
  <2>3. QED
    BY <2>2, OAuthNext
<1>3. J => Safe
  <2>1. SUFFICES ASSUME OAuthInv
                 PROVE  OAuth!TypeOK /\ OAuth!ExchangedOnce /\ OAuth!CredentialFollowsStatus
                        /\ OAuth!RevokedIsNotRead
    OBVIOUS
  <2> USE <2>1 DEF OAuthInv, OAuthTypes
  <2>2. OAuth!TypeOK
    <3>1. \A i, j \in OAuth!Active : oauthConn[i].subject = oauthConn[j].subject => i = j
      BY DEF OAuth!Active, ConnectionsSound, ConnectionSound
    <3>2. /\ \A c \in OAuthCallbacks :
               oauthCall[c].step \in {"idle", "consume", "exchange", "find", "store", "done"}
          /\ \A r \in OAuthReads :
               oauthRead[r].step \in {"idle", "refresh", "save", "expire", "ready", "served", "refused"}
          /\ oauthLeaving.step \in {"idle", "revoke", "delete"}
      BY DEF CallbackState, ReadState, LeaveState
    <3>3. QED
      BY <3>1, <3>2 DEF OAuth!TypeOK, ConnectionRow
  <2>3. OAuth!ExchangedOnce
    BY DEF OAuth!ExchangedOnce
  <2>4. OAuth!CredentialFollowsStatus
    BY DEF OAuth!CredentialFollowsStatus, ConnectionsSound, ConnectionSound
  <2>5. OAuth!RevokedIsNotRead
    BY DEF OAuth!RevokedIsNotRead, ReadsSound
  <2>6. QED
    BY <2>2, <2>3, <2>4, <2>5
<1>4. J /\ [HandlersNext]_allVars => [RevokedRemain]_(OAuth!vars)
  <2>1. SUFFICES ASSUME J, [HandlersNext]_allVars, ~UNCHANGED OAuth!vars PROVE RevokedRemain
    OBVIOUS
  <2>2. OAuthInv /\ OAuth!Next
    BY <2>1 DEF HandlersNext, Others, allVars, oauthVars, OAuth!vars
  <2>3. QED
    BY <2>2, OAuthNext
<1>5. HandlersSpec => [][RevokedRemain]_(OAuth!vars) /\ []Safe
  BY <1>1, <1>2, <1>3, <1>4, PTL DEF HandlersSpec
<1>6. QED
  BY <1>5 DEF ConnectionsHold, OAuth!RevokedStays, RevokedRemain

-----------------------------------------------------------------------------
(***************************************************************************)
(* The audit ledger: AuditLedger, whose own theorems are carried over.     *)
(***************************************************************************)

\* The instance of the ledger's proofs at this module's constants and variables.
AuditKept == INSTANCE AuditLedgerProofs WITH
    Events <- AuditEvents,
    None <- None,
    Late <- AuditLate,
    Retain <- AuditRetain,
    MaxDay <- AuditMaxDay,
    MaxFaults <- AuditMaxFaults,
    MaxResets <- AuditMaxResets,
    log <- auditLog, sequence <- auditSequence, erased <- auditErased,
    segs <- auditSegs, r2 <- auditR2, d1 <- auditD1, today <- auditToday,
    alarmAt <- auditAlarmAt, gate <- auditGate, pending <- auditPending, run <- auditRun,
    faults <- auditFaults, resets <- auditResets

\* It has the steps of the instance that runs here: the definitions are the same.
LEMMA AuditSteps == [Audit!Next]_(Audit!vars) => [AuditKept!Next]_(AuditKept!vars)
<1> USE DEF Audit!store, AuditKept!store, Audit!remote, AuditKept!remote, Audit!bounds,
          AuditKept!bounds, Audit!Procs, AuditKept!Procs, Audit!Idle,
          AuditKept!Idle, Audit!MayRun, AuditKept!MayRun, Audit!Goto,
          AuditKept!Goto, Audit!FirstDue, AuditKept!FirstDue, Audit!Min,
          AuditKept!Min, Audit!Closed, AuditKept!Closed, Audit!Put, AuditKept!Put
<1>1. \A e, occ : Audit!BeginAppend(e, occ) => AuditKept!BeginAppend(e, occ)
  BY DEF Audit!BeginAppend, AuditKept!BeginAppend, Audit!InLog, AuditKept!InLog,
         Audit!LastHash, AuditKept!LastHash, Audit!Max, AuditKept!Max
<1>2. \A e : Audit!InsertEvent(e) => AuditKept!InsertEvent(e)
  BY DEF Audit!InsertEvent, AuditKept!InsertEvent, Audit!SegmentFor, AuditKept!SegmentFor,
         Audit!Counted, AuditKept!Counted, Audit!Extended, AuditKept!Extended,
         Audit!Fresh, AuditKept!Fresh
<1>3. \A e : Audit!ArmAlarm(e) => AuditKept!ArmAlarm(e)
  BY DEF Audit!ArmAlarm, AuditKept!ArmAlarm
<1>4. Audit!StartAlarm => AuditKept!StartAlarm
  BY DEF Audit!StartAlarm, AuditKept!StartAlarm, Audit!AlarmDue, AuditKept!AlarmDue,
         Audit!Closable, AuditKept!Closable, Audit!Through, AuditKept!Through
<1>5. \A d : Audit!RequestClose(d) => AuditKept!RequestClose(d)
  BY DEF Audit!RequestClose, AuditKept!RequestClose, Audit!Closable, AuditKept!Closable
<1>6. \A d : Audit!RequestRetention(d) => AuditKept!RequestRetention(d)
  BY DEF Audit!RequestRetention, AuditKept!RequestRetention, Audit!Erasable,
         AuditKept!Erasable
<1>7. \A p : Audit!PutCheckpoint(p) => AuditKept!PutCheckpoint(p)
  BY DEF Audit!PutCheckpoint, AuditKept!PutCheckpoint
<1>8. \A p : Audit!RecordCheckpoint(p) => AuditKept!RecordCheckpoint(p)
  BY DEF Audit!RecordCheckpoint, AuditKept!RecordCheckpoint
<1>9. \A p : Audit!MarkClosed(p) => AuditKept!MarkClosed(p)
  BY DEF Audit!MarkClosed, AuditKept!MarkClosed
<1>10. \A p : Audit!CloseDone(p) => AuditKept!CloseDone(p)
  BY DEF Audit!CloseDone, AuditKept!CloseDone, Audit!Erasable, AuditKept!Erasable,
         Audit!Cutoff, AuditKept!Cutoff
<1>11. \A p : Audit!EraseSegment(p) => AuditKept!EraseSegment(p)
  BY DEF Audit!EraseSegment, AuditKept!EraseSegment, Audit!EventsOf, AuditKept!EventsOf,
         Audit!Rows, AuditKept!Rows, Audit!Restrict, AuditKept!Restrict
<1>12. \A p : Audit!EraseDone(p) => AuditKept!EraseDone(p)
  BY DEF Audit!EraseDone, AuditKept!EraseDone
<1>13. Audit!AlarmFails => AuditKept!AlarmFails
  BY DEF Audit!AlarmFails, AuditKept!AlarmFails, Audit!Retried, AuditKept!Retried
<1>14. Audit!Reset => AuditKept!Reset
  BY DEF Audit!Reset, AuditKept!Reset, Audit!Retried, AuditKept!Retried
<1>15. Audit!Tick => AuditKept!Tick
  BY DEF Audit!Tick, AuditKept!Tick
<1>16. Audit!Next => AuditKept!Next
  BY <1>1, <1>2, <1>3, <1>4, <1>5, <1>6, <1>7, <1>8,
     <1>9, <1>10, <1>11, <1>12, <1>13, <1>14, <1>15
     DEF Audit!Next, AuditKept!Next, Audit!AppendStep, AuditKept!AppendStep,
         Audit!Requested, AuditKept!Requested, Audit!CallerDates, AuditKept!CallerDates,
         Audit!CloserStep, AuditKept!CloserStep, Audit!Occurred,
         AuditKept!Occurred, Audit!Days, AuditKept!Days
<1>17. QED
  BY <1>16 DEF Audit!vars, AuditKept!vars

LEMMA AuditSame == AuditKept!Inv => Audit!TypeOK /\ Audit!LogConsistent
<1> SUFFICES ASSUME AuditKept!Inv PROVE Audit!TypeOK /\ Audit!LogConsistent
  OBVIOUS
<1>1. AuditKept!TypeOK /\ AuditKept!LogConsistent
  BY DEF AuditKept!Inv, AuditKept!Types
<1>2. Audit!TypeOK
  BY <1>1 DEF Audit!TypeOK, AuditKept!TypeOK, Audit!Event, AuditKept!Event, Audit!Summary,
              AuditKept!Summary, Audit!Segment, AuditKept!Segment, Audit!Days,
              AuditKept!Days
<1>3. Audit!LogConsistent
  BY <1>1 DEF Audit!LogConsistent, AuditKept!LogConsistent, Audit!ChainUnforked,
              AuditKept!ChainUnforked, Audit!SegmentCounts,
              AuditKept!SegmentCounts, Audit!Describes, AuditKept!Describes, Audit!Upto,
              AuditKept!Upto, Audit!Rows, AuditKept!Rows, Audit!Min, AuditKept!Min,
              Audit!Cardinality, AuditKept!Cardinality
<1>4. QED
  BY <1>2, <1>3

\* ClosedIsFrozen without its box.
AuditFrozen ==
    \A d \in DOMAIN auditSegs : Audit!Closed(d) /\ d < auditToday => Audit!Frozen(d)

LEMMA AuditFreezes ==
    ASSUME AuditKept!Inv, [Audit!Next]_(Audit!vars)
    PROVE  AuditFrozen
<1>1. \A d : AuditKept!FrozenPast(d)
  BY InstanceConstants, AuditSteps, AuditKept!EventsStep
<1>2. QED
  BY <1>1 DEF AuditFrozen, AuditKept!FrozenPast, Audit!Frozen, AuditKept!Frozen, Audit!Closed, AuditKept!Closed,
              Audit!EventsOf, AuditKept!EventsOf, Audit!Rows, AuditKept!Rows

\* Events that arrive late, by any delay shorter than the retention period, fork no chain
\* and are counted in their segments, of which only one that was closed on its own day
\* gains any more, whatever dates requests bring, for any number of events, faults and
\* resets (apps/audit-ledger-worker/src/index.ts; the ledger's own theorems are in
\* AuditLedgerProofs).
THEOREM LateEventsAreKept == HandlersSpec => LateEventsKept
<1> DEFINE J == part = "audit" => AuditKept!Inv
           Safe == part = "audit" => Audit!TypeOK /\ Audit!LogConsistent
<1>1. HandlersInit => J
  <2>1. Audit!Init => AuditKept!Init
    BY DEF Audit!Init, AuditKept!Init, Audit!Idle, AuditKept!Idle, Audit!Procs,
           AuditKept!Procs
  <2>2. QED
    BY <2>1, InstanceConstants, AuditKept!InitInv DEF HandlersInit
<1>2. J /\ [HandlersNext]_allVars => J'
  <2>1. SUFFICES ASSUME J, [HandlersNext]_allVars, part' = "audit" PROVE AuditKept!Inv'
    OBVIOUS
  <2>2. AuditKept!Inv /\ [Audit!Next]_(Audit!vars)
    BY <2>1 DEF HandlersNext, allVars, auditVars, Audit!vars, Audit!store, Audit!remote,
                Audit!bounds
  <2>3. QED
    BY <2>2, InstanceConstants, AuditSteps, AuditKept!NextInv
<1>3. J => Safe
  BY AuditSame
<1>4. J /\ [HandlersNext]_allVars => [AuditFrozen]_(Audit!vars)
  <2>1. SUFFICES ASSUME J, [HandlersNext]_allVars, ~UNCHANGED Audit!vars PROVE AuditFrozen
    OBVIOUS
  <2>2. AuditKept!Inv /\ Audit!Next
    BY <2>1 DEF HandlersNext, Others, allVars, auditVars, Audit!vars, Audit!store,
                Audit!remote, Audit!bounds
  <2>3. QED
    BY <2>2, AuditFreezes
<1>5. HandlersSpec => [][AuditFrozen]_(Audit!vars) /\ []Safe
  BY <1>1, <1>2, <1>3, <1>4, PTL DEF HandlersSpec
<1>6. QED
  BY <1>5 DEF LateEventsKept, Audit!ClosedIsFrozen, AuditFrozen

=============================================================================
