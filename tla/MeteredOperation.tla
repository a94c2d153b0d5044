-------------------------- MODULE MeteredOperation --------------------------
(***************************************************************************)
(* What a metered, idempotent owner mutation promises per idempotency key: *)
(* its effect happens at most once, it is charged at most once, and never  *)
(* before the effect.  OwnerOperation implements it.                       *)
(***************************************************************************)
EXTENDS Naturals

CONSTANT Keys      \* idempotency keys

VARIABLES
    runs,      \* how often the operation of a key took effect
    charges    \* how often it was charged

Init ==
    /\ runs = [k \in Keys |-> 0]
    /\ charges = [k \in Keys |-> 0]

Run(k) ==
    /\ runs[k] = 0
    /\ runs' = [runs EXCEPT ![k] = 1]
    /\ UNCHANGED charges

Charge(k) ==
    /\ runs[k] = 1
    /\ charges[k] = 0
    /\ charges' = [charges EXCEPT ![k] = 1]
    /\ UNCHANGED runs

Next == \E k \in Keys : Run(k) \/ Charge(k)

Spec == Init /\ [][Next]_<<runs, charges>>

=============================================================================
