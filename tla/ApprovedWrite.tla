--------------------------- MODULE ApprovedWrite ---------------------------
(***************************************************************************)
(* What the approval machinery promises: the effect of an approval (an     *)
(* external write, a transfer to a model provider, a plugin grant) happens *)
(* at most once, and only after the owner approved it and the decision was *)
(* appended to the audit ledger.  A decision is never revised.             *)
(* ApprovalFlow implements it.                                             *)
(***************************************************************************)
EXTENDS Naturals

CONSTANT Approvals

VARIABLES
    decision,   \* per approval: none, pending, approved or rejected
    logged,     \* approvals whose positive decision is in the audit ledger
    written     \* how often the effect of an approval was made

Init ==
    /\ decision = [a \in Approvals |-> "none"]
    /\ logged = {}
    /\ written = [a \in Approvals |-> 0]

Ask(a) ==
    /\ decision[a] = "none"
    /\ decision' = [decision EXCEPT ![a] = "pending"]
    /\ UNCHANGED <<logged, written>>

Decide(a) ==
    /\ decision[a] = "pending"
    /\ \E d \in {"approved", "rejected"} : decision' = [decision EXCEPT ![a] = d]
    /\ UNCHANGED <<logged, written>>

Log(a) ==
    /\ decision[a] = "approved"
    /\ logged' = logged \cup {a}
    /\ UNCHANGED <<decision, written>>

Write(a) ==
    /\ decision[a] = "approved"
    /\ a \in logged
    /\ written[a] = 0
    /\ written' = [written EXCEPT ![a] = 1]
    /\ UNCHANGED <<decision, logged>>

Next == \E a \in Approvals : Ask(a) \/ Decide(a) \/ Log(a) \/ Write(a)

Spec == Init /\ [][Next]_<<decision, logged, written>>

=============================================================================
