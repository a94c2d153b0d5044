\* A write through Discord's gatekeeper.
CONSTANTS
    a1 = a1
    Approvals = {a1}
    Kinds = {"discord"}
    Requests = {r1, r2}
    Subject <- TwoOnOne
    Deliveries = 1
    ApprovalTTL = 1
    LeaseTTL = 1
    MaxTime = 2
SPECIFICATION Spec
SYMMETRY Symmetry
INVARIANTS IndeterminateIsUnknown
CHECK_DEADLOCK FALSE
