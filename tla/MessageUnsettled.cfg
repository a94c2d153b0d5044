\* One message, no lost call, no crash and no expiry: the tools of a model run end the request.
CONSTANTS
    r1 = r1
    r2 = r2
    r3 = r3
    k1 = k1
    k2 = k2
    Requests = {r1}
    Keys = {k1}
    KeyOf <- MCKeyOf
    bucket = bucket
    day = day
    month = month
    DefaultFraction = DefaultFraction
    Unlimited = Unlimited
    NoPolicy = NoPolicy
    Limit = 1
    Free = 1
    Cap = 1
    Estimate = 2
    MaxCalls = 2
    Faults = FALSE
    TTL = 1
    MaxTime = 0
SPECIFICATION Spec
INVARIANTS BilledIsSettled
CHECK_DEADLOCK FALSE
