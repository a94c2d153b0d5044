\* Two deliveries of one message; the neurons of one of them; reservations that may
\* expire while a handler runs.
CONSTANTS
    r1 = r1
    r2 = r2
    r3 = r3
    k1 = k1
    k2 = k2
    Requests = {r1, r2}
    Keys = {k1}
    KeyOf <- MCKeyOf
    bucket = bucket
    day = day
    month = month
    DefaultFraction = DefaultFraction
    Unlimited = Unlimited
    NoPolicy = NoPolicy
    Limit = 1
    Free = 1
    Cap = 1
    Estimate = 2
    MaxCalls = 2
    Faults = TRUE
    TTL = 1
    MaxTime = 1
SPECIFICATION Spec
SYMMETRY Symmetry
INVARIANTS TypeOK AttemptsAccounted
PROPERTIES ChargedOncePerExchange WithinLedgers
CHECK_DEADLOCK FALSE
