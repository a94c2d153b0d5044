\* A retry with the same key after a failed attempt released its reservation.
CONSTANTS
    r1 = r1
    r2 = r2
    r3 = r3
    k1 = k1
    k2 = k2
    Requests = {r1, r2, r3}
    Keys = {k1, k2}
    KeyOf <- MCKeyOf
    bucket = bucket
    DefaultFraction = DefaultFraction
    Unlimited = Unlimited
    Limit = 1
    TTL = 1
    MaxTime = 0
SPECIFICATION Spec
PROPERTIES ReservedBeforeExecution
CHECK_DEADLOCK FALSE
