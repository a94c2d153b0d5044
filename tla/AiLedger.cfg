\* Two days of one month and a day of the next, two reservations, a changing cap, and two
\* legacy shards with usage to import.
CONSTANTS
    Ids = {r1, r2}
    Keys = {k1, k2}
    Days = {d1, d2, d3}
    FirstDays = {d1, d2}
    month = month
    next = next
    MonthOf <- MCMonthOf
    Free = 1
    Caps = {1}
    Unlimited = Unlimited
    NoPolicy = NoPolicy
    MaxNeurons = 2
    TTL = 1
    LegacyUsage <- MCLegacyUsage
    MaxTime = 1
SPECIFICATION Spec
SYMMETRY Symmetry
INVARIANTS TypeOK CountersExact
PROPERTIES SpendWithinCap
