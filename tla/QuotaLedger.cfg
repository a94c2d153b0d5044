\* Two buckets, two reservations, a changing budget policy, callers that may overrun their
\* estimates, and two legacy shards with usage to import.
CONSTANTS
    query = query
    container = container
    low = low
    high = high
    Unlimited = Unlimited
    Ids = {r1, r2}
    Keys = {k1, k2}
    Buckets = {query, container}
    Included = {container}
    DownstreamLimit <- MCDownstreamLimit
    Fractions = {low, high}
    DefaultFraction = high
    ScaledLimit <- MCScaledLimit
    MaxAmount = 2
    Overrun = 1
    MaxBatch = 2
    TTL = 1
    LegacyUsage <- MCLegacyUsage
    MaxTime = 1
SPECIFICATION Spec
SYMMETRY Symmetry
INVARIANTS TypeOK CountersExact UnblockedMeansRoom
PROPERTIES GrowthWithinLimit OutcomeIsFinal
