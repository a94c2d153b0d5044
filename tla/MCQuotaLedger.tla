--------------------------- MODULE MCQuotaLedger ---------------------------
(***************************************************************************)
(* Small instances of QuotaLedger for TLC.  "container" is metered: its    *)
(* hard limit follows the owner's budget fraction; "query" is a downstream *)
(* bucket with a fixed limit.                                              *)
(***************************************************************************)
EXTENDS QuotaLedger, TLC

CONSTANTS query, container, low, high

MCDownstreamLimit == [b \in Buckets |-> 2]

MCScaledLimit == low :> (container :> 1) @@ high :> (container :> 2)

MCLegacyUsage == {query :> 0 @@ container :> 1}

Symmetry == Permutations(Ids) \cup Permutations(Keys)

=============================================================================
