--------------------------- MODULE MCAiLedger ---------------------------
(***************************************************************************)
(* Small instances of AiLedger for TLC: days of two months.                *)
(***************************************************************************)
EXTENDS AiLedger, TLC

CONSTANTS month, next

CONSTANT FirstDays      \* the days of "month"; the others are of "next"

MCMonthOf == [d \in Days |-> IF d \in FirstDays THEN month ELSE next]

MCLegacyUsage == {<<[d \in Days |-> 1], [m \in Months |-> 1]>>}

Symmetry == Permutations(Ids) \cup Permutations(Keys) \cup Permutations(FirstDays)

=============================================================================
