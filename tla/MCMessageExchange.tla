------------------------- MODULE MCMessageExchange -------------------------
(***************************************************************************)
(* Small instances of MessageExchange for TLC: two deliveries of one       *)
(* message, alone or next to another message.                              *)
(***************************************************************************)
EXTENDS MessageExchange, TLC

CONSTANTS r1, r2, r3, k1, k2

MCKeyOf == [r \in Requests |-> IF r = r3 THEN k2 ELSE k1]

Symmetry == Permutations({r1, r2})

===========================================================================
