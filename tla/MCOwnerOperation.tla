------------------------- MODULE MCOwnerOperation -------------------------
(***************************************************************************)
(* Small instances of OwnerOperation for TLC: two requests with the same   *)
(* key, one with another.                                                  *)
(***************************************************************************)
EXTENDS OwnerOperation, TLC

CONSTANTS r1, r2, r3, k1, k2

MCKeyOf == r1 :> k1 @@ r2 :> k1 @@ r3 :> k2

===========================================================================
