--------------------------- MODULE MCApprovalFlow ---------------------------
(***************************************************************************)
(* Small instances of ApprovalFlow for TLC: one approval of any kind and   *)
(* two requests to decide it.                                              *)
(***************************************************************************)
EXTENDS ApprovalFlow, TLC

CONSTANTS a1

TwoOnOne == [r \in Requests |-> a1]

Symmetry == Permutations(Requests)

=============================================================================
