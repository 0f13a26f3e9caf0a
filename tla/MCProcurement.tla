--------------------------- MODULE MCProcurement ---------------------------
(***************************************************************************)
(* Instances of Procurement.  Amounts three per cent apart are beyond the  *)
(* tolerance of the match.                                                 *)
(***************************************************************************)
EXTENDS Procurement, TLC

CONSTANTS s1, s2, u1, u2

MCSymmetry == Permutations(Slots) \cup Permutations(Users)
=============================================================================
