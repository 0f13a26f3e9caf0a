------------------------- MODULE MCApprovalChain -------------------------
(***************************************************************************)
(* Instances of ApprovalChain: the two-step chain that ppm submits.       *)
(***************************************************************************)
EXTENDS ApprovalChain, TLC

MCRolesTwo == {"technician", "building_manager", "owner_representative"}
MCTwoSteps == <<"building_manager", "owner_representative">>

MCSlotSymmetry == Permutations(Slots)
=============================================================================
