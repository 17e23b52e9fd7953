--------------------------- MODULE MCApprovalRaces ---------------------------
(***************************************************************************)
(* The instances of MCApprovalGate with their races recorded.              *)
(***************************************************************************)
EXTENDS ApprovalRaces, MCApprovalGate

=============================================================================
