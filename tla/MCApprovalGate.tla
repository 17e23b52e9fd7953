--------------------------- MODULE MCApprovalGate ---------------------------
(***************************************************************************)
(* Instances of the approval gate.  r1 and r2 are rollbacks recommended    *)
(* for the same incident, so that requests about different approvals meet  *)
(* at the incident's row; r3 is an allow-listed action that is not         *)
(* implemented, and r4 one that is not allow-listed.                       *)
(***************************************************************************)
EXTENDS ApprovalGate, TLC

CONSTANTS i1, i2, r1, r2, r3, r4

MCIncidentOf == [r \in Recommendations |-> IF r = r4 THEN i2 ELSE i1]

MCActionOf == [r \in Recommendations |->
    CASE r = r3 -> "simulated_scale"
      [] r = r4 -> "arbitrary_shell"
      [] OTHER  -> "simulated_rollback"]

(* Sound for invariants and action properties: r1 and r2 share their       *)
(* incident and their action.                                              *)
Symmetry == Permutations(Sessions) \cup Permutations({r1, r2})

=============================================================================
