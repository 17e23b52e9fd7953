--------------------------- MODULE MCInvestigation ---------------------------
(***************************************************************************)
(* Requests about one incident, each of which may be a collection, an      *)
(* investigation or an analysis.  An answer of the model may cite runbook  *)
(* evidence, which exists only if a runbook was retrieved.                 *)
(***************************************************************************)
EXTENDS Investigation

CONSTANTS q1, q2

MCAnswers == {{"log"}, {"metric", "runbook"}}

=============================================================================
