------------------------------- MODULE CaseFile -------------------------------
(***************************************************************************)
(* What the handlers of an incident promise of its records, without        *)
(* requests, sessions, locks or failures: a file to which each step adds   *)
(* at one instant all that belongs together, and from which nothing is     *)
(* taken away.  Runs are opened, get evidence and end; a hypothesis is     *)
(* entered once, with the evidence it cites, the end of its run and, if    *)
(* one is asked for, its approval.  The status of the incident moves only  *)
(* with such a step.                                                       *)
(***************************************************************************)
CONSTANTS
    Requests,   \* name the runs they created and the hypotheses they entered
    None

VARIABLES
    incident,   \* its status
    run,        \* the status of each run
    evidence,   \* of each run, by its kind
    found,      \* hypotheses: their run and what they cite
    gate        \* how far the recommendation of a hypothesis has got

fileVars == <<incident, run, evidence, found, gate>>

NoHypothesis == [run |-> None, cites |-> {}]

Init ==
    /\ incident = "new"
    /\ run = [r \in Requests |-> "absent"]
    /\ evidence = [r \in Requests |-> {}]
    /\ found = [h \in Requests |-> NoHypothesis]
    /\ gate = [h \in Requests |-> "proposed"]

Open(r) ==
    /\ run[r] = "absent"
    /\ run' = [run EXCEPT ![r] = "running"]
    /\ incident' \in {incident, "collecting_evidence"}
    /\ UNCHANGED <<evidence, found, gate>>

Collect(r, k) ==
    /\ run[r] # "absent"
    /\ evidence' = [evidence EXCEPT ![r] = @ \cup {k}]
    /\ UNCHANGED <<incident, run, found, gate>>

EndRun(r) ==
    /\ run[r] # "absent"
    /\ run' = [run EXCEPT ![r] =
          IF evidence[r] \ {"runbook"} = {} THEN "insufficient_evidence" ELSE "completed"]
    /\ UNCHANGED <<incident, evidence, found, gate>>

(* An investigation or an analysis ends without a hypothesis. *)
FindNothing(r, books) ==
    /\ run[r] # "absent"
    /\ run' \in {run, [run EXCEPT ![r] = "insufficient_evidence"]}
    /\ evidence' = [evidence EXCEPT ![r] = @ \cup books]
    /\ incident' \in {incident, "analyzing"}
    /\ UNCHANGED <<found, gate>>

Find(h, r, books, asks) ==
    /\ run[r] # "absent"
    /\ found[h] = NoHypothesis /\ gate[h] = "proposed"
    /\ run' = [run EXCEPT ![r] = "completed"]
    /\ evidence' = [evidence EXCEPT ![r] = @ \cup books]
    /\ \E cites \in (SUBSET evidence'[r]) \ {{}} :
          found' = [found EXCEPT ![h] = [run |-> r, cites |-> cites]]
    /\ \/ ~asks /\ UNCHANGED gate /\ incident' \in {incident, "analyzing"}
       \/ /\ asks
          /\ gate' = [gate EXCEPT ![h] = "pending"]
          /\ incident' \in {incident, "needs_approval"}

(* The approval gate, for a recommendation that is in the file. *)
Move(h, from, to, status) ==
    /\ found[h] # NoHypothesis
    /\ gate[h] = from
    /\ gate' = [gate EXCEPT ![h] = to]
    /\ incident' = status
    /\ UNCHANGED <<run, evidence, found>>

Next ==
    \/ \E r \in Requests :
          \/ Open(r)
          \/ \E k \in {"metric", "log", "deployment"} : Collect(r, k)
          \/ EndRun(r)
          \/ \E books \in {{}, {"runbook"}} :
                \/ FindNothing(r, books)
                \/ \E h \in Requests, asks \in BOOLEAN : Find(h, r, books, asks)
    \/ \E h \in Requests :
          \/ Move(h, "proposed", "pending", "needs_approval")
          \/ Move(h, "pending", "approved", "approved")
          \/ Move(h, "pending", "rejected", "rejected")
          \/ Move(h, "approved", "executed", "resolved")

Spec == Init /\ [][Next]_fileVars

=============================================================================
