--------------------------- MODULE ApprovalPolicy ---------------------------
(***************************************************************************)
(* What the approval gate promises of a recommendation, without requests,  *)
(* locks, incidents or time: it is put to a human once, decided once, and  *)
(* its action is carried out, again if an attempt failed, only between an  *)
(* approving decision and the record of its success; never after that and  *)
(* never once it is rejected.  It promises nothing of a recommendation     *)
(* about which two requests overlapped.                                    *)
(***************************************************************************)
EXTENDS Naturals

CONSTANT Recommendations

VARIABLES
    gate,    \* how far each recommendation has got
    acted    \* how often the action of each took effect: 0, 1, 2 = more

vars == <<gate, acted>>

Init ==
    /\ gate = [r \in Recommendations |-> "proposed"]
    /\ acted = [r \in Recommendations |-> 0]

Move(r, from, to) ==
    /\ gate[r] = from
    /\ gate' = [gate EXCEPT ![r] = to]

Ask(r) == Move(r, "proposed", "pending") /\ UNCHANGED acted

Answer(r, d) == Move(r, "pending", d) /\ UNCHANGED acted

Act(r) ==
    /\ gate[r] = "approved"
    /\ acted' = [acted EXCEPT ![r] = IF @ = 0 THEN 1 ELSE 2]
    /\ UNCHANGED gate

Record(r) ==
    /\ acted[r] > 0
    /\ Move(r, "approved", "executed")
    /\ UNCHANGED acted

Overlap(r) ==
    /\ gate' = [gate EXCEPT ![r] = "overlapped"]
    /\ acted' = [acted EXCEPT ![r] = 0]

Next ==
    \E r \in Recommendations :
        \/ Overlap(r)
        \/ Ask(r)
        \/ \E d \in {"approved", "rejected"} : Answer(r, d)
        \/ Act(r)
        \/ Record(r)

Spec == Init /\ [][Next]_vars

=============================================================================
