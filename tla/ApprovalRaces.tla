---------------------------- MODULE ApprovalRaces ----------------------------
(***************************************************************************)
(* The approval gate with a record of its races: the recommendations about *)
(* which two requests were in flight at once.  What the gate promises only *)
(* of the others is stated here.                                           *)
(***************************************************************************)
EXTENDS ApprovalGate

VARIABLE raced

racesVars == <<vars, raced>>

Overlapped ==
    {r \in Recommendations :
        \E s, t \in Sessions : s # t /\ sess[s].rec = r /\ sess[t].rec = r}

RacesInit == Init /\ raced = {}

RacesNext == Next /\ raced' = raced \cup Overlapped'

RacesSpec == RacesInit /\ [][RacesNext]_racesVars

-----------------------------------------------------------------------------
GateOf(r) ==
    IF r \in raced THEN "overlapped"
    ELSE IF approval[r].status = "absent" THEN "proposed"
    ELSE IF approval[r].execution_status = "succeeded" THEN "executed"
    ELSE approval[r].status

ActedOf(r) == IF r \in raced THEN 0 ELSE performed[r]

(* The gate as the policy sees it.  It implements the policy however many  *)
(* requests about other recommendations run beside, fail, or die after the *)
(* rollback took effect.                                                   *)
Policy == INSTANCE ApprovalPolicy WITH
    gate <- [r \in Recommendations |-> GateOf(r)],
    acted <- [r \in Recommendations |-> ActedOf(r)]

ImplementsPolicy == Policy!Spec

(* request_approval and decide_approval set the status of an incident      *)
(* whatever it was.  One that an execution resolved is opened again only   *)
(* for a recommendation that was not carried out yet, although the session *)
(* that does it may have read the incident long before.                    *)
ReopenedForAnother ==
    [][\A i \in Incidents :
          /\ incident[i].status = "resolved" /\ incident'[i].status # "resolved"
          /\ \A r \in raced : IncidentOf[r] # i
          => \E r \in Recommendations :
                /\ IncidentOf[r] = i
                /\ Backs(r, incident[i].status)'
                /\ approval'[r].execution_status # "succeeded"]_racesVars

=============================================================================
