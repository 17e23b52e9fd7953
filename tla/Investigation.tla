---------------------------- MODULE Investigation ----------------------------
(***************************************************************************)
(* From an incident to a recommendation: evidence collection, the          *)
(* orchestrated investigation and the rule-based analysis of one incident, *)
(* run by several requests at once over one PostgreSQL database at READ    *)
(* COMMITTED, beside the approval gate.                                    *)
(*                                                                         *)
(* A collection commits several times: the run, then each source with its  *)
(* tool call and evidence, then the end of the run.  An investigation goes *)
(* on in the same session, with the incident it read at its start, and     *)
(* commits what the agent graph found, hypothesis, recommendation and      *)
(* approval, all together.  An analysis takes any run of the incident,     *)
(* which may still be collecting.                                          *)
(*                                                                         *)
(* A run is named by the request that created it; a hypothesis, with its   *)
(* one recommendation, by the request that recorded it.                    *)
(***************************************************************************)
EXTENDS Naturals

CONSTANTS
    Requests,
    Answers,   \* what the model may cite, right or wrong
    None

EvidenceKinds == {"metric", "log", "deployment", "runbook"}

ASSUME RequestsAssumption ==
    /\ Answers \subseteq SUBSET EvidenceKinds
    /\ None \notin Requests

VARIABLES
    incident,   \* committed Incident.status
    run,        \* committed AgentRun.status
    calls,      \* committed tool calls of a run; one that succeeded has evidence
    runbooks,   \* the runs with committed runbook evidence
    found,      \* committed hypotheses: the run and the evidence cited
    gate,       \* how far the recommendation of a hypothesis has got
    lockR,      \* the session that updated the row of a run, uncommitted
    lockI,      \* the session that updated the row of the incident, uncommitted
    req,        \* what each request is doing
    died        \* history: requests that ended by an unhandled error or a crash

records == <<calls, runbooks, found>>
locks == <<lockR, lockI>>
vars == <<incident, run, records, gate, locks, req, died>>

-----------------------------------------------------------------------------
IncidentStatus == {"new", "collecting_evidence", "analyzing", "needs_approval",
                   "approved", "rejected", "resolved"}

AgentRunStatus == {"running", "completed", "insufficient_evidence"}

Finished == {"completed", "insufficient_evidence"}

Stage == {"proposed", "pending", "approved", "rejected", "executed"}

(* The connectors in the order in which they are queried. *)
Sources == <<"metric", "log", "deployment">>

Kinds == {"metric", "log", "deployment"}

NoHypothesis == [run |-> None, cites |-> {}]

RequestState ==
    [op : {"none", "collect", "investigate", "analyze"},     \* the handler
     pc : {"ready", "create", "query", "end", "pick", "read", "lockrun",
           "lockincident", "graph", "approve", "commit", "done"},
     pos : 1..3,                              \* the source that is queried
     run : Requests \cup {None},
     status : AgentRunStatus \cup {"none"},   \* AgentRun.status as it was read
     seen : IncidentStatus,                   \* Incident.status as it was read
     put : IncidentStatus \cup {"none"},      \* and as it was written, uncommitted
     evidence : SUBSET EvidenceKinds,         \* what is in hand for a hypothesis
     cites : SUBSET EvidenceKinds,            \* its citations, {} if there is none
     asks : BOOLEAN]                          \* an approval goes with it

Ready == [op |-> "none", pc |-> "ready", pos |-> 1, run |-> None, status |-> "none",
          seen |-> "new", put |-> "none", evidence |-> {},
          cites |-> {}, asks |-> FALSE]

Done == [Ready EXCEPT !.pc = "done"]

EvidenceOf(r) ==
    {s \in Kinds : calls[r][s] = "succeeded"}
        \cup (IF r \in runbooks THEN {"runbook"} ELSE {})

(* validate_grounding, and once more record_hypothesis: a hypothesis cites *)
(* something, and only evidence of its own run.                            *)
CitesAnything(cites, evidence) == cites # {}     \* mutant: any id will do
Grounded(cites, evidence) == cites # {} /\ cites \subseteq evidence

(* The rule of analyze_incident: a deployment beside a metric or a log,    *)
(* which makes two citations.                                              *)
DeploymentRegression(evidence) ==
    "deployment" \in evidence /\ evidence \cap {"metric", "log"} # {}

(* Both handlers move the incident on from where collection left it; an    *)
(* analysis without any evidence does not.                                 *)
MovesIncident(q) ==
    /\ req[q].seen \in {"new", "collecting_evidence"}
    /\ req[q].op = "analyze" => req[q].evidence # {}

-----------------------------------------------------------------------------
Init ==
    /\ incident = "new"
    /\ run = [q \in Requests |-> "absent"]
    /\ calls = [q \in Requests |-> [s \in Kinds |-> "none"]]
    /\ runbooks = {}
    /\ found = [q \in Requests |-> NoHypothesis]
    /\ gate = [q \in Requests |-> "proposed"]
    /\ lockR = [q \in Requests |-> None]
    /\ lockI = None
    /\ req = [q \in Requests |-> Ready]
    /\ died = {}

-----------------------------------------------------------------------------
(* session.get(Incident): the copy is never refreshed before it is used. *)
Begin(q) ==
    /\ req[q].pc = "ready"
    /\ \/ \E op \in {"collect", "investigate"} :
             req' = [req EXCEPT ![q].op = op, ![q].pc = "create", ![q].seen = incident]
       \/ req' = [req EXCEPT ![q].op = "analyze", ![q].pc = "pick", ![q].seen = incident]
    /\ UNCHANGED <<incident, run, records, gate, locks, died>>

(* The first commit of collect_incident_evidence: a RUNNING run, and the   *)
(* incident if it was read as new.                                         *)
CreateRun(q) ==
    /\ req[q].pc = "create"
    /\ run' = [run EXCEPT ![q] = "running"]
    /\ \/ /\ req[q].seen = "new"
          /\ lockI = None
          /\ incident' = "collecting_evidence"
          /\ req' = [req EXCEPT ![q].pc = "query", ![q].run = q,
                                ![q].status = "running",
                                ![q].seen = "collecting_evidence"]
       \/ /\ req[q].seen # "new"
          /\ req' = [req EXCEPT ![q].pc = "query", ![q].run = q,
                                ![q].status = "running"]
          /\ UNCHANGED incident
    /\ UNCHANGED <<records, gate, locks, died>>

QuerySourceTooFar(q) ==     \* mutant: the loop runs past the last source
    LET s == Sources[req[q].pos] IN
    /\ req[q].pc = "query"
    /\ calls' = [calls EXCEPT ![q][s] = "succeeded"]
    /\ req' = IF req[q].pos <= 3
              THEN [req EXCEPT ![q].pos = @ + 1]
              ELSE [req EXCEPT ![q].pc = "end"]
    /\ UNCHANGED <<incident, run, runbooks, found, gate, locks, died>>

(* One source: its tool call and evidence are committed, or, after a       *)
(* ConnectorError, its failure is.  The deployment history raises none.    *)
QuerySource(q) ==
    LET s == Sources[req[q].pos] IN
    /\ req[q].pc = "query"
    /\ \E outcome \in {"succeeded", "failed"} :
          /\ s = "deployment" => outcome = "succeeded"
          /\ calls' = [calls EXCEPT ![q][s] = outcome]
    /\ req' = IF req[q].pos < 3
              THEN [req EXCEPT ![q].pos = @ + 1]
              ELSE [req EXCEPT ![q].pc = "end"]
    /\ UNCHANGED <<incident, run, runbooks, found, gate, locks, died>>

CollectionStatus(q) ==
    IF \E s \in Kinds : calls[q][s] = "succeeded"
    THEN "completed" ELSE "insufficient_evidence"

(* The last commit of a collection.  The session still holds the run as    *)
(* RUNNING, so the status is written whatever the row says by now.         *)
EndCollection(q) ==
    /\ req[q].pc = "end"
    /\ lockR[q] = None
    /\ run' = [run EXCEPT ![q] = CollectionStatus(q)]
    /\ req' = IF req[q].op = "collect"
              THEN [req EXCEPT ![q] = Done]
              ELSE [req EXCEPT ![q].pc = "lockincident", ![q].status = CollectionStatus(q)]
    /\ UNCHANGED <<incident, records, gate, locks, died>>

-----------------------------------------------------------------------------
(* analyze_incident: the run that was asked for, or the latest one. *)
PickRun(q) ==
    /\ req[q].pc = "pick"
    /\ \E r \in Requests :
          /\ run[r] # "absent"
          /\ req' = [req EXCEPT ![q].pc = "read", ![q].run = r, ![q].status = run[r]]
    /\ UNCHANGED <<incident, run, records, gate, locks, died>>

(* The evidence is there by now; a hypothesis follows if the rule finds a  *)
(* regression and its confidence reaches the threshold of the request.     *)
ReadEvidence(q) ==
    LET E == EvidenceOf(req[q].run) IN
    /\ req[q].pc = "read"
    /\ \E cites \in {{}, E \ {"runbook"}} :
          /\ cites # {} => DeploymentRegression(E)
          /\ req' = [req EXCEPT ![q].pc = "lockincident", ![q].evidence = E,
                                ![q].cites = cites]
    /\ UNCHANGED <<incident, run, records, gate, locks, died>>

(* The flush of an investigation or analysis, mappers in order of name:    *)
(* the incident becomes ANALYZING, then the run RUNNING or its end state.*)
LockIncident(q) ==
    /\ req[q].pc = "lockincident"
    /\ \/ /\ MovesIncident(q)
          /\ lockI = None
          /\ lockI' = q
          /\ req' = [req EXCEPT ![q].pc = "lockrun", ![q].seen = "analyzing",
                                ![q].put = "analyzing"]
       \/ /\ ~MovesIncident(q)
          /\ req' = [req EXCEPT ![q].pc = "lockrun"]
          /\ UNCHANGED lockI
    /\ UNCHANGED <<incident, run, records, gate, lockR, died>>

LockRunAndCommit(q) ==     \* mutant: RUNNING is committed before the graph runs
    LET r == req[q].run IN
    /\ req[q].pc = "lockrun"
    /\ lockR[r] = None
    /\ lockR' = [lockR EXCEPT ![r] = q]
    /\ run' = [run EXCEPT ![r] = "running"]
    /\ req' = [req EXCEPT ![q].pc =
          IF req[q].op = "analyze" THEN "commit" ELSE "graph"]
    /\ UNCHANGED <<incident, records, gate, lockI, died>>

LockRun(q) ==
    LET r == req[q].run IN
    /\ req[q].pc = "lockrun"
    /\ lockR[r] = None
    /\ lockR' = [lockR EXCEPT ![r] = q]
    /\ req' = [req EXCEPT ![q].pc =
          IF req[q].op = "analyze" THEN "commit" ELSE "graph"]
    /\ UNCHANGED <<incident, run, records, gate, lockI, died>>

(* The agent graph: runbooks may be retrieved, and the model may cite      *)
(* anything; what is not grounded ends as insufficient evidence.           *)
RunGraph(q) ==
    /\ req[q].pc = "graph"
    /\ \E books \in {{}, {"runbook"}}, cites \in Answers :
          LET E == EvidenceOf(q) \cup books IN
          \/ /\ Grounded(cites, E)
             /\ \E asks \in BOOLEAN :      \* auto_request_approval
                   req' = [req EXCEPT ![q].evidence = E, ![q].cites = cites,
                                      ![q].asks = asks,
                                      ![q].pc = IF asks THEN "approve" ELSE "commit"]
          \/ req' = [req EXCEPT ![q].evidence = E, ![q].pc = "commit"]
    /\ UNCHANGED <<incident, run, records, gate, locks, died>>

ApproveAtOnce(q) ==     \* mutant: the status is committed ahead of the approval
    /\ req[q].pc = "approve"
    /\ lockI \in {None, q}
    /\ incident' = "needs_approval"
    /\ req' = [req EXCEPT ![q].pc = "commit"]
    /\ UNCHANGED <<run, records, gate, locks, died>>

(* request_approval in the session of the investigation: NEEDS_APPROVAL,   *)
(* which is written unless the incident was read that way.                 *)
Approve(q) ==
    /\ req[q].pc = "approve"
    /\ \/ /\ req[q].seen # "needs_approval"
          /\ lockI \in {None, q}
          /\ lockI' = q
          /\ req' = [req EXCEPT ![q].pc = "commit", ![q].seen = "needs_approval",
                                ![q].put = "needs_approval"]
       \/ /\ req[q].seen = "needs_approval"
          /\ req' = [req EXCEPT ![q].pc = "commit"]
          /\ UNCHANGED lockI
    /\ UNCHANGED <<incident, run, records, gate, lockR, died>>

-----------------------------------------------------------------------------
LeakRunLock(q) ==     \* mutant: the transaction is left open on the run
    /\ lockI' = IF lockI = q THEN None ELSE lockI
    /\ UNCHANGED lockR

(* The end of a transaction, committed or not. *)
ReleaseLocks(q) ==
    /\ lockR' = [r \in Requests |-> IF lockR[r] = q THEN None ELSE lockR[r]]
    /\ lockI' = IF lockI = q THEN None ELSE lockI

StatusUnlessCompleted(q) ==     \* mutant: COMPLETED is never assigned
    IF req[q].cites # {} THEN "running" ELSE "insufficient_evidence"

FinalStatus(q) ==
    IF req[q].cites # {} THEN "completed" ELSE "insufficient_evidence"

(* An analysis that ends a run as it read it does not update its status;   *)
(* with a hypothesis, and in an investigation, RUNNING was flushed before. *)
WritesRun(q) ==
    \/ req[q].op = "investigate"
    \/ req[q].cites # {}
    \/ req[q].status # "insufficient_evidence"

(* The commit of the route: everything an investigation or an analysis     *)
(* found becomes visible at once.                                          *)
Commit(q) ==
    LET r == req[q].run IN
    /\ req[q].pc = "commit"
    /\ run' = IF WritesRun(q) THEN [run EXCEPT ![r] = FinalStatus(q)] ELSE run
    /\ incident' = IF req[q].put # "none" THEN req[q].put ELSE incident
    /\ runbooks' = runbooks \cup (IF "runbook" \in req[q].evidence THEN {r} ELSE {})
    /\ found' = IF req[q].cites # {}
                THEN [found EXCEPT ![q] = [run |-> r, cites |-> req[q].cites]]
                ELSE found
    /\ gate' = IF req[q].asks THEN [gate EXCEPT ![q] = "pending"] ELSE gate
    /\ req' = [req EXCEPT ![q] = Done]
    /\ ReleaseLocks(q)
    /\ UNCHANGED <<calls, died>>

(* The handler dies: the process or the database fails, PostgreSQL breaks  *)
(* a deadlock, a query range ends before it starts, or any other error     *)
(* that is not a ConnectorError.                                           *)
Die(q) ==
    /\ req[q].pc \notin {"ready", "done"}
    /\ req' = [req EXCEPT ![q] = Done]
    /\ died' = died \cup {q}
    /\ ReleaseLocks(q)
    /\ UNCHANGED <<incident, run, records, gate>>

-----------------------------------------------------------------------------
(* The approval gate, one request at a time; its own interleavings are in  *)
(* ApprovalGate.                                                           *)
Move(h, from, to, st) ==
    /\ found[h].run # None
    /\ gate[h] = from
    /\ gate' = [gate EXCEPT ![h] = to]
    /\ lockI = None
    /\ incident' = st
    /\ UNCHANGED <<run, records, locks, req, died>>

RequestApproval(h) == Move(h, "proposed", "pending", "needs_approval")

Decide(h) == \E d \in {"approved", "rejected"} : Move(h, "pending", d, d)

Execute(h) == Move(h, "approved", "executed", "resolved")

-----------------------------------------------------------------------------
(* q waits for the row of a run or of the incident that p has updated. *)
WaitsFor(q, p) ==
    /\ p # q
    /\ \/ req[q].pc = "create" /\ req[q].seen = "new" /\ lockI = p
       \/ req[q].pc = "end" /\ lockR[q] = p
       \/ req[q].pc = "lockincident" /\ MovesIncident(q) /\ lockI = p
       \/ req[q].pc = "lockrun" /\ lockR[req[q].run] = p
       \/ req[q].pc = "approve" /\ req[q].seen # "needs_approval" /\ lockI = p

(* One of the ways to die: PostgreSQL ends one of two transactions that    *)
(* wait for each other.                                                    *)
BreakDeadlock(q) == Die(q) /\ \E p \in Requests : WaitsFor(q, p) /\ WaitsFor(p, q)

(* The steps at which a session may wait for a row lock. *)
LockStep(q) ==
    CreateRun(q) \/ EndCollection(q) \/ LockRun(q) \/ LockIncident(q) \/ Approve(q)

FreeStep(q) == QuerySource(q) \/ PickRun(q) \/ ReadEvidence(q) \/ RunGraph(q) \/ Commit(q)

Next ==
    \/ \E q \in Requests : Begin(q) \/ LockStep(q) \/ FreeStep(q) \/ Die(q)
    \/ \E h \in Requests : RequestApproval(h) \/ Decide(h) \/ Execute(h)

Spec == Init /\ [][Next]_vars

(* A handler that has begun goes on: connectors end by timeout and a       *)
(* bounded number of retries, the model call by its own timeout, and       *)
(* PostgreSQL hands a released row to its waiters in turn and breaks       *)
(* deadlocks after deadlock_timeout.                                       *)
Fairness == \A q \in Requests :
    WF_vars(FreeStep(q)) /\ SF_vars(LockStep(q)) /\ WF_vars(BreakDeadlock(q))

FairSpec == Spec /\ Fairness

-----------------------------------------------------------------------------
TypeOK ==
    /\ incident \in IncidentStatus
    /\ run \in [Requests -> AgentRunStatus \cup {"absent"}]
    /\ calls \in [Requests -> [Kinds -> {"none", "succeeded", "failed"}]]
    /\ runbooks \in SUBSET Requests
    /\ found \in [Requests -> [run : Requests \cup {None}, cites : SUBSET EvidenceKinds]]
    /\ gate \in [Requests -> Stage]
    /\ lockR \in [Requests -> Requests \cup {None}]
    /\ lockI \in Requests \cup {None}
    /\ req \in [Requests -> RequestState]
    /\ died \in SUBSET Requests

(* A recorded hypothesis cites something, and all it cites is evidence of  *)
(* its own run, whatever the model answers and whenever the run was read.  *)
HypothesisIsGrounded ==
    \A h \in Requests : found[h].run # None =>
        /\ found[h].cites # {}
        /\ found[h].cites \subseteq EvidenceOf(found[h].run)

(* What a human is asked to approve is on record: its hypothesis, and the  *)
(* run it comes from, which no longer shows as running.                    *)
ApprovalIsBacked ==
    \A h \in Requests : gate[h] # "proposed" =>
        found[h].run # None /\ run[found[h].run] \in Finished

(* The incident shows a status of the gate only while an approval of it is *)
(* in the matching state, although investigations write the status they    *)
(* computed long before.                                                   *)
GateStatusIsBacked ==
    /\ incident = "needs_approval" => \E h \in Requests : gate[h] = "pending"
    /\ incident \in {"approved", "rejected"} => \E h \in Requests : gate[h] = incident
    /\ incident = "resolved" => \E h \in Requests : gate[h] = "executed"

(* A run that has ended is never seen running again, although an           *)
(* investigation and an analysis set it back to RUNNING while they work.   *)
RunsStayFinished ==
    [][\A r \in Requests : run[r] \in Finished => run'[r] \in Finished]_vars

InFlight == {q \in Requests : req[q].pc \notin {"ready", "done"}}

(* An analysis locks the incident before a run, and an investigation that  *)
(* began late its run before the incident.  Still no set of requests waits *)
(* only within itself, but for two that wait for each other, which         *)
(* PostgreSQL breaks.                                                      *)
NoStandstill ==
    \A S \in SUBSET InFlight :
        S # {} => \E q \in S :
            \/ \A p \in Requests : ~WaitsFor(q, p)
            \/ \E p \in InFlight \ S : WaitsFor(q, p)
            \/ \E p \in S \ {q} : WaitsFor(q, p) /\ WaitsFor(p, q)

(* The file of an incident: although an investigation commits five times   *)
(* and an analysis may work on its run meanwhile, each commit adds what    *)
(* belongs together, and none alters what another one has entered.         *)
File == INSTANCE CaseFile WITH evidence <- [r \in Requests |-> EvidenceOf(r)]

ImplementsCaseFile == File!Spec

(* Every run leaves RUNNING, unless the request that created it died.      *)
RunEnds ==
    \A r \in Requests : run[r] = "running" ~> (run[r] # "running" \/ r \in died)

-----------------------------------------------------------------------------
(* ARCHITECTURE.md: NEW, COLLECTING_EVIDENCE, ANALYZING, in this order.    *)
(* Both handlers look for the earlier status before they write ANALYZING.  *)
AnalyzingIsEarly ==
    [][incident # "analyzing" /\ incident' = "analyzing"
          => incident \in {"new", "collecting_evidence"}]_vars

=============================================================================
