------------------------------ MODULE Diagnosis ------------------------------
(***************************************************************************)
(* One request of Investigation looked at closely: its connectors with     *)
(* their retries, and its agent graph node by node.  The other requests    *)
(* stay as they are in Investigation, and the focused one shares its       *)
(* handlers: where Investigation lets a query succeed or fail, and the     *)
(* graph cite what it likes, Connectors and AgentGraph decide.             *)
(***************************************************************************)
EXTENDS Investigation, AgentGraph

CONSTANT Focus    \* the request looked at

ASSUME DiagnosisAssumption ==
    /\ Focus \in Requests
    /\ Answers = SUBSET EvidenceKinds

details == <<connectorVars, graphVars>>

DiagnosisInit == Init /\ ConnectorsInit /\ GraphInit

-----------------------------------------------------------------------------
KindOf(e) == IF e \in Books THEN "runbook" ELSE e

KindsOf(E) == {KindOf(e) : e \in E}

Collected == {s \in Telemetry : calls[Focus][s] = "succeeded"}

(* What has been tried so far changes nothing in the database. *)
Retry ==
    /\ req[Focus].pc = "query"
    /\ TryAgain(Sources[req[Focus].pos])
    /\ UNCHANGED <<vars, graphVars>>

(* The outcome of a query is committed, as in QuerySource. *)
Query ==
    LET s == Sources[req[Focus].pos] IN
    /\ QuerySource(Focus)
    /\ \/ calls'[Focus][s] = "failed" /\ GiveUp(s)
       \/ calls'[Focus][s] = "succeeded" /\ (Answer(s) \/ (s = "deployment" /\ ReadDeployments))
    /\ UNCHANGED graphVars

RunNode ==
    /\ req[Focus].pc = "graph"
    /\ Invoke(Collected) \/ GraphNext
    /\ UNCHANGED <<vars, connectorVars>>

HypothesisFits ==
    /\ state.response.valid
    /\ state.response.cites \subseteq Collected \cup (state.evidence_records \cap Books)

PersistTelemetryOnly ==     \* mutant: the runbooks stay in the state of the graph
    /\ req[Focus].pc = "graph" /\ node = "end"
    /\ state.selected => state.response.valid
    /\ req' = [req EXCEPT ![Focus].evidence = EvidenceOf(Focus),
                  ![Focus].cites =
                      IF state.selected THEN KindsOf(state.response.cites) ELSE {},
                  ![Focus].pc = "commit"]
    /\ UNCHANGED <<incident, run, records, gate, locks, died, details>>

(* After the graph: the runbook evidence, then the hypothesis with its     *)
(* citations, which must be evidence of the run, and the recommendation.   *)
Persist ==
    LET E == EvidenceOf(Focus) \cup KindsOf(state.evidence_records \cap Books) IN
    /\ req[Focus].pc = "graph" /\ node = "end"
    /\ \/ /\ ~state.selected
          /\ req' = [req EXCEPT ![Focus].evidence = E, ![Focus].pc = "commit"]
       \/ /\ state.selected /\ HypothesisFits
          /\ \E asks \in BOOLEAN :     \* auto_request_approval
                /\ asks => state.recommendation # "none"
                /\ req' = [req EXCEPT ![Focus].evidence = E,
                              ![Focus].cites = KindsOf(state.response.cites),
                              ![Focus].asks = asks,
                              ![Focus].pc = IF asks THEN "approve" ELSE "commit"]
    /\ UNCHANGED <<incident, run, records, gate, locks, died, details>>

(* An error that the handler itself runs into: an invalid range, no        *)
(* provider, or an answer that HypothesisCreate or its citations refuse.   *)
Raises ==
    \/ req[Focus].pc = "query" /\ ~RangeIsValid
    \/ req[Focus].pc = "graph" /\ node = "generate_hypotheses" /\ provider = "missing"
    \/ req[Focus].pc = "graph" /\ node = "end" /\ state.selected /\ ~HypothesisFits

Raise == Raises /\ Die(Focus) /\ UNCHANGED details

-----------------------------------------------------------------------------
FocusStep == Retry \/ Query \/ RunNode \/ Persist \/ Raise

OtherStep(q) == Begin(q) \/ LockStep(q) \/ PickRun(q) \/ ReadEvidence(q) \/ Commit(q) \/ Die(q)

HumanStep(h) == RequestApproval(h) \/ Decide(h) \/ Execute(h)

DiagnosisNext ==
    \/ FocusStep
    \/ /\ \/ \E q \in Requests : OtherStep(q) \/ HumanStep(q)
          \/ \E q \in Requests \ {Focus} : QuerySource(q) \/ RunGraph(q)
       /\ UNCHANGED details

diagnosisVars == <<vars, details>>

DiagnosisSpec == DiagnosisInit /\ [][DiagnosisNext]_diagnosisVars

(* As in Investigation; the attempts of a query end by their timeout. *)
FairDiagnosisSpec ==
    /\ DiagnosisSpec
    /\ WF_diagnosisVars(FocusStep)
    /\ WF_diagnosisVars(UNCHANGED details /\ Commit(Focus))
    /\ SF_diagnosisVars(UNCHANGED details /\ LockStep(Focus))

-----------------------------------------------------------------------------
(* The detailed request does what Investigation says of any request.       *)
ImplementsInvestigation == Spec

(* What the request recommends stands only on a hypothesis that is on      *)
(* record, with all it cites, and only an action of the allow-list is put  *)
(* to a human, whatever the model answered and whatever failed on the way. *)
RecordedOutcomeIsSafe ==
    found[Focus].run = Focus =>
        /\ state.response.cites \subseteq Collected \cup Books
        /\ state.response.cites \cap Books # {} => Focus \in runbooks
        /\ state.recommendation \in ALLOWED_ACTIONS

(* The request ends, however its sources fail and its model answers.       *)
DiagnosisEnds == req[Focus].op \in {"collect", "investigate"} ~> req[Focus].pc = "done"

-----------------------------------------------------------------------------
(* The incident runbook and the mock's own reasoning: a deployment shortly *)
(* before the errors rose is what to look for.                             *)
RegressionWasThere ==
    /\ \E d \in deployed : started - Lookback <= d /\ d < started
    /\ "database connection timeout" \in says["log"]
    /\ Collected = Telemetry

RegressionIsFound ==
    node = "end" /\ provider = "mock" /\ min_confidence <= 50 /\ RegressionWasThere
        => state.selected

=============================================================================
