----------------------------- MODULE AgentGraph -----------------------------
(***************************************************************************)
(* The agent graph of an investigation: six nodes in a row that hand on    *)
(* one state.  The provider is the mock, whose answer is a function of the *)
(* evidence, or a model that may answer anything; validate_grounding,      *)
(* propose_actions and safety_check are what stands between its answer and *)
(* the database.                                                           *)
(*                                                                         *)
(* A run has at most one piece of evidence of each source, named by it,    *)
(* and one of each runbook.  Confidences are in percent.                   *)
(***************************************************************************)
EXTENDS Connectors, FiniteSets

CONSTANTS
    Books,         \* the runbooks that could be parsed
    OwnBooks,      \* those of the service of the incident
    BookSays,      \* the texts in the record of a runbook
    Replies,       \* what a model may answer
    Thresholds     \* min_confidence of a request

Actions == {"simulated_restart", "simulated_rollback", "simulated_scale",
            "create_incident_note", "arbitrary_shell", "none"}

ALLOWED_ACTIONS == {"simulated_restart", "simulated_rollback",
                    "simulated_scale", "create_incident_note"}

LLMResponse ==
    [outcome : {"raises", "nothing", "cause"},   \* nothing: no root cause
     confidence : 0..100,
     cites : SUBSET (Telemetry \cup Books \cup {"stranger"}),
     action : Actions,
     valid : BOOLEAN]    \* fit for HypothesisCreate and a look into the allow-list

ASSUME GraphAssumption ==
    /\ IsFiniteSet(Books)
    /\ OwnBooks \subseteq Books
    /\ Books \cap (Telemetry \cup {"stranger"}) = {}
    /\ "stranger" \notin Telemetry
    /\ Replies \subseteq LLMResponse
    /\ Thresholds \subseteq 0..100

VARIABLES
    provider,       \* "mock", "model", or "missing": no key, or an unknown name
    min_confidence,
    node,           \* the node that runs next
    state           \* IncidentAgentState

graphVars == <<provider, min_confidence, node, state>>

-----------------------------------------------------------------------------
IncidentAgentState ==
    [evidence_records : SUBSET (Telemetry \cup Books),
     signals : SUBSET {"deployment", "error_logs", "metric_anomaly"},
     response : LLMResponse,
     selected : BOOLEAN,             \* there is a selected_hypothesis
     recommendation : Actions,
     status : {"running", "completed", "insufficient_evidence", "failed"}]

Nothing == [outcome |-> "nothing", confidence |-> 0, cites |-> {},
            action |-> "none", valid |-> TRUE]

InitialState(records) ==
    [evidence_records |-> records, signals |-> {}, response |-> Nothing,
     selected |-> FALSE, recommendation |-> "none", status |-> "running"]

GraphInit ==
    /\ provider \in {"mock", "model", "missing"}
    /\ min_confidence \in Thresholds
    /\ node = "start"
    /\ state = InitialState({})

-----------------------------------------------------------------------------
Invoke(records) ==
    /\ node = "start"
    /\ node' = "retrieve_runbooks"
    /\ state' = InitialState(records)
    /\ UNCHANGED <<provider, min_confidence>>

Step(from, to) ==
    /\ node = from
    /\ node' = to
    /\ UNCHANGED <<provider, min_confidence>>

(* RunbookRetriever.retrieve: the two best of the runbooks with a score;   *)
(* the match of its service alone gives a runbook one.                     *)
Retrieved ==
    {B \in SUBSET Books : Cardinality(B) <= 2 /\ (OwnBooks \subseteq B \/ Cardinality(B) = 2)}

RetrieveRunbooks ==
    /\ Step("retrieve_runbooks", "correlate_evidence")
    /\ \E B \in Retrieved :
          state' = [state EXCEPT !.evidence_records = @ \cup B]

Says(e) == IF e \in Books THEN BookSays[e] ELSE says[e]

Mention(text) == \E e \in state.evidence_records : text \in Says(e)

AnyHistory == "deployment" \in state.evidence_records   \* mutant: an empty one too

HasDeployment ==
    "deployment" \in state.evidence_records /\ "deployed" \in says["deployment"]

(* The text of all the records counts, runbooks included. *)
HasErrorLogs ==
    \/ "log" \in state.evidence_records /\ "500" \in says["log"]
    \/ Mention("database connection timeout")

HasMetricAnomaly == Mention("error rate")

CorrelateEvidence ==
    /\ Step("correlate_evidence", "generate_hypotheses")
    /\ state' = [state EXCEPT !.signals =
          (IF HasDeployment THEN {"deployment"} ELSE {})
            \cup (IF HasErrorLogs THEN {"error_logs"} ELSE {})
            \cup (IF HasMetricAnomaly THEN {"metric_anomaly"} ELSE {})]

MockConfidenceUncapped(n) == 55 + 10 * n     \* mutant: without the two minima

(* min(0.95, 0.55 + 0.1 * min(n, 4)) *)
MockConfidence(n) == IF n < 4 THEN 55 + 10 * n ELSE 95

(* MockProvider: a deployment beside any degradation, two records or more, *)
(* and enough confidence; it then cites all there is.                      *)
MockConcludes ==
    LET n == Cardinality(state.evidence_records) IN
    /\ "deployment" \in state.signals
    /\ state.signals \cap {"error_logs", "metric_anomaly"} # {}
    /\ n >= 2
    /\ MockConfidence(n) >= min_confidence

MockResponse ==
    IF MockConcludes
    THEN [outcome |-> "cause",
          confidence |-> MockConfidence(Cardinality(state.evidence_records)),
          cites |-> state.evidence_records,
          action |-> "simulated_rollback",
          valid |-> TRUE]
    ELSE Nothing

Insufficient(st) ==
    [st EXCEPT !.selected = FALSE, !.status = "insufficient_evidence"]

(* build_provider raises outside of the handler for the errors of a        *)
(* provider, so that nothing happens here without one.                     *)
GenerateHypotheses ==
    /\ Step("generate_hypotheses", "validate_grounding")
    /\ provider # "missing"
    /\ \E r \in IF provider = "mock" THEN {MockResponse} ELSE Replies :
          state' = IF r.outcome # "cause" \/ r.confidence < min_confidence
                   THEN Insufficient(state)
                   ELSE [state EXCEPT !.response = r, !.selected = TRUE]

CitesAny(st) == st.response.cites # {}     \* mutant: ids are not looked up

CitesCollected(st) ==
    st.response.cites # {} /\ st.response.cites \subseteq st.evidence_records

ValidateOrRegenerate ==     \* mutant: an answer that is not grounded is asked again
    LET grounded == state.selected /\ CitesCollected(state) IN
    /\ Step("validate_grounding",
            IF grounded THEN "propose_actions" ELSE "generate_hypotheses")
    /\ state' = IF grounded THEN [state EXCEPT !.status = "running"] ELSE Insufficient(state)

(* ... and the router behind it. *)
ValidateGrounding ==
    LET grounded == state.selected /\ CitesCollected(state) IN
    /\ Step("validate_grounding", IF grounded THEN "propose_actions" ELSE "end")
    /\ state' = IF grounded THEN [state EXCEPT !.status = "running"] ELSE Insufficient(state)

ProposeHint ==     \* mutant: the model's action is taken over as it is
    /\ Step("propose_actions", "safety_check")
    /\ state' = [state EXCEPT !.recommendation = state.response.action]

ProposeActions ==
    /\ Step("propose_actions", "safety_check")
    /\ state' = [state EXCEPT !.recommendation =
          IF state.response.action \in ALLOWED_ACTIONS
          THEN state.response.action ELSE "simulated_rollback"]

SafetyCheck ==
    /\ Step("safety_check", "end")
    /\ state' = IF state.recommendation \in ALLOWED_ACTIONS
                THEN [state EXCEPT !.status = "completed"]
                ELSE [state EXCEPT !.status = "failed", !.recommendation = "none"]

GraphNext ==
    \/ RetrieveRunbooks \/ CorrelateEvidence \/ GenerateHypotheses
    \/ ValidateGrounding \/ ProposeActions \/ SafetyCheck

-----------------------------------------------------------------------------
GraphTypeOK ==
    /\ provider \in {"mock", "model", "missing"}
    /\ min_confidence \in 0..100
    /\ node \in {"start", "retrieve_runbooks", "correlate_evidence",
                 "generate_hypotheses", "validate_grounding", "propose_actions",
                 "safety_check", "end"}
    /\ state \in IncidentAgentState

(* Whatever a model answers, a graph that ends with a hypothesis has one   *)
(* that cites only records it was given or retrieved, with the confidence  *)
(* that was asked for, and recommends an action of the allow-list; without *)
(* one it recommends nothing.                                              *)
OutcomeIsSafe ==
    node = "end" =>
        IF state.selected
        THEN /\ state.response.cites # {}
             /\ state.response.cites \subseteq state.evidence_records
             /\ state.response.confidence >= min_confidence
             /\ state.recommendation \in ALLOWED_ACTIONS
        ELSE state.recommendation = "none" /\ state.status = "insufficient_evidence"

(* The mock blames a deployment only if one is on record in the range that *)
(* was queried, beside other evidence.                                     *)
BlameNeedsDeployment ==
    node = "end" /\ state.selected /\ provider = "mock" =>
        InRange # {} /\ Cardinality(state.evidence_records) >= 2

=============================================================================
