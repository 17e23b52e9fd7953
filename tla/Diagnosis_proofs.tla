-------------------------- MODULE Diagnosis_proofs --------------------------
(***************************************************************************)
(* What the focused request keeps, whatever its sources say and a model    *)
(* answers, and that it does what Investigation says of a request.         *)
(***************************************************************************)
EXTENDS Diagnosis, CaseFile_proofs, FiniteSetTheorems

(* What holds on the way through the graph. *)
OnTheWay ==
    /\ node \in {"start", "retrieve_runbooks", "correlate_evidence", "generate_hypotheses"} =>
          ~state.selected
    /\ node \notin {"safety_check", "end"} => state.recommendation = "none"
    /\ node = "validate_grounding" /\ state.selected =>
          state.response.confidence >= min_confidence
    /\ node \in {"propose_actions", "safety_check"} =>
          /\ state.selected
          /\ CitesCollected(state)
          /\ state.response.confidence >= min_confidence
    /\ node = "safety_check" => state.recommendation \in ALLOWED_ACTIONS

GraphInv == GraphTypeOK /\ OnTheWay /\ OutcomeIsSafe

-----------------------------------------------------------------------------
LEMMA EmptyState ==
    ASSUME NEW E \in SUBSET (Telemetry \cup Books)
    PROVE  InitialState(E) \in IncidentAgentState
<1>1. Nothing \in LLMResponse
  BY DEF Nothing, LLMResponse, Actions
<1> QED BY <1>1 DEF InitialState, IncidentAgentState, Actions

LEMMA EditRecords ==
    ASSUME NEW st \in IncidentAgentState, NEW E \in SUBSET (Telemetry \cup Books)
    PROVE  [st EXCEPT !.evidence_records = E] \in IncidentAgentState
BY DEF IncidentAgentState

LEMMA EditSignals ==
    ASSUME NEW st \in IncidentAgentState,
           NEW S \in SUBSET {"deployment", "error_logs", "metric_anomaly"}
    PROVE  [st EXCEPT !.signals = S] \in IncidentAgentState
BY DEF IncidentAgentState

LEMMA EditResponse ==
    ASSUME NEW st \in IncidentAgentState, NEW r \in LLMResponse
    PROVE  [st EXCEPT !.response = r, !.selected = TRUE] \in IncidentAgentState
BY DEF IncidentAgentState

LEMMA EditInsufficient ==
    ASSUME NEW st \in IncidentAgentState
    PROVE  Insufficient(st) \in IncidentAgentState
BY DEF IncidentAgentState, Insufficient

LEMMA EditStateStatus ==
    ASSUME NEW st \in IncidentAgentState, NEW s \in {"running", "completed", "failed"}
    PROVE  [st EXCEPT !.status = s] \in IncidentAgentState
BY DEF IncidentAgentState

LEMMA EditRecommendation ==
    ASSUME NEW st \in IncidentAgentState, NEW a \in Actions
    PROVE  [st EXCEPT !.recommendation = a] \in IncidentAgentState
BY DEF IncidentAgentState

(* The mock's answer is a well-formed one: its confidence stays within     *)
(* range however many records there are.                                   *)
LEMMA RecordsAreFinite ==
    ASSUME GraphTypeOK
    PROVE  Cardinality(state.evidence_records) \in Nat
<1>1. state.evidence_records \subseteq Telemetry \cup Books
  BY DEF GraphTypeOK, IncidentAgentState
<1>2. IsFiniteSet(Telemetry)
  <2>1. Telemetry = {"metric"} \cup {"log"} \cup {"deployment"}
    BY DEF Telemetry
  <2> QED BY <2>1, FS_Singleton, FS_Union
<1>3. IsFiniteSet(Telemetry \cup Books)
  BY <1>2, GraphAssumption, FS_Union
<1>4. IsFiniteSet(state.evidence_records)
  BY <1>1, <1>3, FS_Subset
<1> QED BY <1>4, FS_CardinalityType

LEMMA MockIsWellFormed ==
    ASSUME GraphTypeOK
    PROVE  MockResponse \in LLMResponse
<1>1. CASE ~MockConcludes
  BY <1>1 DEF MockResponse, Nothing, LLMResponse, Actions
<1>2. CASE MockConcludes
  <2>1. MockConfidence(Cardinality(state.evidence_records)) \in 0..100
    BY RecordsAreFinite DEF MockConfidence
  <2>2. state.evidence_records \in SUBSET (Telemetry \cup Books \cup {"stranger"})
    BY DEF GraphTypeOK, IncidentAgentState
  <2> QED BY <1>2, <2>1, <2>2 DEF MockResponse, LLMResponse, Actions
<1> QED BY <1>1, <1>2

-----------------------------------------------------------------------------
(* One lemma for each node. *)
LEMMA InvokeNode ==
    ASSUME GraphInv, NEW E \in SUBSET Telemetry, Invoke(E)
    PROVE  GraphInv'
<1>1. InitialState(E) \in IncidentAgentState
  BY EmptyState
<1>2. InitialState(E).selected = FALSE /\ InitialState(E).recommendation = "none"
  BY DEF InitialState
<1>3. GraphTypeOK'
  BY <1>1 DEF GraphInv, GraphTypeOK, Invoke
<1> QED BY <1>2, <1>3 DEF GraphInv, OnTheWay, OutcomeIsSafe, Invoke

LEMMA RetrieveNode ==
    ASSUME GraphInv, RetrieveRunbooks
    PROVE  GraphInv'
<1>1. PICK B \in Retrieved :
          state' = [state EXCEPT !.evidence_records = @ \cup B]
  BY DEF RetrieveRunbooks
<1>2. state \in IncidentAgentState
  BY DEF GraphInv, GraphTypeOK
<1>3. state.evidence_records \cup B \in SUBSET (Telemetry \cup Books)
  BY <1>2 DEF Retrieved, IncidentAgentState
<1>4. state' = [state EXCEPT !.evidence_records = state.evidence_records \cup B]
  BY <1>1
<1>5. GraphTypeOK'
  BY <1>2, <1>3, <1>4, EditRecords DEF GraphInv, GraphTypeOK, RetrieveRunbooks, Step
<1>6. state'.selected = state.selected /\ state'.recommendation = state.recommendation
  BY <1>2, <1>4 DEF IncidentAgentState
<1> QED BY <1>5, <1>6 DEF GraphInv, OnTheWay, OutcomeIsSafe, RetrieveRunbooks, Step

LEMMA CorrelateNode ==
    ASSUME GraphInv, CorrelateEvidence
    PROVE  GraphInv'
<1>1. PICK S \in SUBSET {"deployment", "error_logs", "metric_anomaly"} :
          state' = [state EXCEPT !.signals = S]
  BY DEF CorrelateEvidence
<1>2. state \in IncidentAgentState
  BY DEF GraphInv, GraphTypeOK
<1>3. GraphTypeOK'
  BY <1>1, <1>2, EditSignals DEF GraphInv, GraphTypeOK, CorrelateEvidence, Step
<1>4. state'.selected = state.selected /\ state'.recommendation = state.recommendation
  BY <1>1, <1>2 DEF IncidentAgentState
<1> QED BY <1>3, <1>4 DEF GraphInv, OnTheWay, OutcomeIsSafe, CorrelateEvidence, Step

LEMMA GenerateNode ==
    ASSUME GraphInv, GenerateHypotheses
    PROVE  GraphInv'
<1>1. PICK r \in IF provider = "mock" THEN {MockResponse} ELSE Replies :
          state' = IF r.outcome # "cause" \/ r.confidence < min_confidence
                   THEN Insufficient(state)
                   ELSE [state EXCEPT !.response = r, !.selected = TRUE]
  BY DEF GenerateHypotheses
<1>2. state \in IncidentAgentState
  BY DEF GraphInv, GraphTypeOK
<1>3. r \in LLMResponse
  BY MockIsWellFormed, GraphAssumption DEF GraphInv
<1>4. node = "generate_hypotheses" /\ node' = "validate_grounding"
        /\ provider' = provider /\ min_confidence' = min_confidence
  BY DEF GenerateHypotheses, Step
<1>5. CASE r.outcome # "cause" \/ r.confidence < min_confidence
  <2>1. state' = Insufficient(state)
    BY <1>1, <1>5
  <2>2. GraphTypeOK'
    BY <1>2, <1>4, <2>1, EditInsufficient DEF GraphInv, GraphTypeOK
  <2>3. ~state'.selected /\ state'.recommendation = state.recommendation
    BY <1>2, <2>1 DEF Insufficient, IncidentAgentState
  <2> QED BY <1>4, <2>2, <2>3 DEF GraphInv, OnTheWay, OutcomeIsSafe
<1>6. CASE ~(r.outcome # "cause" \/ r.confidence < min_confidence)
  <2>1. state' = [state EXCEPT !.response = r, !.selected = TRUE]
    BY <1>1, <1>6
  <2>2. GraphTypeOK'
    BY <1>2, <1>3, <1>4, <2>1, EditResponse DEF GraphInv, GraphTypeOK
  <2>3. state'.response = r /\ state'.recommendation = state.recommendation
    BY <1>2, <2>1 DEF IncidentAgentState
  <2>4. r.confidence >= min_confidence
    BY <1>3, <1>6 DEF GraphInv, GraphTypeOK, LLMResponse
  <2> QED BY <1>4, <2>2, <2>3, <2>4 DEF GraphInv, OnTheWay, OutcomeIsSafe
<1> QED BY <1>5, <1>6

LEMMA ValidateNode ==
    ASSUME GraphInv, ValidateGrounding
    PROVE  GraphInv'
<1>1. state \in IncidentAgentState
  BY DEF GraphInv, GraphTypeOK
<1>2. node = "validate_grounding" /\ provider' = provider
        /\ min_confidence' = min_confidence
  BY DEF ValidateGrounding, Step
<1>3. CASE state.selected /\ CitesCollected(state)
  <2>1. node' = "propose_actions" /\ state' = [state EXCEPT !.status = "running"]
    BY <1>3 DEF ValidateGrounding, Step
  <2>2. GraphTypeOK'
    BY <1>1, <1>2, <2>1, EditStateStatus DEF GraphInv, GraphTypeOK
  <2>3. state'.selected = state.selected /\ state'.recommendation = state.recommendation
          /\ state'.response = state.response
          /\ state'.evidence_records = state.evidence_records
    BY <1>1, <2>1 DEF IncidentAgentState
  <2>4. CitesCollected(state)'
    BY <1>3, <2>3 DEF CitesCollected
  <2> QED BY <1>2, <1>3, <2>1, <2>2, <2>3, <2>4 DEF GraphInv, OnTheWay, OutcomeIsSafe
<1>4. CASE ~(state.selected /\ CitesCollected(state))
  <2>1. node' = "end" /\ state' = Insufficient(state)
    BY <1>4 DEF ValidateGrounding, Step
  <2>2. GraphTypeOK'
    BY <1>1, <1>2, <2>1, EditInsufficient DEF GraphInv, GraphTypeOK
  <2>3. ~state'.selected /\ state'.recommendation = state.recommendation
          /\ state'.status = "insufficient_evidence"
    BY <1>1, <2>1 DEF Insufficient, IncidentAgentState
  <2> QED BY <1>2, <2>1, <2>2, <2>3 DEF GraphInv, OnTheWay, OutcomeIsSafe
<1> QED BY <1>3, <1>4

LEMMA ProposeNode ==
    ASSUME GraphInv, ProposeActions
    PROVE  GraphInv'
<1>1. state \in IncidentAgentState
  BY DEF GraphInv, GraphTypeOK
<1>2. PICK a \in ALLOWED_ACTIONS : state' = [state EXCEPT !.recommendation = a]
  BY DEF ProposeActions, ALLOWED_ACTIONS
<1>3. a \in Actions
  BY DEF ALLOWED_ACTIONS, Actions
<1>4. node = "propose_actions" /\ node' = "safety_check" /\ provider' = provider
        /\ min_confidence' = min_confidence
  BY DEF ProposeActions, Step
<1>5. GraphTypeOK'
  BY <1>1, <1>2, <1>3, <1>4, EditRecommendation DEF GraphInv, GraphTypeOK
<1>6. state'.selected = state.selected /\ state'.recommendation = a
        /\ state'.response = state.response
        /\ state'.evidence_records = state.evidence_records
  BY <1>1, <1>2 DEF IncidentAgentState
<1>7. CitesCollected(state) => CitesCollected(state)'
  BY <1>6 DEF CitesCollected
<1> QED BY <1>4, <1>5, <1>6, <1>7 DEF GraphInv, OnTheWay, OutcomeIsSafe

LEMMA SafetyNode ==
    ASSUME GraphInv, SafetyCheck
    PROVE  GraphInv'
<1>1. state \in IncidentAgentState
  BY DEF GraphInv, GraphTypeOK
<1>2. node = "safety_check" /\ node' = "end" /\ provider' = provider
        /\ min_confidence' = min_confidence
  BY DEF SafetyCheck, Step
<1>3. state.selected /\ CitesCollected(state) /\ state.recommendation \in ALLOWED_ACTIONS
        /\ state.response.confidence >= min_confidence
  BY <1>2 DEF GraphInv, OnTheWay
<1>4. state' = [state EXCEPT !.status = "completed"]
  BY <1>3 DEF SafetyCheck
<1>5. GraphTypeOK'
  BY <1>1, <1>2, <1>4, EditStateStatus DEF GraphInv, GraphTypeOK
<1>6. state'.selected = state.selected /\ state'.recommendation = state.recommendation
        /\ state'.response = state.response
        /\ state'.evidence_records = state.evidence_records
  BY <1>1, <1>4 DEF IncidentAgentState
<1> QED BY <1>2, <1>3, <1>5, <1>6 DEF GraphInv, OnTheWay, OutcomeIsSafe, CitesCollected

LEMMA GraphInvStays ==
    ASSUME GraphInv, UNCHANGED graphVars
    PROVE  GraphInv'
BY DEF GraphInv, GraphTypeOK, OnTheWay, OutcomeIsSafe, CitesCollected, graphVars

LEMMA GraphInit_GraphInv ==
    ASSUME GraphInit
    PROVE  GraphInv
<1>1. InitialState({}) \in IncidentAgentState
  BY EmptyState
<1>2. InitialState({}).selected = FALSE /\ InitialState({}).recommendation = "none"
  BY DEF InitialState
<1>3. GraphTypeOK
  BY <1>1, GraphAssumption DEF GraphInit, GraphTypeOK
<1> QED BY <1>2, <1>3 DEF GraphInit, GraphInv, OnTheWay, OutcomeIsSafe

LEMMA GraphNode ==
    ASSUME GraphInv, GraphNext
    PROVE  GraphInv'
BY RetrieveNode, CorrelateNode, GenerateNode, ValidateNode, ProposeNode, SafetyNode
   DEF GraphNext

-----------------------------------------------------------------------------
(* The graph within the request. *)
LEMMA FocusOrDetails ==
    ASSUME [DiagnosisNext]_diagnosisVars
    PROVE  FocusStep \/ UNCHANGED details
BY DEF DiagnosisNext, diagnosisVars

LEMMA GraphInvNext ==
    ASSUME GraphInv, [DiagnosisNext]_diagnosisVars
    PROVE  GraphInv'
<1>1. Collected \in SUBSET Telemetry
  BY DEF Collected
<1>2. CASE RunNode
  BY <1>1, <1>2, InvokeNode, GraphNode DEF RunNode
<1>3. CASE UNCHANGED graphVars
  BY <1>3, GraphInvStays
<1>4. UNCHANGED details => UNCHANGED graphVars
  BY DEF details
<1> QED
  BY <1>2, <1>3, <1>4, FocusOrDetails DEF FocusStep, Retry, Query, Persist, Raise

(* From the first node to the last the state keeps its type, and holds no  *)
(* hypothesis, or one that was admitted so far.                            *)
THEOREM GraphInvHolds == DiagnosisSpec => []GraphInv
<1>1. DiagnosisInit => GraphInv
  BY GraphInit_GraphInv DEF DiagnosisInit
<1>2. GraphInv /\ [DiagnosisNext]_diagnosisVars => GraphInv'
  BY GraphInvNext
<1> QED BY <1>1, <1>2, PTL DEF DiagnosisSpec

(* The state handed from node to node keeps its type, whatever a model     *)
(* answers; the mock's confidence stays one however many runbooks there    *)
(* are.                                                                    *)
THEOREM GraphTypes == DiagnosisSpec => []GraphTypeOK
<1>1. GraphInv => GraphTypeOK
  BY DEF GraphInv
<1> QED BY <1>1, GraphInvHolds, PTL

(* For any set of answers and any runbooks: a graph that ends with a       *)
(* hypothesis has grounded it, met the confidence that was asked for, and  *)
(* recommends an action of the allow-list; without one it recommends       *)
(* nothing.                                                                *)
THEOREM OutcomesAreSafe == DiagnosisSpec => []OutcomeIsSafe
<1>1. GraphInv => OutcomeIsSafe
  BY DEF GraphInv
<1> QED BY <1>1, GraphInvHolds, PTL

-----------------------------------------------------------------------------
(* Connectors. *)
LEMMA ConnectorsStay ==
    ASSUME ConnectorsTypeOK, UNCHANGED connectorVars
    PROVE  ConnectorsTypeOK'
BY DEF ConnectorsTypeOK, connectorVars

LEMMA CountsAreCounts ==
    ASSUME ConnectorsTypeOK, NEW s \in Telemetry, GetJson(s)
    PROVE  /\ sent' \in [Telemetry -> Nat]
           /\ sent'[s] = sent[s] + 1
           /\ \A t \in Telemetry \ {s} : sent'[t] = sent[t]
<1>1. sent[s] \in Nat
  BY DEF ConnectorsTypeOK
<1>2. sent[s] + 1 \in Nat
  BY <1>1
<1>3. sent' = [sent EXCEPT ![s] = sent[s] + 1]
  BY DEF GetJson
<1> QED BY <1>2, <1>3 DEF ConnectorsTypeOK

LEMMA TryAgainTyped ==
    ASSUME ConnectorsTypeOK, NEW s \in Telemetry, TryAgain(s)
    PROVE  ConnectorsTypeOK'
<1>1. GetJson(s) /\ attempt' = attempt + 1 /\ attempt < MaxRetries
        /\ UNCHANGED <<started, deployed, failure, says>>
  BY DEF TryAgain, GetJson, GoesOn
<1>2. attempt' \in 0..MaxRetries
  BY <1>1, ConnectorsAssumption DEF ConnectorsTypeOK
<1> QED BY <1>1, <1>2, CountsAreCounts DEF ConnectorsTypeOK

LEMMA GiveUpTyped ==
    ASSUME ConnectorsTypeOK, NEW s \in Telemetry, GiveUp(s)
    PROVE  ConnectorsTypeOK'
<1>1. GetJson(s) /\ attempt' = 0 /\ UNCHANGED <<started, deployed, says>>
  BY DEF GiveUp, GetJson
<1>2. 0 \in 0..MaxRetries
  BY ConnectorsAssumption
<1>3. PICK kind \in {"retryable", "final"} : failure' = [failure EXCEPT ![s] = kind]
  BY DEF GiveUp
<1>4. failure' \in [Telemetry -> {"none", "retryable", "final"}]
  BY <1>3 DEF ConnectorsTypeOK
<1> QED BY <1>1, <1>2, <1>4, CountsAreCounts DEF ConnectorsTypeOK

LEMMA AnswerTyped ==
    ASSUME ConnectorsTypeOK, NEW s \in Telemetry, Answer(s)
    PROVE  ConnectorsTypeOK' /\ says'["deployment"] = says["deployment"]
<1>1. GetJson(s) /\ attempt' = 0 /\ UNCHANGED <<started, deployed, failure>>
        /\ s # "deployment"
  BY DEF Answer, GetJson
<1>2. 0 \in 0..MaxRetries
  BY ConnectorsAssumption
<1>3. PICK T \in SUBSET LogTexts : says' = [says EXCEPT ![s] = T]
  BY DEF Answer
<1>4. says' \in [Telemetry -> SUBSET (LogTexts \cup {"deployed"})]
  BY <1>3 DEF ConnectorsTypeOK
<1>5. says'["deployment"] = says["deployment"]
  BY <1>1, <1>3 DEF ConnectorsTypeOK, Telemetry
<1> QED BY <1>1, <1>2, <1>4, <1>5, CountsAreCounts DEF ConnectorsTypeOK

LEMMA ReadDeploymentsTyped ==
    ASSUME ConnectorsTypeOK, ReadDeployments
    PROVE  /\ ConnectorsTypeOK'
           /\ "deployed" \in says'["deployment"] => InRange # {}
<1>1. PICK T \in SUBSET {"deployed"} :
          /\ says' = [says EXCEPT !["deployment"] = T]
          /\ InRange = {} => T = {}
  BY DEF ReadDeployments
<1>2. says' \in [Telemetry -> SUBSET (LogTexts \cup {"deployed"})]
  BY <1>1 DEF ConnectorsTypeOK
<1>3. says'["deployment"] = T
  BY <1>1 DEF ConnectorsTypeOK, Telemetry
<1>4. UNCHANGED <<started, deployed, attempt, failure, sent>>
  BY DEF ReadDeployments
<1> QED BY <1>1, <1>2, <1>3, <1>4 DEF ConnectorsTypeOK

-----------------------------------------------------------------------------
(* The step simulation. *)
LEMMA KindFacts ==
    /\ Telemetry \subseteq Kinds
    /\ \A e \in Telemetry : KindOf(e) = e
    /\ \A B \in SUBSET Books : KindsOf(B) \in {{}, {"runbook"}}
<1>1. Telemetry \subseteq Kinds
  BY DEF Telemetry, Kinds
<1>2. \A e \in Telemetry : KindOf(e) = e
  BY GraphAssumption DEF KindOf
<1>3. ASSUME NEW B \in SUBSET Books PROVE KindsOf(B) \in {{}, {"runbook"}}
  <2>1. \A e \in B : KindOf(e) = "runbook"
    BY DEF KindOf
  <2> QED BY <2>1 DEF KindsOf
<1> QED BY <1>1, <1>2, <1>3

LEMMA CollectedIsEvidence ==
    Focus \in Requests /\ Collected \subseteq EvidenceOf(Focus)
BY DiagnosisAssumption, KindFacts DEF Collected, EvidenceOf

(* What fits is grounded in the evidence that is stored with it. *)
LEMMA FittingIsGrounded ==
    ASSUME HypothesisFits, state.response.cites # {}
    PROVE  Grounded(KindsOf(state.response.cites),
                    EvidenceOf(Focus) \cup KindsOf(state.evidence_records \cap Books))
<1>1. KindsOf(state.response.cites) # {}
  BY DEF KindsOf
<1>2. ASSUME NEW e \in state.response.cites
      PROVE  KindOf(e) \in EvidenceOf(Focus) \cup KindsOf(state.evidence_records \cap Books)
  <2>1. e \in Collected \/ e \in state.evidence_records \cap Books
    BY DEF HypothesisFits
  <2>2. CASE e \in Collected
    BY <2>2, KindFacts, CollectedIsEvidence DEF Collected
  <2>3. CASE e \in state.evidence_records \cap Books
    BY <2>3 DEF KindsOf
  <2> QED BY <2>1, <2>2, <2>3
<1>3. KindsOf(state.response.cites)
        \subseteq EvidenceOf(Focus) \cup KindsOf(state.evidence_records \cap Books)
  BY <1>2 DEF KindsOf
<1> QED BY <1>1, <1>3 DEF Grounded

LEMMA KindsAreEvidenceKinds ==
    ASSUME NEW C, HypothesisFits, C = state.response.cites
    PROVE  KindsOf(C) \in SUBSET EvidenceKinds
<1>1. \A e \in C : KindOf(e) \in EvidenceKinds
  BY KindFacts DEF HypothesisFits, Collected, KindOf, Kinds, EvidenceKinds
<1> QED BY <1>1 DEF KindsOf

LEMMA PersistIsRunGraph ==
    ASSUME GraphInv, Persist
    PROVE  RunGraph(Focus)
<1> DEFINE books == KindsOf(state.evidence_records \cap Books)
           cites == KindsOf(state.response.cites)
<1>1. books \in {{}, {"runbook"}}
  BY KindFacts
<1>2. req[Focus].pc = "graph" /\ UNCHANGED <<incident, run, records, gate, locks, died>>
  BY DEF Persist
<1>3. CASE ~state.selected
  <2>1. req' = [req EXCEPT ![Focus].evidence = EvidenceOf(Focus) \cup books,
                           ![Focus].pc = "commit"]
    BY <1>3 DEF Persist
  <2>2. {} \in Answers
    BY DiagnosisAssumption
  <2> HIDE DEF books
  <2> QED BY <1>1, <1>2, <2>1, <2>2 DEF RunGraph
<1>4. CASE state.selected
  <2>1. HypothesisFits
    BY <1>4 DEF Persist
  <2>2. PICK asks \in BOOLEAN :
            req' = [req EXCEPT ![Focus].evidence = EvidenceOf(Focus) \cup books,
                               ![Focus].cites = cites, ![Focus].asks = asks,
                               ![Focus].pc = IF asks THEN "approve" ELSE "commit"]
    BY <1>4 DEF Persist
  <2>3. state.response.cites # {}
    BY <1>4 DEF GraphInv, OutcomeIsSafe, Persist
  <2>4. Grounded(cites, EvidenceOf(Focus) \cup books)
    BY <2>1, <2>3, FittingIsGrounded
  <2>5. cites \in Answers
    BY <2>1, KindsAreEvidenceKinds, DiagnosisAssumption
  <2> HIDE DEF books, cites
  <2> QED BY <1>1, <1>2, <2>2, <2>4, <2>5 DEF RunGraph
<1> QED BY <1>3, <1>4

LEMMA DiagnosisStep ==
    ASSUME GraphInv, [DiagnosisNext]_diagnosisVars
    PROVE  [Next]_vars
<1>1. Focus \in Requests
  BY DiagnosisAssumption
<1>2. CASE Retry \/ RunNode
  BY <1>2 DEF Retry, RunNode
<1>3. CASE Query
  BY <1>1, <1>3 DEF Query, Next, FreeStep
<1>4. CASE Persist
  BY <1>1, <1>4, PersistIsRunGraph DEF Next, FreeStep
<1>5. CASE Raise
  BY <1>1, <1>5 DEF Raise, Next
<1>6. ASSUME NEW q \in Requests, OtherStep(q) \/ HumanStep(q) PROVE Next
  BY <1>6 DEF OtherStep, HumanStep, Next, FreeStep
<1>7. ASSUME NEW q \in Requests, QuerySource(q) \/ RunGraph(q) PROVE Next
  BY <1>7 DEF Next, FreeStep
<1>8. CASE UNCHANGED diagnosisVars
  BY <1>8 DEF diagnosisVars
<1> QED BY <1>2, <1>3, <1>4, <1>5, <1>6, <1>7, <1>8 DEF DiagnosisNext, FocusStep

(* The request looked at closely, with its attempts, its nodes and the     *)
(* answers of its model, does nothing that Investigation does not say of   *)
(* any request, beside any number of others.                               *)
THEOREM DiagnosisImplements == DiagnosisSpec => ImplementsInvestigation
<1>1. DiagnosisInit => Init
  BY DEF DiagnosisInit
<1>2. GraphInv /\ [DiagnosisNext]_diagnosisVars => [Next]_vars
  BY DiagnosisStep
<1> QED
  BY <1>1, <1>2, GraphInvHolds, PTL DEF DiagnosisSpec, Spec, ImplementsInvestigation

(* So that all it keeps is kept here, too. *)
THEOREM InvestigationHolds == DiagnosisSpec => []IInv
BY DiagnosisImplements, IInvHolds, PTL DEF ImplementsInvestigation

-----------------------------------------------------------------------------
(* The source that is queried, and where the query goes on. *)
LEMMA FocusSource ==
    ASSUME TypeOK
    PROVE  /\ req[Focus].pos \in 1..3
           /\ Sources[req[Focus].pos] \in Telemetry
BY DiagnosisAssumption, SourceFacts DEF TypeOK, RequestState, Telemetry, Kinds

LEMMA ConnectorsTyped ==
    ASSUME ConnectorsTypeOK, TypeOK, [DiagnosisNext]_diagnosisVars
    PROVE  ConnectorsTypeOK'
<1>1. PICK s \in Telemetry : s = Sources[req[Focus].pos]
  BY FocusSource
<1>2. CASE Retry
  BY <1>1, <1>2, TryAgainTyped DEF Retry
<1>3. CASE Query
  BY <1>1, <1>3, GiveUpTyped, AnswerTyped, ReadDeploymentsTyped DEF Query
<1>4. CASE UNCHANGED connectorVars
  BY <1>4, ConnectorsStay
<1>5. UNCHANGED details => UNCHANGED connectorVars
  BY DEF details
<1> QED
  BY <1>2, <1>3, <1>4, <1>5, FocusOrDetails DEF FocusStep, RunNode, Persist, Raise

(* Attempts, failures and texts stay within their types; so does the       *)
(* number of the attempt within the number of retries.                     *)
THEOREM ConnectorTypes == DiagnosisSpec => []ConnectorsTypeOK
<1>1. DiagnosisInit => ConnectorsTypeOK
  BY ConnectorsAssumption DEF DiagnosisInit, ConnectorsInit, ConnectorsTypeOK
<1>2. ConnectorsTypeOK /\ TypeOK /\ [DiagnosisNext]_diagnosisVars => ConnectorsTypeOK'
  BY ConnectorsTyped
<1>3. IInv => TypeOK
  BY DEF IInv
<1> QED BY <1>1, <1>2, <1>3, InvestigationHolds, PTL DEF DiagnosisSpec

-----------------------------------------------------------------------------
(* What the attempts of the sources are at each point of the request: all  *)
(* requests to the source that is queried are counted by the attempt.      *)
NotAsked(s) == sent[s] = 0 /\ failure[s] = "none"

RetryInv ==
    /\ RetriesAreExact
    /\ req[Focus].pc \in {"ready", "create"} =>
          attempt = 0 /\ \A s \in Telemetry : NotAsked(s)
    /\ req[Focus].pc = "query" =>
          /\ sent[Sources[req[Focus].pos]] = attempt
          /\ failure[Sources[req[Focus].pos]] = "none"
          /\ \A n \in 1..3 : n > req[Focus].pos => NotAsked(Sources[n])

(* Another step leaves the focused request alone or starts its queries. *)
Starts ==
    \/ req'[Focus].pc \notin {"ready", "create", "query"}
    \/ req'[Focus] = req[Focus]
    \/ req[Focus].pc \in {"ready", "create"} /\ req'[Focus].pos = 1

LEMMA EditOfFocus ==
    ASSUME TypeOK, NEW q \in Requests, NEW new, req' = [req EXCEPT ![q] = new],
           \/ new.pc \notin {"ready", "create", "query"}
           \/ req[q].pc \in {"ready", "create"} /\ new.pos = 1
    PROVE  Starts
<1>1. Focus \in Requests
  BY DiagnosisAssumption
<1>2. CASE q = Focus
  BY <1>1, <1>2 DEF Starts, TypeOK
<1>3. CASE q # Focus
  BY <1>1, <1>3 DEF Starts, TypeOK
<1> QED BY <1>2, <1>3

LEMMA BeginStarts ==
    ASSUME IInv, NEW q \in Requests, Begin(q) \/ CreateRun(q)
    PROVE  Starts
<1>1. req \in [Requests -> RequestState] /\ req[q] \in RequestState
  BY DEF IInv, TypeOK
<1>2. req[q].pc \in {"ready", "create"} /\ req[q].pos = 1
  BY DEF IInv, SessionOK, CallsAhead, Begin, CreateRun
<1>3. PICK new : req' = [req EXCEPT ![q] = new] /\ new.pos = req[q].pos
  <2>1. ASSUME NEW op, NEW pc, NEW seen,
               req' = [req EXCEPT ![q].op = op, ![q].pc = pc, ![q].seen = seen]
        PROVE  \E new : req' = [req EXCEPT ![q] = new] /\ new.pos = req[q].pos
    <3>1. req' = [req EXCEPT ![q] = [req[q] EXCEPT !.op = op, !.pc = pc, !.seen = seen]]
      BY <2>1, <1>1
    <3>2. [req[q] EXCEPT !.op = op, !.pc = pc, !.seen = seen].pos = req[q].pos
      BY <1>1 DEF RequestState
    <3> QED BY <3>1, <3>2
  <2>2. ASSUME NEW pc, NEW r, NEW st, NEW seen,
               req' = [req EXCEPT ![q].pc = pc, ![q].run = r, ![q].status = st, ![q].seen = seen]
        PROVE  \E new : req' = [req EXCEPT ![q] = new] /\ new.pos = req[q].pos
    <3>1. req' = [req EXCEPT ![q] =
                   [req[q] EXCEPT !.pc = pc, !.run = r, !.status = st, !.seen = seen]]
      BY <2>2, <1>1
    <3>2. [req[q] EXCEPT !.pc = pc, !.run = r, !.status = st, !.seen = seen].pos = req[q].pos
      BY <1>1 DEF RequestState
    <3> QED BY <3>1, <3>2
  <2>3. ASSUME NEW pc, NEW r, NEW st,
               req' = [req EXCEPT ![q].pc = pc, ![q].run = r, ![q].status = st]
        PROVE  \E new : req' = [req EXCEPT ![q] = new] /\ new.pos = req[q].pos
    <3>1. req' = [req EXCEPT ![q] = [req[q] EXCEPT !.pc = pc, !.run = r, !.status = st]]
      BY <2>3, <1>1
    <3>2. [req[q] EXCEPT !.pc = pc, !.run = r, !.status = st].pos = req[q].pos
      BY <1>1 DEF RequestState
    <3> QED BY <3>1, <3>2
  <2>4. CASE Begin(q)
    <3>1. CASE req' = [req EXCEPT ![q].op = "analyze", ![q].pc = "pick", ![q].seen = incident]
      BY <3>1, <2>1
    <3>2. ASSUME NEW op \in {"collect", "investigate"},
                 req' = [req EXCEPT ![q].op = op, ![q].pc = "create", ![q].seen = incident]
          PROVE  \E new : req' = [req EXCEPT ![q] = new] /\ new.pos = req[q].pos
      BY <3>2, <2>1
    <3> QED BY <2>4, <3>1, <3>2 DEF Begin
  <2>5. CASE CreateRun(q)
    <3>1. CASE req' = [req EXCEPT ![q].pc = "query", ![q].run = q, ![q].status = "running",
                                  ![q].seen = "collecting_evidence"]
      BY <3>1, <2>2
    <3>2. CASE req' = [req EXCEPT ![q].pc = "query", ![q].run = q, ![q].status = "running"]
      BY <3>2, <2>3
    <3> QED BY <2>5, <3>1, <3>2 DEF CreateRun
  <2> QED BY <2>4, <2>5
<1> QED BY <1>2, <1>3, EditOfFocus DEF IInv

(* The other steps of a request take it past its queries. *)
Passes(q) ==
    /\ req'[q].pc \notin {"ready", "create", "query"}
    /\ \A p \in Requests \ {q} : req'[p] = req[p]

LEMMA PassingStarts ==
    ASSUME NEW q \in Requests, Passes(q)
    PROVE  Starts
BY DiagnosisAssumption DEF Passes, Starts

LEMMA OthersPass ==
    ASSUME TypeOK, NEW q \in Requests,
           \/ EndCollection(q) \/ LockRun(q) \/ LockIncident(q) \/ Approve(q)
           \/ PickRun(q) \/ ReadEvidence(q) \/ RunGraph(q) \/ Commit(q) \/ Die(q)
    PROVE  Passes(q)
<1>1. req \in [Requests -> RequestState] /\ req[q] \in RequestState
  BY DEF TypeOK
<1>2. Done.pc = "done"
  BY DEF Done, Ready
<1>3. CASE EndCollection(q)
  BY <1>1, <1>2, <1>3 DEF EndCollection, Passes, RequestState
<1>4. CASE LockRun(q)
  BY <1>1, <1>4 DEF LockRun, Passes, RequestState
<1>5. CASE LockIncident(q)
  BY <1>1, <1>5 DEF LockIncident, Passes, RequestState
<1>6. CASE Approve(q)
  BY <1>1, <1>6 DEF Approve, Passes, RequestState
<1>7. CASE PickRun(q)
  <2>1. PICK r, st : req' = [req EXCEPT ![q].pc = "read", ![q].run = r, ![q].status = st]
    BY <1>7 DEF PickRun
  <2> QED BY <1>1, <2>1 DEF Passes, RequestState
<1>8. CASE ReadEvidence(q)
  <2>1. PICK E, cites : req' = [req EXCEPT ![q].pc = "lockincident", ![q].evidence = E,
                                          ![q].cites = cites]
    BY <1>8 DEF ReadEvidence
  <2> QED BY <1>1, <2>1 DEF Passes, RequestState
<1>9. CASE RunGraph(q)
  <2>1. ASSUME NEW E, NEW cites, NEW asks \in BOOLEAN,
               req' = [req EXCEPT ![q].evidence = E, ![q].cites = cites,
                                  ![q].asks = asks,
                                  ![q].pc = IF asks THEN "approve" ELSE "commit"]
        PROVE  Passes(q)
    BY <1>1, <2>1 DEF Passes, RequestState
  <2>2. ASSUME NEW E, req' = [req EXCEPT ![q].evidence = E, ![q].pc = "commit"]
        PROVE  Passes(q)
    BY <1>1, <2>2 DEF Passes, RequestState
  <2>3. PICK books \in {{}, {"runbook"}}, cites \in Answers :
            \/ \E asks \in BOOLEAN :
                  req' = [req EXCEPT ![q].evidence = EvidenceOf(q) \cup books,
                                     ![q].cites = cites, ![q].asks = asks,
                                     ![q].pc = IF asks THEN "approve" ELSE "commit"]
            \/ req' = [req EXCEPT ![q].evidence = EvidenceOf(q) \cup books,
                                  ![q].pc = "commit"]
    BY <1>9 DEF RunGraph
  <2> QED BY <2>1, <2>2, <2>3
<1>10. CASE Commit(q) \/ Die(q)
  BY <1>1, <1>2, <1>10 DEF Commit, Die, Passes, RequestState
<1> QED BY <1>3, <1>4, <1>5, <1>6, <1>7, <1>8, <1>9, <1>10

LEMMA AnotherQueryStarts ==
    ASSUME TypeOK, NEW q \in Requests \ {Focus}, QuerySource(q)
    PROVE  Starts
<1>1. \A p \in Requests \ {q} : req'[p] = req[p]
  BY DEF QuerySource, TypeOK
<1> QED BY <1>1, DiagnosisAssumption DEF Starts

LEMMA SourcesAreTelemetry ==
    /\ \A n \in 1..3 : Sources[n] \in Telemetry
    /\ Telemetry = {Sources[n] : n \in 1..3}
    /\ Sources[3] = "deployment"
BY DEF Sources, Telemetry

LEMMA RetryInvStays ==
    ASSUME RetryInv, UNCHANGED connectorVars, Starts
    PROVE  RetryInv'
<1>1. UNCHANGED <<attempt, failure, sent>>
  BY DEF connectorVars
<1>2. RetriesAreExact'
  BY <1>1 DEF RetryInv, RetriesAreExact
<1>3. \A s \in Telemetry : NotAsked(s)' <=> NotAsked(s)
  BY <1>1 DEF NotAsked
<1>4. CASE req'[Focus].pc \notin {"ready", "create", "query"}
  BY <1>2, <1>4 DEF RetryInv
<1>5. CASE req'[Focus] = req[Focus]
  BY <1>1, <1>2, <1>3, <1>5, SourcesAreTelemetry DEF RetryInv
<1>6. CASE req[Focus].pc \in {"ready", "create"} /\ req'[Focus].pos = 1
  BY <1>1, <1>2, <1>3, <1>6, SourcesAreTelemetry DEF RetryInv, NotAsked
<1> QED BY <1>4, <1>5, <1>6 DEF Starts

LEMMA RetryInvRetry ==
    ASSUME RetryInv, ConnectorsTypeOK, TypeOK, Retry
    PROVE  RetryInv'
<1>1. PICK s \in Telemetry : s = Sources[req[Focus].pos]
  BY FocusSource
<1>2. req[Focus].pc = "query" /\ TryAgain(s) /\ req' = req
  BY <1>1 DEF Retry, vars
<1>3. sent[s] = attempt /\ failure[s] = "none"
        /\ \A n \in 1..3 : n > req[Focus].pos => NotAsked(Sources[n])
  BY <1>1, <1>2 DEF RetryInv
<1>4. failure' = failure /\ attempt' = attempt + 1 /\ attempt < MaxRetries /\ GetJson(s)
  BY <1>2 DEF TryAgain, GoesOn
<1>5. sent'[s] = sent[s] + 1 /\ \A t \in Telemetry \ {s} : sent'[t] = sent[t]
  BY <1>4, CountsAreCounts
<1>6. RetriesAreExact'
  <2>1. attempt \in Nat /\ MaxRetries \in Nat
    BY ConnectorsAssumption DEF ConnectorsTypeOK
  <2>2. sent'[s] <= MaxRetries + 1
    BY <1>3, <1>4, <1>5, <2>1
  <2>3. \A t \in Telemetry \ {s} : sent'[t] = sent[t] /\ failure'[t] = failure[t]
    BY <1>4, <1>5
  <2>4. failure'[s] # "retryable"
    BY <1>3, <1>4
  <2> QED BY <2>2, <2>3, <2>4 DEF RetryInv, RetriesAreExact
<1>7. \A n \in 1..3 : n > req[Focus].pos => NotAsked(Sources[n])'
  <2>1. ASSUME NEW n \in 1..3, n > req[Focus].pos PROVE Sources[n] \in Telemetry \ {s}
    <3>1. n # req[Focus].pos /\ req[Focus].pos \in 1..3
      BY <2>1, FocusSource
    <3> QED BY <1>1, <3>1, SourceFacts, SourcesAreTelemetry
  <2> QED BY <1>2, <1>3, <1>4, <1>5, <2>1 DEF NotAsked
<1> QED BY <1>1, <1>2, <1>3, <1>4, <1>5, <1>6, <1>7 DEF RetryInv

(* A query goes on with the next source or ends. *)
LEMMA QueryGoesOn ==
    ASSUME TypeOK, QuerySource(Focus)
    PROVE  /\ req[Focus].pc = "query"
           /\ \/ req[Focus].pos < 3 /\ req'[Focus].pc = "query"
                 /\ req'[Focus].pos = req[Focus].pos + 1
              \/ req'[Focus].pc = "end"
<1>1. req \in [Requests -> RequestState] /\ req[Focus] \in RequestState /\ Focus \in Requests
  BY DiagnosisAssumption DEF TypeOK
<1>2. CASE req[Focus].pos < 3
  <2>1. req' = [req EXCEPT ![Focus].pos = req[Focus].pos + 1] /\ req[Focus].pc = "query"
    BY <1>2 DEF QuerySource
  <2> QED BY <1>1, <1>2, <2>1 DEF RequestState
<1>3. CASE ~(req[Focus].pos < 3)
  <2>1. req' = [req EXCEPT ![Focus].pc = "end"] /\ req[Focus].pc = "query"
    BY <1>3 DEF QuerySource
  <2> QED BY <1>1, <2>1 DEF RequestState
<1> QED BY <1>2, <1>3

LEMMA RetryInvQuery ==
    ASSUME RetryInv, ConnectorsTypeOK, TypeOK, Query
    PROVE  RetryInv'
<1>1. PICK s \in Telemetry : s = Sources[req[Focus].pos]
  BY FocusSource
<1>2. QuerySource(Focus) /\ (GiveUp(s) \/ Answer(s) \/ (s = "deployment" /\ ReadDeployments))
  BY <1>1 DEF Query
<1>3. req[Focus].pc = "query"
  BY <1>2, QueryGoesOn
<1>4. sent[s] = attempt /\ failure[s] = "none"
        /\ \A n \in 1..3 : n > req[Focus].pos => NotAsked(Sources[n])
  BY <1>1, <1>3 DEF RetryInv
<1>5. attempt \in 0..MaxRetries /\ MaxRetries \in 0..3
  BY ConnectorsAssumption DEF ConnectorsTypeOK
<1>6. CASE s = "deployment" /\ ReadDeployments
  <2>1. UNCHANGED <<attempt, failure, sent>>
    BY <1>6 DEF ReadDeployments
  <2>2. req[Focus].pos = 3
    <3>1. 3 \in 1..3 /\ req[Focus].pos \in 1..3
      BY FocusSource
    <3>2. Sources[req[Focus].pos] = Sources[3]
      BY <1>1, <1>6, SourcesAreTelemetry
    <3> QED BY <3>1, <3>2, SourceFacts
  <2>3. req'[Focus].pc = "end"
    BY <1>2, <2>2, QueryGoesOn
  <2> QED BY <2>1, <2>3 DEF RetryInv, RetriesAreExact
<1>7. CASE GiveUp(s) \/ Answer(s)
  <2>1. GetJson(s) /\ attempt' = 0
    BY <1>7 DEF GiveUp, Answer
  <2>2. sent'[s] = sent[s] + 1 /\ \A t \in Telemetry \ {s} : sent'[t] = sent[t]
    BY <2>1, CountsAreCounts
  <2>3. /\ \A t \in Telemetry \ {s} : failure'[t] = failure[t]
        /\ failure'[s] = "retryable" => attempt = MaxRetries
    <3>1. CASE Answer(s)
      BY <1>4, <3>1 DEF Answer
    <3>2. CASE GiveUp(s)
      <4>1. PICK kind \in {"retryable", "final"} :
                /\ kind = "retryable" => ~(attempt < MaxRetries)
                /\ failure' = [failure EXCEPT ![s] = kind]
        BY <3>2 DEF GiveUp, GoesOn
      <4>2. failure'[s] = kind /\ \A t \in Telemetry \ {s} : failure'[t] = failure[t]
        BY <4>1 DEF ConnectorsTypeOK
      <4> QED BY <1>5, <4>1, <4>2
    <3> QED BY <1>7, <3>1, <3>2
  <2>4. RetriesAreExact'
    <3>1. sent'[s] <= MaxRetries + 1 /\ (failure'[s] = "retryable" => sent'[s] = MaxRetries + 1)
      BY <1>4, <1>5, <2>2, <2>3
    <3> QED BY <2>2, <2>3, <3>1 DEF RetryInv, RetriesAreExact
  <2>5. \A n \in 1..3 : n > req[Focus].pos => NotAsked(Sources[n])'
    <3>1. ASSUME NEW n \in 1..3, n > req[Focus].pos PROVE Sources[n] \in Telemetry \ {s}
      <4>1. n # req[Focus].pos /\ req[Focus].pos \in 1..3
        BY <3>1, FocusSource
      <4> QED BY <1>1, <4>1, SourceFacts, SourcesAreTelemetry
    <3> QED BY <1>4, <2>2, <2>3, <3>1 DEF NotAsked
  <2>6. CASE req[Focus].pos < 3 /\ req'[Focus].pc = "query"
               /\ req'[Focus].pos = req[Focus].pos + 1
    <3>1. req[Focus].pos \in 1..3
      BY FocusSource
    <3>2. PICK m \in 1..3 : m = req'[Focus].pos /\ m > req[Focus].pos
      BY <2>6, <3>1
    <3>3. sent'[Sources[m]] = 0 /\ failure'[Sources[m]] = "none"
      BY <2>5, <3>2 DEF NotAsked
    <3>4. \A n \in 1..3 : n > m => NotAsked(Sources[n])'
      BY <2>5, <2>6, <3>1, <3>2
    <3> QED BY <2>1, <2>4, <2>6, <3>2, <3>3, <3>4 DEF RetryInv
  <2>7. CASE req'[Focus].pc = "end"
    BY <2>4, <2>7 DEF RetryInv
  <2> QED BY <1>2, <2>6, <2>7, QueryGoesOn
<1> QED BY <1>2, <1>6, <1>7

LEMMA OtherStepsStart ==
    ASSUME IInv, GraphInv,
           \/ RunNode \/ Persist \/ Raise \/ UNCHANGED vars
           \/ \E q \in Requests : OtherStep(q) \/ HumanStep(q)
           \/ \E q \in Requests \ {Focus} : QuerySource(q) \/ RunGraph(q)
    PROVE  Starts
<1>1. TypeOK /\ Focus \in Requests
  BY DiagnosisAssumption DEF IInv
<1>2. CASE req' = req
  BY <1>2 DEF Starts
<1>3. CASE RunNode \/ UNCHANGED vars
  BY <1>2, <1>3 DEF RunNode, vars
<1>4. CASE Persist
  BY <1>1, <1>4, PersistIsRunGraph, OthersPass, PassingStarts
<1>5. CASE Raise
  BY <1>1, <1>5, OthersPass, PassingStarts DEF Raise
<1>6. ASSUME NEW q \in Requests, OtherStep(q) PROVE Starts
  <2>1. CASE Begin(q) \/ CreateRun(q)
    BY <2>1, BeginStarts
  <2>2. CASE \/ EndCollection(q) \/ LockRun(q) \/ LockIncident(q) \/ Approve(q)
             \/ PickRun(q) \/ ReadEvidence(q) \/ Commit(q) \/ Die(q)
    BY <1>1, <2>2, OthersPass, PassingStarts
  <2> QED BY <1>6, <2>1, <2>2 DEF OtherStep, LockStep
<1>7. ASSUME NEW q \in Requests, HumanStep(q) PROVE Starts
  BY <1>2, <1>7 DEF HumanStep, RequestApproval, Decide, Execute, Move
<1>8. ASSUME NEW q \in Requests \ {Focus}, QuerySource(q) \/ RunGraph(q) PROVE Starts
  BY <1>1, <1>8, AnotherQueryStarts, OthersPass, PassingStarts
<1> QED BY <1>3, <1>4, <1>5, <1>6, <1>7, <1>8

LEMMA RetryInvNext ==
    ASSUME IInv, GraphInv, ConnectorsTypeOK, RetryInv, [DiagnosisNext]_diagnosisVars
    PROVE  RetryInv'
<1>1. TypeOK
  BY DEF IInv
<1>2. CASE Retry
  BY <1>1, <1>2, RetryInvRetry
<1>3. CASE Query
  BY <1>1, <1>3, RetryInvQuery
<1>4. CASE RunNode \/ Persist \/ Raise
  <2>1. UNCHANGED connectorVars
    BY <1>4 DEF RunNode, Persist, Raise, details
  <2> QED BY <1>4, <2>1, OtherStepsStart, RetryInvStays
<1>5. CASE /\ \/ \E q \in Requests : OtherStep(q) \/ HumanStep(q)
              \/ \E q \in Requests \ {Focus} : QuerySource(q) \/ RunGraph(q)
           /\ UNCHANGED details
  <2>1. UNCHANGED connectorVars
    BY <1>5 DEF details
  <2> QED BY <1>5, <2>1, OtherStepsStart, RetryInvStays
<1>6. CASE UNCHANGED diagnosisVars
  <2>1. UNCHANGED connectorVars /\ UNCHANGED vars
    BY <1>6 DEF diagnosisVars, details
  <2> QED BY <2>1, OtherStepsStart, RetryInvStays
<1> QED BY <1>2, <1>3, <1>4, <1>5, <1>6 DEF DiagnosisNext, FocusStep

(* For any number of retries a source is asked as often as it may be: an   *)
(* error that is stored as retryable was met that often, and no query      *)
(* exceeds its bound.                                                      *)
THEOREM RetriesAreExactAlways == DiagnosisSpec => []RetriesAreExact
<1>1. DiagnosisInit => RetryInv
  <2>1. SUFFICES ASSUME DiagnosisInit PROVE RetryInv
    OBVIOUS
  <2>2. attempt = 0 /\ \A s \in Telemetry : sent[s] = 0 /\ failure[s] = "none"
    BY <2>1 DEF DiagnosisInit, ConnectorsInit
  <2>3. req[Focus].pc = "ready"
    BY <2>1, DiagnosisAssumption DEF DiagnosisInit, Init, Ready
  <2> QED BY <2>2, <2>3, ConnectorsAssumption DEF RetryInv, RetriesAreExact, NotAsked
<1>2. IInv /\ GraphInv /\ ConnectorsTypeOK /\ RetryInv /\ [DiagnosisNext]_diagnosisVars
        => RetryInv'
  BY RetryInvNext
<1>3. RetryInv => RetriesAreExact
  BY DEF RetryInv
<1> QED
  BY <1>1, <1>2, <1>3, InvestigationHolds, GraphInvHolds, ConnectorTypes, PTL
     DEF DiagnosisSpec

-----------------------------------------------------------------------------
(* A deployment is a signal, and the mock's cause, only if one is in the   *)
(* range, which nothing changes once the request has begun.                *)
BlameInv ==
    /\ "deployed" \in says["deployment"] => InRange # {}
    /\ "deployment" \in state.signals => InRange # {}
    /\ state.selected /\ provider = "mock" =>
          InRange # {} /\ Cardinality(state.evidence_records) >= 2

SameHistory == InRange' = InRange /\ provider' = provider

LEMMA HistoryStays ==
    ASSUME UNCHANGED <<started, deployed, provider>>
    PROVE  SameHistory
BY DEF SameHistory, InRange, RangeStart

LEMMA BlameByNode ==
    ASSUME BlameInv, GraphInv, UNCHANGED connectorVars,
           (\E E \in SUBSET Telemetry : Invoke(E)) \/ GraphNext
    PROVE  BlameInv'
<1>1. says' = says /\ SameHistory
  BY HistoryStays
     DEF connectorVars, Invoke, GraphNext, RetrieveRunbooks, CorrelateEvidence,
         GenerateHypotheses, ValidateGrounding, ProposeActions, SafetyCheck, Step
<1>2. state \in IncidentAgentState
  BY DEF GraphInv, GraphTypeOK
<1>3. ASSUME state'.signals = state.signals,
             state'.evidence_records = state.evidence_records,
             state'.selected => state.selected
      PROVE  BlameInv'
  BY <1>1, <1>3 DEF BlameInv, SameHistory
<1>4. ASSUME NEW E \in SUBSET Telemetry, Invoke(E) PROVE BlameInv'
  <2>1. state'.signals = {} /\ state'.selected = FALSE
    BY <1>4 DEF Invoke, InitialState
  <2> QED BY <1>1, <2>1 DEF BlameInv, SameHistory
<1>5. CASE RetrieveRunbooks
  <2>1. PICK B : state' = [state EXCEPT !.evidence_records = B]
    BY <1>5 DEF RetrieveRunbooks
  <2>2. state'.signals = state.signals /\ state'.selected = state.selected
    BY <1>2, <2>1 DEF IncidentAgentState
  <2>3. ~state.selected
    BY <1>5 DEF GraphInv, OnTheWay, RetrieveRunbooks, Step
  <2> QED BY <1>1, <2>2, <2>3 DEF BlameInv, SameHistory
<1>6. CASE CorrelateEvidence
  <2>1. PICK S : /\ state' = [state EXCEPT !.signals = S]
                 /\ "deployment" \in S => "deployed" \in says["deployment"]
    <3> DEFINE S == (IF HasDeployment THEN {"deployment"} ELSE {})
                       \cup (IF HasErrorLogs THEN {"error_logs"} ELSE {})
                       \cup (IF HasMetricAnomaly THEN {"metric_anomaly"} ELSE {})
    <3>1. state' = [state EXCEPT !.signals = S]
      BY <1>6 DEF CorrelateEvidence
    <3>2. "deployment" \in S => HasDeployment
      OBVIOUS
    <3> HIDE DEF S
    <3> QED BY <3>1, <3>2 DEF HasDeployment
  <2>2. state'.signals = S /\ state'.selected = state.selected
          /\ state'.evidence_records = state.evidence_records
    BY <1>2, <2>1 DEF IncidentAgentState
  <2> QED BY <1>1, <2>1, <2>2 DEF BlameInv, SameHistory
<1>7. CASE GenerateHypotheses
  <2>1. PICK r \in IF provider = "mock" THEN {MockResponse} ELSE Replies :
            state' = IF r.outcome # "cause" \/ r.confidence < min_confidence
                     THEN Insufficient(state)
                     ELSE [state EXCEPT !.response = r, !.selected = TRUE]
    BY <1>7 DEF GenerateHypotheses
  <2>2. CASE r.outcome # "cause" \/ r.confidence < min_confidence
    <3>1. state' = Insufficient(state)
      BY <2>1, <2>2
    <3>2. state'.signals = state.signals /\ state'.selected = FALSE
      BY <1>2, <3>1 DEF Insufficient, IncidentAgentState
    <3> QED BY <1>1, <3>2 DEF BlameInv, SameHistory
  <2>3. CASE ~(r.outcome # "cause" \/ r.confidence < min_confidence)
    <3>1. state' = [state EXCEPT !.response = r, !.selected = TRUE]
      BY <2>1, <2>3
    <3>2. state'.signals = state.signals
            /\ state'.evidence_records = state.evidence_records
      BY <1>2, <3>1 DEF IncidentAgentState
    <3>3. ASSUME provider = "mock"
          PROVE  InRange # {} /\ Cardinality(state.evidence_records) >= 2
      <4>1. r = MockResponse /\ r.outcome = "cause"
        BY <2>1, <2>3, <3>3
      <4>2. MockConcludes
        BY <4>1 DEF MockResponse, Nothing
      <4> QED BY <4>2 DEF MockConcludes, BlameInv
    <3> QED BY <1>1, <3>2, <3>3 DEF BlameInv, SameHistory
  <2> QED BY <2>2, <2>3
<1>8. CASE ValidateGrounding
  <2>1. state' = [state EXCEPT !.status = "running"] \/ state' = Insufficient(state)
    BY <1>8 DEF ValidateGrounding
  <2> QED BY <1>2, <1>3, <2>1 DEF Insufficient, IncidentAgentState
<1>9. CASE ProposeActions
  <2>1. PICK a : state' = [state EXCEPT !.recommendation = a]
    BY <1>9 DEF ProposeActions
  <2> QED BY <1>2, <1>3, <2>1 DEF IncidentAgentState
<1>10. CASE SafetyCheck
  <2>1. \/ state' = [state EXCEPT !.status = "completed"]
        \/ state' = [state EXCEPT !.status = "failed", !.recommendation = "none"]
    BY <1>10 DEF SafetyCheck
  <2> QED BY <1>2, <1>3, <2>1 DEF IncidentAgentState
<1> QED BY <1>4, <1>5, <1>6, <1>7, <1>8, <1>9, <1>10 DEF GraphNext

LEMMA BlameNext ==
    ASSUME TypeOK, GraphInv, ConnectorsTypeOK, BlameInv, [DiagnosisNext]_diagnosisVars
    PROVE  BlameInv'
<1>1. CASE Query
  <2>1. PICK s \in Telemetry : s = Sources[req[Focus].pos]
    BY FocusSource
  <2>2. GiveUp(s) \/ Answer(s) \/ ReadDeployments
    BY <1>1, <2>1 DEF Query
  <2>3. UNCHANGED <<started, deployed>> /\ UNCHANGED graphVars
    BY <1>1, <2>2 DEF Query, GiveUp, Answer, GetJson, ReadDeployments
  <2>4. "deployed" \in says'["deployment"] => InRange # {}
    BY <2>1, <2>2, AnswerTyped, ReadDeploymentsTyped DEF BlameInv, GiveUp
  <2>5. SameHistory /\ state' = state
    BY <2>3, HistoryStays DEF graphVars
  <2> QED BY <2>4, <2>5 DEF BlameInv, SameHistory
<1>2. CASE UNCHANGED <<started, deployed, says>> /\ UNCHANGED graphVars
  <2>1. SameHistory /\ state' = state /\ says' = says
    BY <1>2, HistoryStays DEF graphVars
  <2> QED BY <2>1 DEF BlameInv, SameHistory
<1>3. CASE Retry
  BY <1>2, <1>3 DEF Retry, TryAgain, GetJson
<1>4. CASE RunNode
  <2>1. Collected \in SUBSET Telemetry
    BY DEF Collected
  <2> QED BY <1>4, <2>1, BlameByNode DEF RunNode
<1>5. CASE UNCHANGED details
  BY <1>2, <1>5 DEF details, connectorVars
<1> QED
  BY <1>1, <1>3, <1>4, <1>5, FocusOrDetails DEF FocusStep, Persist, Raise

(* For any history, range and runbooks: the mock blames a deployment only  *)
(* if one is on record in the range that was queried, beside other         *)
(* evidence; an empty history is evidence but never a deployment.          *)
THEOREM BlameIsFounded == DiagnosisSpec => []BlameNeedsDeployment
<1>1. DiagnosisInit => BlameInv
  BY DEF DiagnosisInit, ConnectorsInit, GraphInit, InitialState, BlameInv, Telemetry
<1>2. TypeOK /\ GraphInv /\ ConnectorsTypeOK /\ BlameInv /\ [DiagnosisNext]_diagnosisVars
        => BlameInv'
  BY BlameNext
<1>3. BlameInv => BlameNeedsDeployment
  BY DEF BlameInv, BlameNeedsDeployment
<1>4. IInv => TypeOK
  BY DEF IInv
<1> QED
  BY <1>1, <1>2, <1>3, <1>4, InvestigationHolds, GraphInvHolds, ConnectorTypes, PTL
     DEF DiagnosisSpec

-----------------------------------------------------------------------------
(* What is recorded.  From the end of the graph to the commit the state of *)
(* the graph and the evidence in hand stay what they are; an analysis of   *)
(* the focused request never works on a run of its own.                    *)
Fitting ==
    /\ HypothesisFits
    /\ state.recommendation \in ALLOWED_ACTIONS
    /\ KindsOf(state.evidence_records \cap Books) \subseteq req[Focus].evidence

Recorded ==
    /\ state.response.cites \subseteq Collected \cup Books
    /\ state.response.cites \cap Books # {} => Focus \in runbooks
    /\ state.recommendation \in ALLOWED_ACTIONS

RecordInv ==
    /\ req[Focus].op = "analyze" => run[Focus] = "absent"
    /\ found[Focus].run = Focus => req[Focus].pc = "done" /\ Recorded
    /\ /\ req[Focus].pc \in {"approve", "commit"}
       /\ req[Focus].op # "analyze"
       /\ req[Focus].cites # {}
       => Fitting

LeavesFocus ==
    /\ req'[Focus] = req[Focus]
    /\ found'[Focus] = found[Focus]
    /\ calls'[Focus] = calls[Focus]
    /\ runbooks \subseteq runbooks'
    /\ run[Focus] = "absent" => run'[Focus] = "absent"

LEMMA RecordLeft ==
    ASSUME RecordInv, LeavesFocus, UNCHANGED graphVars
    PROVE  RecordInv'
<1>1. state' = state /\ Collected' = Collected
  BY DEF LeavesFocus, graphVars, Collected
<1>2. Recorded => Recorded'
  BY <1>1 DEF Recorded, LeavesFocus
<1>3. Fitting => Fitting'
  BY <1>1 DEF Fitting, LeavesFocus, HypothesisFits
<1> QED BY <1>2, <1>3 DEF RecordInv, LeavesFocus

LEMMA OthersLeave ==
    ASSUME IInv, NEW q \in Requests \ {Focus},
           Begin(q) \/ LockStep(q) \/ FreeStep(q) \/ Die(q)
    PROVE  LeavesFocus
<1>1. TypeOK /\ Focus \in Requests /\ RunOK(q)
  BY DiagnosisAssumption DEF IInv, SessionOK
<1>2. req'[Focus] = req[Focus]
  <2>1. CASE Begin(q)
    BY <1>1, <2>1 DEF Begin, TypeOK
  <2>2. CASE LockStep(q)
    BY <1>1, <2>2
       DEF LockStep, CreateRun, EndCollection, LockRun, LockIncident, Approve, TypeOK
  <2>3. CASE FreeStep(q)
    BY <1>1, <2>3
       DEF FreeStep, QuerySource, PickRun, ReadEvidence, RunGraph, Commit, TypeOK
  <2>4. CASE Die(q)
    BY <1>1, <2>4 DEF Die, TypeOK
  <2> QED BY <2>1, <2>2, <2>3, <2>4
<1>3. /\ found'[Focus] = found[Focus]
      /\ calls'[Focus] = calls[Focus]
      /\ runbooks \subseteq runbooks'
  BY <1>1
     DEF Begin, LockStep, CreateRun, EndCollection, LockRun, LockIncident, Approve,
         FreeStep, QuerySource, PickRun, ReadEvidence, RunGraph, Commit, Die, records, TypeOK
<1>4. run[Focus] = "absent" => run'[Focus] = "absent"
  <2>1. CASE CreateRun(q) \/ EndCollection(q)
    <3>1. PICK st : run' = [run EXCEPT ![q] = st]
      BY <2>1 DEF CreateRun, EndCollection
    <3> QED BY <1>1, <3>1 DEF TypeOK
  <2>2. CASE Commit(q)
    <3>1. PICK r : r = req[q].run
      OBVIOUS
    <3>2. r \in Requests /\ run[r] # "absent"
      BY <1>1, <2>2, <3>1 DEF RunOK, TypeOK, RequestState, Commit, Working
    <3>3. run' = run \/ run' = [run EXCEPT ![r] = FinalStatus(q)]
      BY <2>2, <3>1 DEF Commit
    <3> QED BY <1>1, <3>2, <3>3 DEF TypeOK
  <2>3. CASE UNCHANGED run
    BY <2>3
  <2> QED
    BY <2>1, <2>2, <2>3
       DEF Begin, LockStep, LockRun, LockIncident, Approve, FreeStep, QuerySource, PickRun,
           ReadEvidence, RunGraph, Die
<1> QED BY <1>2, <1>3, <1>4 DEF LeavesFocus

LEMMA HumansLeave ==
    ASSUME IInv, NEW h \in Requests, HumanStep(h)
    PROVE  LeavesFocus
<1>1. PICK from, to, st : Move(h, from, to, st)
  BY DEF HumanStep, RequestApproval, Decide, Execute
<1> QED BY <1>1 DEF Move, LeavesFocus, records

(* Before the end of the focused request, a step that leaves it without a  *)
(* hypothesis in hand leaves nothing to be kept.                           *)
LEMMA NothingInHand ==
    ASSUME RecordInv, req[Focus].pc # "done", found'[Focus] = found[Focus],
           req'[Focus].op = "analyze" => run'[Focus] = "absent",
           \/ req'[Focus].pc \notin {"approve", "commit"}
           \/ req'[Focus].op = "analyze"
           \/ req'[Focus].cites = {}
    PROVE  RecordInv'
BY DEF RecordInv

LEMMA RecordBegin ==
    ASSUME IInv, RecordInv, Begin(Focus)
    PROVE  RecordInv'
<1>1. TypeOK /\ Focus \in Requests /\ RunOK(Focus)
  BY DiagnosisAssumption DEF IInv, SessionOK
<1>2. run'[Focus] = "absent" /\ req[Focus].pc # "done" /\ found'[Focus] = found[Focus]
  BY <1>1 DEF Begin, RunOK, records
<1>3. req'[Focus].pc \in {"create", "pick"}
  <2>1. PICK op, pc : req' = [req EXCEPT ![Focus].op = op, ![Focus].pc = pc,
                                         ![Focus].seen = incident]
                      /\ pc \in {"create", "pick"}
    BY DEF Begin
  <2> QED BY <1>1, <2>1 DEF TypeOK, RequestState
<1> QED BY <1>2, <1>3, NothingInHand

LEMMA RecordCollect ==
    ASSUME IInv, RecordInv,
           CreateRun(Focus) \/ EndCollection(Focus) \/ QuerySource(Focus)
    PROVE  RecordInv'
<1>1. TypeOK /\ Focus \in Requests /\ RunOK(Focus)
  BY DiagnosisAssumption DEF IInv, SessionOK
<1>2. req[Focus].op # "analyze" /\ req[Focus].pc # "done" /\ found'[Focus] = found[Focus]
  BY <1>1 DEF CreateRun, EndCollection, QuerySource, RunOK, records
<1>3. req'[Focus].op # "analyze" /\ req'[Focus].pc \notin {"approve", "commit"}
  <2>1. CASE CreateRun(Focus)
    BY <1>1, <1>2, <2>1 DEF CreateRun, TypeOK, RequestState
  <2>2. CASE EndCollection(Focus)
    BY <1>1, <1>2, <2>2 DEF EndCollection, TypeOK, RequestState, Done, Ready
  <2>3. CASE QuerySource(Focus)
    BY <1>1, <1>2, <2>3 DEF QuerySource, TypeOK, RequestState
  <2> QED BY <2>1, <2>2, <2>3
<1> QED BY <1>2, <1>3, NothingInHand

LEMMA RecordQuiet ==
    ASSUME IInv, RecordInv,
           \/ LockIncident(Focus) \/ LockRun(Focus)
           \/ PickRun(Focus) \/ ReadEvidence(Focus)
    PROVE  RecordInv'
<1>1. TypeOK /\ Focus \in Requests
  BY DiagnosisAssumption DEF IInv
<1>2. /\ req[Focus].pc # "done" /\ found'[Focus] = found[Focus] /\ run' = run
  BY <1>1 DEF LockIncident, LockRun, PickRun, ReadEvidence, records
<1>3. req'[Focus].op = req[Focus].op
      /\ (req'[Focus].pc \notin {"approve", "commit"} \/ req'[Focus].op = "analyze")
  <2>1. CASE LockIncident(Focus)
    BY <1>1, <2>1 DEF LockIncident, TypeOK, RequestState
  <2>2. CASE LockRun(Focus)
    BY <1>1, <2>2 DEF LockRun, TypeOK, RequestState
  <2>3. CASE PickRun(Focus)
    <3>1. PICK r, st : req' = [req EXCEPT ![Focus].pc = "read", ![Focus].run = r,
                                          ![Focus].status = st]
      BY <2>3 DEF PickRun
    <3> QED BY <1>1, <3>1 DEF TypeOK, RequestState
  <2>4. CASE ReadEvidence(Focus)
    BY <1>1, <2>4 DEF ReadEvidence, TypeOK, RequestState
  <2> QED BY <2>1, <2>2, <2>3, <2>4
<1>4. req'[Focus].op = "analyze" => run'[Focus] = "absent"
  BY <1>2, <1>3 DEF RecordInv
<1> QED BY <1>2, <1>3, <1>4, NothingInHand

LEMMA RecordDie ==
    ASSUME IInv, RecordInv, Die(Focus)
    PROVE  RecordInv'
<1>1. TypeOK /\ Focus \in Requests
  BY DiagnosisAssumption DEF IInv
<1>2. req[Focus].pc # "done" /\ found'[Focus] = found[Focus]
  BY DEF Die, records
<1>3. req'[Focus].op = "none" /\ req'[Focus].pc = "done"
  BY <1>1 DEF Die, TypeOK, Done, Ready
<1> QED BY <1>2, <1>3, NothingInHand

LEMMA RecordApprove ==
    ASSUME IInv, RecordInv, Approve(Focus), UNCHANGED graphVars
    PROVE  RecordInv'
<1>1. TypeOK /\ Focus \in Requests /\ RunOK(Focus)
  BY DiagnosisAssumption DEF IInv, SessionOK
<1>2. found'[Focus] = found[Focus] /\ calls' = calls /\ req[Focus].pc = "approve"
  BY DEF Approve, records
<1>3. /\ req'[Focus].op = req[Focus].op /\ req'[Focus].cites = req[Focus].cites
      /\ req'[Focus].evidence = req[Focus].evidence
  BY <1>1 DEF Approve, TypeOK, RequestState
<1>4. req[Focus].op # "analyze"
  BY <1>1, <1>2 DEF RunOK
<1>5. state' = state /\ Collected' = Collected
  BY <1>2 DEF graphVars, Collected
<1>6. Fitting => Fitting'
  BY <1>3, <1>5 DEF Fitting, HypothesisFits
<1> QED BY <1>2, <1>3, <1>4, <1>6 DEF RecordInv

LEMMA RecordPersist ==
    ASSUME IInv, GraphInv, RecordInv, Persist
    PROVE  RecordInv'
<1>1. TypeOK /\ Focus \in Requests /\ RunOK(Focus) /\ EvidenceInHand(Focus)
  BY DiagnosisAssumption DEF IInv, SessionOK
<1> DEFINE E == EvidenceOf(Focus) \cup KindsOf(state.evidence_records \cap Books)
<1>2. /\ req[Focus].pc = "graph" /\ found' = found /\ calls' = calls /\ run' = run
      /\ req[Focus].op # "analyze" /\ req[Focus].cites = {}
  BY <1>1 DEF Persist, records, RunOK, EvidenceInHand
<1>3. state' = state /\ Collected' = Collected
  BY <1>2 DEF Persist, details, graphVars, Collected
<1>4. CASE ~state.selected
  <2>1. req' = [req EXCEPT ![Focus].evidence = E, ![Focus].pc = "commit"]
    BY <1>4 DEF Persist
  <2> HIDE DEF E
  <2>2. req'[Focus].op = req[Focus].op /\ req'[Focus].cites = {}
    BY <1>1, <1>2, <2>1 DEF TypeOK, RequestState
  <2> QED BY <1>2, <2>2, NothingInHand
<1>5. CASE state.selected
  <2>1. HypothesisFits /\ node = "end"
    BY <1>5 DEF Persist
  <2>2. PICK asks, pc, cites :
           req' = [req EXCEPT ![Focus].evidence = E, ![Focus].cites = cites,
                              ![Focus].asks = asks, ![Focus].pc = pc]
    BY <1>5 DEF Persist
  <2> HIDE DEF E
  <2>3. req'[Focus].op # "analyze" /\ req'[Focus].evidence = E
    BY <1>1, <1>2, <2>2 DEF TypeOK, RequestState
  <2>4. state.recommendation \in ALLOWED_ACTIONS
    BY <1>5, <2>1 DEF GraphInv, OutcomeIsSafe
  <2>5. KindsOf(state.evidence_records \cap Books) \subseteq req'[Focus].evidence
    BY <2>3 DEF E
  <2>6. Fitting'
    BY <1>3, <2>1, <2>4, <2>5 DEF Fitting, HypothesisFits, KindsOf, KindOf
  <2> QED BY <1>2, <2>3, <2>6 DEF RecordInv
<1> QED BY <1>4, <1>5

LEMMA RecordCommit ==
    ASSUME IInv, RecordInv, Commit(Focus), UNCHANGED graphVars
    PROVE  RecordInv'
<1>1. TypeOK /\ Focus \in Requests /\ RunOK(Focus)
  BY DiagnosisAssumption DEF IInv, SessionOK
<1>2. PICK r : r = req[Focus].run
  OBVIOUS
<1>3. req'[Focus].op = "none" /\ req'[Focus].pc = "done" /\ req[Focus].pc = "commit"
  BY <1>1 DEF Commit, TypeOK, Done, Ready
<1>4. state' = state /\ Collected' = Collected
  BY DEF Commit, graphVars, Collected
<1>5. found[Focus].run # Focus
  BY <1>3 DEF RecordInv
<1>6. CASE req[Focus].cites = {}
  <2>1. found' = found
    BY <1>6 DEF Commit
  <2> QED BY <1>3, <1>5, <2>1 DEF RecordInv
<1>7. CASE req[Focus].cites # {} /\ req[Focus].op = "analyze"
  <2>1. r # Focus
    BY <1>1, <1>2, <1>3, <1>7, RequestsAssumption DEF RecordInv, RunOK, Working
  <2>2. found'[Focus].run = r
    BY <1>1, <1>2, <1>7 DEF Commit, TypeOK
  <2> QED BY <1>3, <2>1, <2>2 DEF RecordInv
<1>8. CASE req[Focus].cites # {} /\ req[Focus].op # "analyze"
  <2>1. r = Focus /\ Fitting
    BY <1>1, <1>2, <1>3, <1>8 DEF RecordInv, RunOK, Working
  <2>2. "runbook" \in req[Focus].evidence => Focus \in runbooks'
    BY <1>2, <2>1 DEF Commit
  <2>3. Collected \cap Books = {}
    BY GraphAssumption DEF Collected
  <2>4. ASSUME NEW e \in state.response.cites, e \in Books
        PROVE  Focus \in runbooks'
    <3>1. e \in state.evidence_records \cap Books
      BY <2>1, <2>3, <2>4 DEF Fitting, HypothesisFits
    <3>2. "runbook" \in KindsOf(state.evidence_records \cap Books)
      BY <2>4, <3>1 DEF KindsOf, KindOf
    <3> QED BY <2>1, <2>2, <3>2 DEF Fitting
  <2>5. Recorded'
    BY <1>4, <2>1, <2>4 DEF Recorded, Fitting, HypothesisFits
  <2> QED BY <1>3, <2>5 DEF RecordInv
<1> QED BY <1>6, <1>7, <1>8

LEMMA RecordNext ==
    ASSUME IInv, GraphInv, RecordInv, [DiagnosisNext]_diagnosisVars
    PROVE  RecordInv'
<1>1. Focus \in Requests
  BY DiagnosisAssumption
<1>2. UNCHANGED details => UNCHANGED graphVars
  BY DEF details
<1>3. CASE UNCHANGED vars /\ UNCHANGED graphVars
  <2>1. LeavesFocus
    BY <1>3 DEF vars, records, LeavesFocus
  <2> QED BY <1>3, <2>1, RecordLeft
<1>4. CASE Retry
  BY <1>3, <1>4 DEF Retry
<1>5. CASE Query
  BY <1>5, RecordCollect DEF Query
<1>6. CASE RunNode
  <2>1. req' = req /\ found' = found /\ run' = run /\ req[Focus].pc = "graph"
    BY <1>6 DEF RunNode, vars, records
  <2> QED BY <2>1, NothingInHand DEF RecordInv
<1>7. CASE Persist
  BY <1>7, RecordPersist
<1>8. CASE Raise
  BY <1>8, RecordDie DEF Raise
<1>9. ASSUME NEW q \in Requests, OtherStep(q), UNCHANGED details
      PROVE  RecordInv'
  <2>1. CASE q = Focus
    BY <1>2, <1>9, <2>1, RecordBegin, RecordCollect, RecordQuiet, RecordApprove,
       RecordCommit, RecordDie DEF OtherStep, LockStep
  <2>2. CASE q # Focus
    <3>1. LeavesFocus
      BY <1>9, <2>2, OthersLeave DEF OtherStep, FreeStep
    <3> QED BY <1>2, <1>9, <3>1, RecordLeft
  <2> QED BY <2>1, <2>2
<1>10. ASSUME NEW q \in Requests, HumanStep(q), UNCHANGED details
       PROVE  RecordInv'
  <2>1. LeavesFocus
    BY <1>10, HumansLeave
  <2> QED BY <1>2, <1>10, <2>1, RecordLeft
<1>11. ASSUME NEW q \in Requests \ {Focus}, QuerySource(q) \/ RunGraph(q), UNCHANGED details
       PROVE  RecordInv'
  <2>1. LeavesFocus
    BY <1>11, OthersLeave DEF FreeStep
  <2> QED BY <1>2, <1>11, <2>1, RecordLeft
<1>12. CASE UNCHANGED diagnosisVars
  BY <1>2, <1>3, <1>12 DEF diagnosisVars
<1> QED
  BY <1>4, <1>5, <1>6, <1>7, <1>8, <1>9, <1>10, <1>11, <1>12 DEF DiagnosisNext, FocusStep

(* Whatever the model answered and whatever the others did between the     *)
(* graph and the commit: a recommendation of the focused request is on     *)
(* record only with a hypothesis whose citations are all on record, and    *)
(* is of the allow-list.                                                   *)
THEOREM RecordedOutcomesAreSafe == DiagnosisSpec => []RecordedOutcomeIsSafe
<1>1. DiagnosisInit => RecordInv
  BY RequestsAssumption, DiagnosisAssumption
     DEF DiagnosisInit, Init, RecordInv, NoHypothesis, Ready
<1>2. IInv /\ GraphInv /\ RecordInv /\ [DiagnosisNext]_diagnosisVars => RecordInv'
  BY RecordNext
<1>3. RecordInv => RecordedOutcomeIsSafe
  BY DEF RecordInv, Recorded, RecordedOutcomeIsSafe
<1> QED BY <1>1, <1>2, <1>3, InvestigationHolds, GraphInvHolds, PTL DEF DiagnosisSpec

(* With its connectors, its retries and its graph looked at closely, what  *)
(* the request leaves behind is still a case file: no failure of a source  *)
(* and no answer of the model makes it enter a part of a commit.           *)
THEOREM DiagnosisImplementsCaseFile == DiagnosisSpec => ImplementsCaseFile
BY DiagnosisImplements, InvestigationImplementsCaseFile, PTL DEF ImplementsInvestigation

=============================================================================
