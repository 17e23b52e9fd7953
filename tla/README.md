# A TLA+ model of the AI Incident Response Copilot

The program receives alerts, correlates them into incidents, collects evidence
from Prometheus, Loki and a deployment table, lets an agent graph state a
hypothesis and recommend an action, puts that action to a human, and carries
out the approved one (a rollback of a demo service). This directory holds
TLA+ modules translated from that code, the TLC configurations that check them,
and proofs that TLAPS checks. Source paths below are relative to the root of
the repository.

## 1. Inventory

The API is a FastAPI application. Each request runs one coroutine with one
SQLAlchemy `AsyncSession` (`apps/api/app/core/db.py`); every `await` lets another
request run, and several processes may serve the API. The components share
state only through PostgreSQL (READ COMMITTED, the default) and, for the
remediation, through the demo service.

| Component (source) | State | Operations | Interacts with | What is hard | What makes it correct |
|---|---|---|---|---|---|
| Approval gate (`services/approval_service.py`, `api/v1/approvals.py`) | `approvals` rows, `incidents.status` | request, decide | incidents by row, remediation by row, orchestrator by call | two requests that read the same row, expiry between two steps, stale read that decides what is written | asked once, decided once and in time; incident status matches an approval |
| Remediation (`services/remediation_service.py`) | `approvals.execution_*`, incident status, `resolved_at` | execute | demo service over HTTP | answer lost after the effect, failure raised before the commit, double execution, lock order | nothing acts without approval; a recorded success is real |
| Demo service (`services/demo-checkout-service/main.py`) | fault mode, version, metrics | fault-mode, health, checkout | remediation, simulator, Prometheus, Loki | mode changed behind a remediation's back | health reports the mode in force |
| Simulator (`api/v1/simulator.py`) | none of its own; deployments | scenarios, recover | demo service, `deployments` | call succeeds, commit fails | scenario and deployment record agree |
| Alert ingestion (`services/incident_service.py`, `api/v1/alerts.py`) | `alerts`, `incidents`, `incident_alerts`, `services` | ingest one alert | approval gate through incident status | duplicate deliveries at once, stale severity, two first alerts, incident closed meanwhile | stored once; joined only where the correlation rule allows; severity is one of its alerts' |
| Alertmanager webhook (`api/v1/integrations.py`) | none | batch of alerts, one transaction each | ingestion | batch dies half way and is sent again | every alert of a batch is stored in the end |
| Evidence collection (`services/collection_service.py`, `investigation_service.py`) | `agent_runs`, `tool_calls`, `evidence`, incident status | collect | connectors | commit and rollback per source, run left RUNNING, a range that begins at the start of the incident or is invalid | a failing source loses nothing of the others; the run's end matches its evidence |
| Connectors (`packages/connectors/`) | the attempt of a call | get_json with retries, query of each source | Prometheus, Loki, database | the retry loop at its bound, errors that are not retried | exactly `max_retries` + 1 attempts before a retryable error is reported |
| Orchestrator (`services/orchestrator_service.py`) | run, hypothesis, recommendation, evidence, approval | investigate | collection, agent graph, approval gate | several commits inside one request, failure between them | a run COMPLETED has a grounded hypothesis; one without evidence proposes nothing |
| Rule-based analysis (`services/analysis_service.py`) | hypotheses, run status | analyze | evidence | runs beside an investigation of the same incident | a hypothesis cites evidence of its own incident |
| Agent graph (`apps/worker/agent/graph.py`, `nodes/`) | graph state of one run | six nodes in a row: retrieve runbooks, correlate, hypothesise, validate, propose, check; the router ends it after a failed validation | LLM provider, runbooks | any answer of a model, a missing provider | what leaves it cites existing evidence and is allow-listed |
| LLM providers (`apps/worker/agent/providers/`) | none | mock, Anthropic, OpenAI | agent graph | no key, an unknown name, a malformed answer | the mock concludes from what is on record only |
| Runbooks (`apps/worker/agent/runbooks.py`, `runbooks/`) | parsed files | retrieve | agent graph | their text counts as evidence | at most two |
| Backend policy (`policies/safety.py`) | none | verify_backend_approval | none outside the tests | drifts from the checks of execute_approval | the same verdict as the gate, or a stated difference |
| Schemas, settings, logging, metrics, migrations, scripts, web | none that the properties tell apart | | | | |

`PROJECT.json` lists each component with its status and each hazard at its line.

## 2. Modules

| Module | What it is |
|---|---|
| `ApprovalGate` | request, decide and execute over one database and the demo service |
| `ApprovalPolicy` | the abstract promise of the gate: proposed, pending, approved or rejected, executed |
| `ApprovalRaces` | the gate with a record of overlapping requests, and its refinement of the policy |
| `AlertIngestion` | ingestion of single alerts and of batches, one transaction per alert |
| `AlertRaces` | ingestion with a record of what may split an incident in two, and its refinement of the ledger |
| `IncidentLedger` | the abstract promise of ingestion: an alert enters once, with its incident and severity |
| `Investigation` | collection, investigation and analysis of one incident by several requests, beside the gate |
| `CaseFile` | the abstract promise of those handlers: what a commit enters together, and that nothing is taken out |
| `Connectors` | the queries of one collection: HTTP attempts, ranges, the deployment table |
| `AgentGraph` | the six nodes, the mock, and any answer of a model |
| `Diagnosis` | one request of `Investigation` with its connectors and its graph inside; refines `Investigation` |
| `MCApprovalGate`, `MCApprovalRaces`, `MCAlertIngestion`, `MCInvestigation`, `MCDiagnosis` | constants for TLC |
| `ApprovalGate_proofs`, `ApprovalRaces_proofs`, `AlertIngestion_proofs`, `AlertRaces_proofs`, `Investigation_proofs`, `CaseFile_proofs`, `Diagnosis_proofs` | theorems and their proofs |

There are four refinements: `ApprovalGate` of `ApprovalPolicy`, `AlertIngestion` of
`IncidentLedger`, `Investigation` of `CaseFile`, and `Diagnosis` of `Investigation`.
The composition is by shared variables: `Diagnosis` extends `Investigation` and
`AgentGraph`, which extends `Connectors`; `Investigation` holds the part of the
gate that the handlers of an incident meet.

### ApprovalGate

`sess[s]` is a request: `op` the handler, `pc` the point before its next
database statement or HTTP call, and `seen`, `decision`, `at`, `outcome` what it has
read or computed and will never read again. `approval` and `incident` hold what is
committed; `lockA` and `lockI` say which session has written a row and not
committed yet. A handler is cut where it awaits:

| Code | Actions |
|---|---|
| `request_approval` | `BeginRequest` (guards, SELECT), `InsertApproval` (flush, UNIQUE on `recommendation_id`), `LoadIncident`, `FlushIncident`, `Commit` |
| `decide_approval` | `BeginDecide` (guards), `UpdateApproval` (autoflush before the SELECT of the incident), `LoadIncident`, `FlushIncident`, `Commit` |
| `execute_approval` | `BeginExecute` (guards), `LoadIncident`, `PostFaultMode`, `CheckHealth`, `FlushIncident`, `RecordExecution`, then `Commit` or `RollBackFailure` |
| `get_session` | `EndSession`, `Abort` (process, client or database fails) |
| `_apply_fault_mode` | `ApplyFaultMode` |
| PostgreSQL | `WaitsFor`, `BreakDeadlock`, the `lockA[r] = None` guards |

`NoStandstill` says what `WaitsFor` can look like: take any set of requests in flight;
one of them can go on, waits for a request outside of the set, or is one of two
that wait for each other. `BreakDeadlock` looks for pairs only, and this says that pairs
are all there is to look for.

Three facts about SQLAlchemy shape it. An attribute that is set to the value it
was read with is not written, so the incident update is conditional on the stale
`seen` (`WritesStatus`). The flush orders mappers by name, so execute locks the
incident before the approval, while decide, whose approval was flushed earlier
by an autoflush, locks them the other way round: the deadlock is real and
`BreakDeadlock` is what PostgreSQL does about it. And an UPDATE names the row by its
id alone, so it overwrites whatever is there by then.

A handler whose guard fails answers 400 and changes nothing; the Begin action is
then disabled. The action digest is left out: nothing in the code rewrites a
column it covers, so both of its checks succeed in every state.

`ApprovalRaces` adds `raced`, the recommendations about which two requests were
in flight at once. Of those the gate keeps what the invariants of `ApprovalGate`
say and no more, as the findings show. Of the others it keeps all that
`ApprovalPolicy` says, whatever requests about other recommendations of the same
incident do: `ImplementsPolicy` maps `approval` to `proposed`, `pending`,
`approved`, `rejected`, `executed`, or `overlapped` for a raced one. An attempt
whose record was lost leaves the recommendation approved, so the policy allows
to act again before a success is recorded, and never after it.

### AlertIngestion

`req[q]` is a request with a batch (`POST /alerts` is a batch of one), `pos` the
alert it is at, `target` the incident that alert joins or opens, `seen` the
severity that was read. An incident is named by the alert that opened it.
`nameKey`, `idKey` and `rowLock` are uncommitted keys and row locks. A batch
stands for the firing alerts of a notification; the webhook skips the others.

| Code | Actions |
|---|---|
| `receive_alertmanager_webhook` | `Receive`, `Advance`, `Answer` |
| `ingest_alert` | `LookUpExternalId`, `InsertAlert`, `Correlate`, `FlushEscalation`, `Commit` |
| `get_or_create_service` | `FindService`, `CreateService` |
| `find_correlated_incident` | `Correlates`, `Latest` |
| `_escalate_severity` | `Escalates` |
| `get_session`, Alertmanager | `Fail`, `Crash`: the session ends, an Alertmanager batch starts over |
| the gate's writes of `incidents.status` | `ChangeStatus` |

An `IntegrityError` is not handled by the route: the request ends with 500, and
Alertmanager sends the whole batch again. An alert with no external id is taken
to be delivered once (`AnonymousAssumption`): nothing in the code could tell a
second delivery from a new alert.

`WaitsFor` are the three places where a session waits for what another has written:
the name of a service, the key of an alert, the row of an incident.
`NoCircularWait` says that they never wait in a circle, not even two of them; there is no
`BreakDeadlock` here, and none is needed.

`AlertRaces` adds three histories: `together`, pairs of alerts that were both about
to open an incident (`Opening`), `everClosed`, and `overlapping`, pairs of like
alerts that were both between their correlation and their commit (`Ingesting`). The
first two name the only ways in which alerts that belong together open two
incidents.

`IncidentLedger` is ingestion without requests, locks and retries. Its step is a
commit: an alert that is new (its key too) joins an incident that has an alert
like it, and raises its severity to the greater of both, or opens one if there is
none to join. What overlapping requests disturb is a parameter of its steps and
stated there: an alert may open an incident beside the alert of a pair in
`overlapping`, and an incident in `contested` (the `raced` of `AlertIngestion`) may
keep or get the severity of one of two escalations. `ImplementsLedger` maps the
rest one to one. An alert may join an incident that was closed after it was
correlated; the ledger lets it join any incident that has a like alert.

### Investigation

`req[q]` is a request: `op` its handler, `run` the agent run it works on, `status`
and `seen` the run and incident status as they were read, `put` the incident
status it has flushed, `evidence`, `cites` and `asks` what it is going to commit.
`run`, `calls`, `runbooks`, `found`, `gate` and `incident` are committed. A run is
named by the request that created it and a hypothesis, with its recommendation,
by the request that recorded it, because no handler makes two of either.

| Code | Actions |
|---|---|
| `collect_incident_evidence` | `Begin`, `CreateRun`, `QuerySource` (one commit per source), `EndCollection` |
| `investigate_incident` | those, then `LockIncident`, `LockRun`, `RunGraph`, `Approve`, `Commit` |
| `analyze_incident` | `Begin`, `PickRun`, `ReadEvidence`, `LockIncident`, `LockRun`, `Commit` |
| `get_session` | `Die`: the transaction rolls back, what was committed before stays |
| the gate | `RequestApproval`, `Decide`, `Execute`, one request at a time (`Move`) |

The session keeps its objects across commits (`expire_on_commit=False`), so the
incident status tested at the end of an investigation is the one of its start.
The flush orders mappers by name, incident before run. No transaction is open
when a connector is called, so the `rollback` of a `ConnectorError` undoes nothing
and the failure of a source costs only that source. The deployment connector
reads a table and raises no `ConnectorError`: a collection that ends has evidence,
and `insufficient_evidence` comes from the graph or the analysis. The agent graph
is one step here, `RunGraph`: any answer of the model, any runbook result, and
the rule of `validate_grounding` between them and the commit. One
incident is enough: handlers of two incidents share no row.

Requests wait for the row of the incident and of a run (`WaitsFor`). `NoStandstill`
is that of the gate; `BreakDeadlock` is one of the ways to `Die`, and stands in the
fairness only.

`CaseFile` is the file of one incident without requests: a run is opened, collects
evidence and ends; a hypothesis is entered once, in one step with its runbook evidence,
the end of its run and the approval that is asked for; a recommendation moves
through its stages. The status of the incident changes only in these steps, to the value
that belongs to the step. `ImplementsCaseFile` maps the evidence of a run to what its
tool calls and runbooks make of it (`EvidenceOf`), everything else to itself.

The gate's `Init` takes an incident that is being analyzed, and
`IncidentStatusIsBacked` speaks of the requests of the gate only; that an
investigation does not leave a gate status without an approval is
`GateStatusIsBacked` here.

### Connectors

`started` and `deployed` are the incident's start and the deployments on record;
`attempt` is the loop variable of `get_json`; `failure` and `says` are what a
source ends with; `sent` counts the HTTP requests.

| Code | Actions |
|---|---|
| `get_json` | `TryAgain` (a retryable error before the last attempt), `GiveUp` (at the last one, or any other error), `Answer` |
| the connectors' checks of their range | `RangeIsValid`, a guard; where it fails the handler raises (`Raise`) |
| `PostgresDeploymentConnector.query` | `ReadDeployments`, over `RangeStart`..`End` |

Of an answer the texts are kept that `correlate_evidence` looks for. What
Prometheus answers is summed up as a number of series and holds none of them.
A deployment query that finds nothing still leaves a record of kind deployment,
with no text in it: that is what `BlameNeedsDeployment` is about.

### AgentGraph

`node` is the node that runs next and `state` the `IncidentAgentState` it gets.
`provider` is what `build_provider` makes of the settings.

| Code | Actions |
|---|---|
| `compiled_investigation_graph.ainvoke` | `Invoke` |
| `retrieve_runbooks`, `RunbookRetriever.retrieve` | `RetrieveRunbooks`: at most two, those of the service among them if they fit |
| `correlate_evidence` | `CorrelateEvidence`: the three signals |
| `generate_hypotheses` | `GenerateHypotheses`: the mock's answer is a function of the records (`MockConcludes`), a model's any member of `Replies`, and without a provider the handler raises |
| `validate_grounding`, the router | `ValidateGrounding`: on to the proposal, or to the end |
| `propose_actions`, `safety_check` | `ProposeActions`, `SafetyCheck` |

The graph is a line: an answer that is not grounded ends it and is not asked
again. A reply says whether the provider raises, whether there is a root cause,
the confidence, what is cited (an id that does not exist is `"stranger"`), the
action, and whether the schema accepts the rest.

### Diagnosis

`Focus` is one request of `Investigation`. Its `QuerySource` is split into attempts
(`Retry`, then `Query`, which commits), and its `RunGraph` into nodes (`RunNode`)
and `Persist`, which is the part of `investigate_incident` after the graph: the
runbook records it cites or not, the hypothesis, the recommendation and
`auto_request_approval`. `Raise` is an error that the handler runs into itself: an
invalid range, no provider, an answer that `HypothesisCreate` or
`record_hypothesis` refuses. All other steps, and all other requests, are those of
`Investigation` (`OtherStep`, `HumanStep`). `ImplementsInvestigation` is the
specification of `Investigation` over the same variables; it needs no mapping, and
says that what `Investigation` leaves open is left open widely enough.

## 3. Runs

| Run | Question | Result |
|---|---|---|
| `gate_concurrent` | what does the gate keep under every interleaving of two requests about three recommendations of two incidents? | approval before action, real successes, backed incident status, decisions in time, requests never replace an approval; it implements `ApprovalPolicy` where no two requests overlapped; at most two requests wait for each other; a resolved incident is reopened only for something not carried out |
| `gate_progress` | does every request end? | yes, with `BreakDeadlock` |
| `gate_expired` | is an expired approval executed? | yes: `docs/SAFETY.md:51` says it is not |
| `gate_failure` | is a failed execution recorded? | no: the exception leaves the route before the commit |
| `gate_decided_twice` | can a decision be overwritten? | yes, by a second one that also read pending |
| `gate_executed_twice` | can a rollback be carried out again after its success is recorded? | yes, by a second execution that also read it unexecuted |
| `ingest_concurrent` | two overlapping notifications and a POST at once, with a crash, retries and incidents that close and reopen | stored once, sound correlation, backed severity, a second incident only by a race or after a close, every batch stored in the end; no circle of waits; it implements `IncidentLedger` |
| `ingest_severity` | does severity only ratchet upward? | no: a stale escalation lowers it |
| `investigate_concurrent` | two requests at once on one incident, each a collection, an investigation or an analysis, with failing sources, any answer and dying handlers | hypotheses grounded in their own run, approvals and gate statuses backed, finished runs stay finished, every run ends unless its creator died; no circle of waits of more than two; it implements `CaseFile` |
| `investigate_lifecycle` | does an incident become ANALYZING only out of NEW or COLLECTING_EVIDENCE? | no: a late handler sets it back from any status |
| `diagnosis` | one request with every attempt and every node, failing sources, the mock, no provider, and answers that are wrong in each way the graph looks for | retries exact at their bound, only grounded and allow-listed outcomes, in the graph and on record, the mock blames only a deployment that is there, and the request ends; it implements `Investigation` |
| `regression_found` | is a deployment shortly before the incident found? | no: the range starts at the incident's start, whatever the lookback |

The seven violations are the findings: four of the gate, one each of ingestion,
investigation and diagnosis. `gate_expired` and `gate_failure` have one session,
`regression_found` one request; the other four need two at once. The tests under
`apps/api/tests` drive the API with one client that awaits each answer, so they
cannot see those four.

Bounds. In the gate two sessions are the least that make requests meet at an
approval, at an incident and crosswise at both. The three recommendations of
`gate_concurrent` are two rollbacks of one incident and an action of the other
incident that is not allow-listed; `gate_progress` has a rollback beside an
allow-listed action that is not implemented. `TTL = 0` and `MaxTime = 1` give the
instant of expiry and one after it. `performed` counts to 2, which stands for more.
An instance with `TTL = 1`, `MaxTime = 2` without symmetry (11.6 million states) and
one with three sessions were run by hand on the invariants and satisfy them.
Symmetry is used where the recommendations share incident and action; not in the
liveness run.

Ingestion has three requests, five alerts around a window of length 1 (on both
sides of it, of two types, all severities, one alert twice and one without an id)
and `MaxCrashes = 1`; an instance with four requests and six alerts was run by hand.

The investigation has two requests, each any of the three handlers, so that every
pair of handlers meets; the answers of the model are `{log}`, which may or may not
be evidence of the run, and `{metric, runbook}`, which is grounded only if a
runbook was retrieved as well. With three requests an investigation that flushed
its run first and wants the incident for the approval, and an analysis that holds
the incident and wants the run, wait for each other, if a third request moved the
incident on between their two reads of it. An instance with three requests (an
analysis, an investigation, and either; 770 000 states) was run by hand: it reaches
that pair and satisfies `NoStandstill`. In `investigate_concurrent`, with two, no
pair arises, and `NoStandstill` says there that a waiter's holder can go on. Both it and
the invariants are proved for any number of requests.

`diagnosis` has the one request that is looked at: what others do to it is in
`investigate_concurrent`, and that the detailed request does nothing else beside
them is proved. Two retries are the default of the settings. Starts and
deployments at 0 to 3 for a request at 2 with a lookback of 1 put both on every side of
the range and make it invalid once. The runbooks are the two of the repository, of
which one names the database; `OwnBooks = {}` lets any of them be retrieved, or none.
The thresholds 50 and 90 lie on both sides of the mock's confidence with two or
three records. The nine replies are right, cite an id that does not exist or nothing, are
below every threshold, malformed, out of the allow-list, without an action,
without a cause, or raise. `regression_found` has `OwnBooks = Books`, which is the
service the runbooks are written for.

`CHECK_DEADLOCK FALSE` stands in every configuration because the systems really
stop: a gate whose approvals are all decided and executed and whose clock is at its
bound, a set of requests that are all answered. That a *request* is never stuck is
`RequestsEnd`, `BatchIsStored`, `RunEnds` and `DiagnosisEnds`.

Fairness is that of the scheduling. Steps that wait for nothing are weakly fair:
asyncio runs what is ready, and a call of the demo service ends by
`connector_timeout_seconds`. Steps that wait for a row or a key are strongly
fair: PostgreSQL hands it to its waiters in turn, so a session that finds it free
again and again gets it. Alertmanager's repetition is the `Receive` of a retried
request. `FreeStep` and `LockStep` of `Investigation` are split by the same
rule: connectors and the model call end by their timeouts and a bounded number
of retries. `FairDiagnosisSpec` says the same of the focused request:
weakly fair attempts, nodes and commits, strongly fair row locks. `BreakDeadlock` is
weakly fair: PostgreSQL looks for a circle after `deadlock_timeout` and ends one of
its transactions. `RunEnds`
excepts runs whose creator died, since nothing in the code takes up a run that was
left RUNNING. Beginning a request, aborting it, a crash, the simulator and the
clock have no fairness. Crashes are finitely many (`MaxCrashes`): with infinitely many no
batch need ever be stored.

## 4. Proofs

TLAPS checks the theorems below for every value of the constants: any sets of
recommendations, incidents, sessions, alerts and requests, any batches, windows,
answers of the model, TTL and clock bound. They use the assumptions
`ConstantsAssumption`, `IngestionAssumption`, `AnonymousAssumption`,
`RequestsAssumption`, `ConnectorsAssumption` (between 0 and 3 retries, as the settings
allow), `GraphAssumption` (finitely many runbooks, distinct from the sources; answers of
the model are answers) and `DiagnosisAssumption` (`Investigation` is given every answer,
since what the graph lets through is not known beforehand), which TLC evaluates in
the runs.

| Theorem | States |
|---|---|
| `TypeCorrect`, `IngestionTypeCorrect`, `InvestigationTypes` | `[]TypeOK` |
| `ConnectorTypes`, `GraphTypes` | `[]ConnectorsTypeOK`, `[]GraphTypeOK` |
| `ApprovalPrecedesAction` | `[]ApprovedBeforeAction` |
| `SuccessIsReal` | `[]RecordedSuccessIsReal` |
| `DecisionsAreInTime` | `[]DecidedInTime` |
| `IncidentsAreBacked` | `[]IncidentStatusIsBacked` |
| `RequestsKeepDecisions` | `RequestKeepsDecision`, an action property |
| `AlertsAreStoredOnce` | `[]StoredOnce` |
| `CorrelationsAreSound` | `[]CorrelationIsSound` |
| `SeveritiesAreBacked` | `[]SeverityIsBacked` |
| `UnracedSeveritiesAreMaximal` | `[]UnracedSeverityIsMaximal` |
| `HypothesesAreGrounded` | `[]HypothesisIsGrounded` |
| `ApprovalsAreBacked` | `[]ApprovalIsBacked` |
| `GateStatusesAreBacked` | `[]GateStatusIsBacked` |
| `RunsStayFinishedAlways` | `RunsStayFinished`, an action property |
| `GateImplementsPolicy` | `ImplementsPolicy`, a refinement |
| `ReopenedForAnotherAlways` | `ReopenedForAnother`, an action property |
| `SecondIncidentsAreExcused` | `[]SecondIncidentIsExcused` |
| `IngestionImplementsLedger` | `ImplementsLedger`, a refinement |
| `InvestigationImplementsCaseFile` | `ImplementsCaseFile`, a refinement |
| `NoRequestsStandStill`, `NoInvestigationsStandStill` | `[]NoStandstill` of the gate and of the investigation |
| `NoWaitsInACircle` | `[]NoCircularWait` |
| `DiagnosisImplements` | `ImplementsInvestigation`, a refinement |
| `DiagnosisImplementsCaseFile` | `ImplementsCaseFile`, of the detailed request |
| `InvestigationHolds` | the invariant of `Investigation`, of the detailed request |
| `RetriesAreExactAlways` | `[]RetriesAreExact` |
| `OutcomesAreSafe` | `[]OutcomeIsSafe` |
| `BlameIsFounded` | `[]BlameNeedsDeployment` |
| `RecordedOutcomesAreSafe` | `[]RecordedOutcomeIsSafe` |

None of these is inductive alone, because what a session commits depends on
what it read long before. The invariants proved add, for each session and each
point of its handler, what is still true of the stale copy there: which locks it
holds, that the approval it executes was approved at some time (though perhaps no
longer), that a success it carries was performed and verified, that an incident
whose write it skips is backed by some approval, namely the one the session holds
the lock of. In ingestion they are `KeyOwned` (a session beyond its insert owns the
key of its external id, and no stored alert has it), `AnonymousAhead` (an alert
without an id that a request has yet to come to is not stored) and `TargetFits`
(the incident it read exists, fits the alert, and has a severity no lower than
that of the alert that opened it). In the investigation they are `RunOK`
(the run a session works on exists), `CallsAhead` (no source ahead of the loop has
a tool call, so none is recorded twice), `EvidenceInHand` (what was read long ago
still is evidence of the run, or a runbook to be stored) and `NothingYet` (an
approval is asked only with a hypothesis, and nothing of a session is committed
before its commit); what others do in between is `Grows`: requests only add
evidence and finish runs. Each proof has a step per action
and under it a step per conjunct the action can disturb.

That requests do not wait in a circle is a matter of which locks a session holds at
which point of its handler, and of who can be waiting there:

- the gate (`LocksHeld`): who has the row of an approval waits, if at all, at the flush
  of its incident. So of requests that wait only for each other one waits at a flush;
  who has that incident is past its own flush and can only wait to record on its
  approval; and who has that approval is a request about the same incident, at its
  flush, and waits for the first (`NoLongCircle`).
- ingestion (`LocksInOrder`): a session takes the name of the service, then the key of the
  alert, then the row of the incident, one of each, and has none of them when it begins
  the next alert. A wait is therefore always for something of a higher rank than all that
  the waiter has (`WaitsGoUp`), and a set of waiters whose waits stay within it has no
  member at the highest rank (`NoCircle`).
- the investigation (`LocksHeld`): of requests that wait only for each other one has the
  incident. It can only wait for a run, at its flush; and who has the run is past its
  flush and can only wait for the incident, at its approval.

The other two abstract specifications are refined as follows.

- The ledger. A commit is the one step that it sees, and what the session found when it
  correlated must be true enough by then. For a session about to open an incident
  `FoundNone` says of every stored alert like its own that the two overlapped or that
  the incident of the other was closed at some time; `OverlapsAreNamed` says that two like
  alerts ingested at once are a pair of `overlapping`. For a session about to join one
  `TargetFits` has the alert it found, and the severity it writes is the greater of the
  two unless the row is no longer as it was read, which is what `raced` records.
- The case file. `PutOK` says that a session that has put ANALYZING has seen it, and
  that none asks for an approval with it still put. With it `CommitFinds` shows
  that a commit is a step `FindNothing` or `Find`: its citations are evidence of the run, by
  `EvidenceInHand`, and its hypothesis and approval are not there yet, by `NothingYet`.
  By `DiagnosisImplements` the detailed request has the same file.

The remaining refinements and the properties of the histories rest on these invariants and
on what the histories exclude:

- `ApprovalRaces_proofs`. `RacesInv` says that a request that is alone about its
  recommendation is still right about its row (`StillRight`): what it read when it
  began holds until it commits, since only requests about a recommendation write its
  row. So a step changes what the policy sees of one recommendation at most, and
  there it is a step of the policy. An incident is reopened by a flushed status,
  which `IInv` backs by a row that the same lemma keeps from being executed.
- `AlertRaces_proofs`. `OpensTogether`: two sessions that are about to open an
  incident are a pair of `together`. `OpensBeside`: a session about to open one found
  no open incident to join, and whichever appeared since was about to be opened beside
  it, hence is excused. A commit turns the second into the property.
- `Diagnosis_proofs`, the graph. `GraphInv` adds to the types what is known at each
  node (`OnTheWay`): nothing is selected before the answer, the threshold holds after it,
  the citations after validation, the allow-list after the proposal.
- `Diagnosis_proofs`, the refinement. Each step is a step of `Investigation` or
  changes none of its variables; the one that needs an argument is `Persist`
  (`PersistIsRunGraph`): what fits the evidence by id is grounded by kind. From it
  every theorem about `Investigation` carries over (`InvestigationHolds`).
- `Diagnosis_proofs`, the rest. `RetryInv` relates `sent` to `attempt` at the source
  in progress and says that no source ahead of the loop was asked. `BlameInv` says
  that a record of a deployment with its text means one in the range, and carries that
  through the nodes. `RecordInv` carries what is fitting at the end of the graph to
  the commit, since other requests leave the focused row, its calls and its hypothesis.

Only model-checked: `RequestsEnd`, `BatchIsStored`, `RunEnds` and `DiagnosisEnds`
(liveness, out of the prover's reach), and the seven violations. Every other
property of a passing run is a theorem.

## 5. Not modelled, and why

- Timeline events (`incident_events`), titles, summaries and other texts: no handler
  reads them back to decide anything. Prometheus counters and logs.
- The connection pool. A handler holds one connection at a time and none while it asks
  a source of evidence, so the limit makes requests wait, or time out as in `Abort`, `Fail` and
  `Die`, and nothing else.
- The action digest (see above). Users and roles: the code has none.
- The translation of Alertmanager labels, a pure mapping whose result is an alert.
- The scores of the runbook search and the parser of the files: `Retrieved` allows
  any choice they can make. Prompts and parsers of the real providers: `Replies`.
- `verify_backend_approval` has no caller outside the tests. What `execute_approval`
  checks less than it does, the expiry, is the finding of `gate_expired`.
- The checkout traffic of the demo service, and the deployment record that the
  simulator writes: both reach the system only as evidence, which is any.
- Schemas, settings, migrations, scripts and the web front end keep no state the
  properties tell apart; the unique keys of the migrations are in the models.

## 6. Observations

Seen while translating; none of them is checked by a run.

- The text of retrieved runbooks counts in `correlate_evidence`, and both runbooks name
  an error rate. Once one is retrieved there is a "metric anomaly", so for
  `checkout-api` the mock concludes from a deployment alone.
- `analyze_incident` looks for evidence of kind deployment, and the row that says
  "No deployment records" is one: it may state its hypothesis with no deployment.
- `generate_hypotheses.py` (its head and line 115) says that confidence is checked again
  in `validate_grounding`, which looks at the citations only. The threshold holds all the
  same (`OutcomeIsSafe`), by the check in `generate_hypotheses`.
- The simulator's `high_latency` scenario has no alert rule, so that the loop of fault,
  alert and rollback does not start from it.
- `docs/ARCHITECTURE.md` draws the life of an incident as a line. The models show three ways off it: a
  late `ANALYZING` (`investigate_lifecycle`), a failure that is rolled back
  (`gate_failure`) and a resolved incident that another recommendation reopens
  (`ReopenedForAnother`).

## 7. What could follow

The loop of fault, alert, rollback and recovery through the simulator and the demo
service as one specification, with the status of an incident over all three of
ingestion, investigation and gate; and an instance of `Diagnosis` with a second
request, which TLC cannot finish in minutes and the proofs cover.
