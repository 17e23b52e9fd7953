----------------------------- MODULE Connectors -----------------------------
(***************************************************************************)
(* The queries of one evidence collection: a range query of Prometheus and *)
(* one of Loki over HTTP, each tried again a bounded number of times, then *)
(* a query of the deployment history in PostgreSQL.                        *)
(*                                                                         *)
(* Of what a source answers, the texts are kept that the agent looks for.  *)
(* Prometheus is asked for a ratio of sums, a series without labels, and   *)
(* its evidence is summed up as "Prometheus returned n time series.":      *)
(* there is nothing in it that the agent looks for.                        *)
(***************************************************************************)
EXTENDS Integers

CONSTANTS
    MaxRetries,   \* connector_max_retries
    Lookback,     \* lookback_seconds of the request
    End,          \* the time of the request, the end of the range
    Times         \* when incidents start and deployments happen

ASSUME ConnectorsAssumption ==
    /\ MaxRetries \in 0..3
    /\ Lookback \in Nat
    /\ End \in Int
    /\ Times \subseteq Int

VARIABLES
    started,   \* Incident.started_at
    deployed,  \* deployed_at of the deployments of the service
    attempt,   \* of get_json, from 0
    failure,   \* the ConnectorError of a source, by its retryable flag
    says,      \* the texts in the evidence of a source
    sent       \* history: the HTTP requests sent to a source

connectorVars == <<started, deployed, attempt, failure, says, sent>>

-----------------------------------------------------------------------------
Telemetry == {"metric", "log", "deployment"}

LogTexts == {"database connection timeout", "500"}

(* max(incident.started_at, end - lookback) *)
RangeStart == IF started > End - Lookback THEN started ELSE End - Lookback

(* Each connector raises ValueError, which nobody handles, if not. *)
RangeIsValid == RangeStart <= End

InRange == {d \in deployed : RangeStart <= d /\ d <= End}

ConnectorsInit ==
    /\ started \in Times
    /\ deployed \in {{}} \cup {{d} : d \in Times}
    /\ attempt = 0
    /\ failure = [s \in Telemetry |-> "none"]
    /\ says = [s \in Telemetry |-> {}]
    /\ sent = [s \in Telemetry |-> 0]

-----------------------------------------------------------------------------
GoesOnOnceMore == attempt <= MaxRetries     \* mutant: one attempt too many

(* The loop goes on after an error that may be retried. *)
GoesOn == attempt < MaxRetries

GetJson(s) ==
    /\ s # "deployment"
    /\ RangeIsValid
    /\ sent' = [sent EXCEPT ![s] = @ + 1]
    /\ UNCHANGED <<started, deployed>>

(* A timeout, a failed connection or a status from 500 up. *)
TryAgain(s) ==
    /\ GetJson(s)
    /\ GoesOn
    /\ attempt' = attempt + 1
    /\ UNCHANGED <<failure, says>>

(* The same at the last attempt, or any other status, or a body that is    *)
(* not the JSON object of a successful query.                              *)
GiveUp(s) ==
    /\ GetJson(s)
    /\ \E kind \in {"retryable", "final"} :
          /\ kind = "retryable" => ~GoesOn
          /\ failure' = [failure EXCEPT ![s] = kind]
    /\ attempt' = 0
    /\ UNCHANGED says

Answer(s) ==
    /\ GetJson(s)
    /\ \E T \in SUBSET LogTexts :
          /\ s = "metric" => T = {}
          /\ says' = [says EXCEPT ![s] = T]
    /\ attempt' = 0
    /\ UNCHANGED failure

ReadDeployments ==
    /\ RangeIsValid
    /\ says' = [says EXCEPT !["deployment"] =
                   IF InRange = {} THEN {} ELSE {"deployed"}]
    /\ UNCHANGED <<started, deployed, attempt, failure, sent>>

-----------------------------------------------------------------------------
ConnectorsTypeOK ==
    /\ started \in Int
    /\ deployed \in SUBSET Int
    /\ attempt \in 0..MaxRetries
    /\ failure \in [Telemetry -> {"none", "retryable", "final"}]
    /\ says \in [Telemetry -> SUBSET (LogTexts \cup {"deployed"})]
    /\ sent \in [Telemetry -> Nat]

(* A source is asked at most once more than there are retries, and what is *)
(* stored as a failure that may be retried was tried that often: no query  *)
(* gives up early on such an error, and none exceeds its bound.            *)
RetriesAreExact ==
    \A s \in Telemetry :
        /\ sent[s] <= MaxRetries + 1
        /\ failure[s] = "retryable" => sent[s] = MaxRetries + 1

=============================================================================
