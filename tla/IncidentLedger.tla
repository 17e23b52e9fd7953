---------------------------- MODULE IncidentLedger ----------------------------
(***************************************************************************)
(* What ingestion promises of alerts and incidents, without requests,      *)
(* transactions or retries: an alert is stored once, at once with the      *)
(* incident it belongs to, and stays there.  It joins an incident that has *)
(* an alert like it, whose severity becomes the greater of the two, or     *)
(* opens one if there is none to join.                                     *)
(*                                                                         *)
(* Two things may be disturbed by requests that overlap, and are named     *)
(* here: an alert may open an incident beside one of an alert that it      *)
(* overlapped, and the severity of an incident on which two escalations    *)
(* overlapped is that of one of its alerts.                                *)
(***************************************************************************)
EXTENDS Integers

CONSTANTS Alerts, ServiceOf, TypeOf, SeverityOf, StartedAt, ExternalId, Window, None

VARIABLES
    incidentOf,  \* of an alert, None before it is stored
    severity,    \* of an incident, which is named by the alert that opened it
    shut,        \* incidents that were closed at some time
    overlapping, \* pairs of alerts whose ingestions overlapped
    contested    \* incidents on which escalations overlapped

ledgerVars == <<incidentOf, severity, shut, overlapping, contested>>

Stored == {a \in Alerts : incidentOf[a] # None}

Alike(a, b) ==
    /\ ServiceOf[a] = ServiceOf[b] /\ TypeOf[a] = TypeOf[b]
    /\ StartedAt[a] - StartedAt[b] <= Window
    /\ StartedAt[b] - StartedAt[a] <= Window

(* Neither this alert nor another delivery of it is stored. *)
IsNew(a) ==
    /\ a \notin Stored
    /\ \A b \in Stored : ExternalId[a] = None \/ ExternalId[a] # ExternalId[b]

Greater(x, y) == IF x > y THEN x ELSE y

Init ==
    /\ incidentOf = [a \in Alerts |-> None]
    /\ severity = [a \in Alerts |-> None]
    /\ shut = {}
    /\ overlapping = {}
    /\ contested = {}

Open(a) ==
    /\ IsNew(a)
    /\ \A b \in Stored : Alike(a, b) => {a, b} \in overlapping \/ incidentOf[b] \in shut
    /\ incidentOf' = [incidentOf EXCEPT ![a] = a]
    /\ severity' = [severity EXCEPT ![a] = SeverityOf[a]]

Join(a, i) ==
    /\ IsNew(a)
    /\ \E b \in Stored : incidentOf[b] = i /\ Alike(a, b)
    /\ incidentOf' = [incidentOf EXCEPT ![a] = i]
    /\ \/ severity' = [severity EXCEPT ![i] = Greater(@, SeverityOf[a])]
       \/ i \in contested' /\ severity' = [severity EXCEPT ![i] = SeverityOf[a]]
       \/ i \in contested' /\ UNCHANGED severity

Watch ==
    /\ shut \subseteq shut'
    /\ overlapping \subseteq overlapping'
    /\ contested \subseteq contested'

Next ==
    /\ Watch
    /\ \/ \E a \in Alerts : Open(a)
       \/ \E a, i \in Alerts : Join(a, i)
       \/ UNCHANGED <<incidentOf, severity>>

Spec == Init /\ [][Next]_ledgerVars

=============================================================================
