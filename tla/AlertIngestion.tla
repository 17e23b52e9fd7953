--------------------------- MODULE AlertIngestion ---------------------------
(***************************************************************************)
(* Alerts become incidents: ingest_alert of the incident service, run by   *)
(* the route POST /alerts for one alert and by the Alertmanager webhook    *)
(* for a batch of firing ones, by several requests at once over one        *)
(* PostgreSQL database at READ COMMITTED.                                  *)
(*                                                                         *)
(* Each alert of a batch is a transaction of its own, cut into actions at  *)
(* its database statements.  A unique key that a session has inserted is   *)
(* its own until it commits; another insert of that key waits, and fails   *)
(* with IntegrityError if the first one committed.  The request then       *)
(* answers 500, and Alertmanager sends the whole batch again.              *)
(*                                                                         *)
(* An element of Alerts is one alert of one request; what is delivered     *)
(* twice is two elements with the same ExternalId.  The row of an alert is *)
(* named by it, and an incident by the alert that opened it.               *)
(***************************************************************************)
EXTENDS Integers, Sequences

CONSTANTS
    Alerts, Requests, Services, Types, ExternalIds,
    BatchOf,       \* the alerts of a request, in the order of its payload
    Retried,       \* the requests of Alertmanager, sent again when they fail
    ServiceOf, TypeOf, SeverityOf, StartedAt,
    ExternalId,    \* of an alert; None if the client gave none
    Window,        \* correlation_window_seconds
    MaxCrashes,    \* bound of the sessions that end for an outside reason
    None

ASSUME IngestionAssumption ==
    /\ BatchOf \in [Requests -> Seq(Alerts)]
    /\ \A q \in Requests : BatchOf[q] # <<>>
    /\ Retried \subseteq Requests
    /\ ServiceOf \in [Alerts -> Services]
    /\ TypeOf \in [Alerts -> Types]
    /\ SeverityOf \in [Alerts -> 0..3]
    /\ StartedAt \in [Alerts -> Int]
    /\ ExternalId \in [Alerts -> ExternalIds \cup {None}]
    /\ Window \in Nat
    /\ MaxCrashes \in Nat
    /\ None \notin Alerts \cup Requests \cup ExternalIds \cup (0..3)

(* An alert without an external id is delivered once. *)
ASSUME AnonymousAssumption ==
    \A q \in Requests : \A n \in DOMAIN BatchOf[q] :
        ExternalId[BatchOf[q][n]] = None =>
            /\ q \notin Retried
            /\ \A p \in Requests : \A m \in DOMAIN BatchOf[p] :
                  BatchOf[p][m] = BatchOf[q][n] => p = q /\ m = n

VARIABLES
    services,    \* committed names of services
    incidentOf,  \* committed incident_alerts: the incident of each stored alert
    severity,    \* committed incidents.severity, None where there is no incident
    closed,      \* incidents in one of TERMINAL_INCIDENT_STATUSES
    nameKey,     \* the session that inserted a name of a service, uncommitted
    idKey,       \* the session that inserted an external_id, uncommitted
    rowLock,     \* the session that updated the row of an incident, uncommitted
    req,         \* what each request is doing
    crashes,     \* counter for MaxCrashes
    raced        \* history: incidents whose severity changed under a session

tables == <<services, incidentOf, severity>>
locks == <<nameKey, idKey, rowLock>>
vars == <<tables, closed, locks, req, crashes, raced>>

-----------------------------------------------------------------------------
SEVERITY_RANK == 0..3    \* low, medium, high, critical

RequestState ==
    [pc : {"ready", "lookup", "service", "create", "alert", "correlate",
           "escalate", "commit", "answer", "done"},
     pos : Nat \ {0},                         \* the alert of the batch
     target : Alerts \cup {None},             \* the incident it joins or opens
     seen : SEVERITY_RANK \cup {None}]        \* Incident.severity as it was read

Ready == [pc |-> "ready", pos |-> 1, target |-> None, seen |-> None]

Current(q) == BatchOf[q][req[q].pos]

Stored == {a \in Alerts : incidentOf[a] # None}

SameExternalId(a, b) == ExternalId[a] # None /\ ExternalId[a] = ExternalId[b]

Near(a, b) ==
    /\ StartedAt[a] - StartedAt[b] <= Window
    /\ StartedAt[b] - StartedAt[a] <= Window

(* find_correlated_incident: an open incident of the service that has an   *)
(* alert of the same type inside the window; the latest of them.           *)
CorrelatesIgnoringType(a, i) ==     \* mutant: no filter on alert_type
    /\ severity[i] # None /\ i \notin closed
    /\ ServiceOf[i] = ServiceOf[a]
    /\ \E b \in Stored : incidentOf[b] = i /\ Near(a, b)

CorrelatesInOrder(a, i) ==     \* mutant: the window looks back only
    /\ severity[i] # None /\ i \notin closed
    /\ ServiceOf[i] = ServiceOf[a]
    /\ \E b \in Stored :
          /\ incidentOf[b] = i /\ TypeOf[b] = TypeOf[a] /\ Near(a, b)
          /\ StartedAt[b] <= StartedAt[a]

Correlates(a, i) ==
    /\ severity[i] # None /\ i \notin closed
    /\ ServiceOf[i] = ServiceOf[a]
    /\ \E b \in Stored :
          incidentOf[b] = i /\ TypeOf[b] = TypeOf[a] /\ Near(a, b)

Latest(I) == {i \in I : \A j \in I : StartedAt[j] <= StartedAt[i]}

(* _escalate_severity raises the severity above the one it read, only. *)
EscalatesToLast(q) ==     \* mutant: the last alert decides
    /\ req[q].target # Current(q)
    /\ SeverityOf[Current(q)] # req[q].seen

EscalatesToCritical(q) ==     \* mutant: only the highest rank escalates
    /\ req[q].target # Current(q)
    /\ SeverityOf[Current(q)] = 3 /\ req[q].seen < 3

Escalates(q) ==
    /\ req[q].target # Current(q)
    /\ SeverityOf[Current(q)] > req[q].seen

-----------------------------------------------------------------------------
Init ==
    /\ services = {}
    /\ incidentOf = [a \in Alerts |-> None]
    /\ severity = [a \in Alerts |-> None]
    /\ closed = {}
    /\ nameKey = [s \in Services |-> None]
    /\ idKey = [e \in ExternalIds |-> None]
    /\ rowLock = [a \in Alerts |-> None]
    /\ req = [q \in Requests |-> Ready]
    /\ crashes = 0
    /\ raced = {}

-----------------------------------------------------------------------------
GoTo(q, pc) == req' = [req EXCEPT ![q].pc = pc]

(* The locks that are left when the transaction of q ends. *)
Unlocked(lock, q) == [x \in DOMAIN lock |-> IF lock[x] = q THEN None ELSE lock[x]]

LeakRowLock(q) ==     \* mutant: the transaction is left open on the incident
    /\ nameKey' = Unlocked(nameKey, q)
    /\ idKey' = Unlocked(idKey, q)
    /\ UNCHANGED rowLock

ReleaseLocks(q) ==
    /\ nameKey' = Unlocked(nameKey, q)
    /\ idKey' = Unlocked(idKey, q)
    /\ rowLock' = Unlocked(rowLock, q)

AdvanceTooFar(q) ==     \* mutant: the loop runs once more at the end of the batch
    req' = [req EXCEPT ![q] =
        IF req[q].pos <= Len(BatchOf[q])
        THEN [Ready EXCEPT !.pc = "lookup", !.pos = req[q].pos + 1]
        ELSE [Ready EXCEPT !.pc = "answer", !.pos = req[q].pos]]

(* The loop of the webhook goes on to the next alert, or the answer is sent. *)
Advance(q) ==
    req' = [req EXCEPT ![q] =
        IF req[q].pos < Len(BatchOf[q])
        THEN [Ready EXCEPT !.pc = "lookup", !.pos = req[q].pos + 1]
        ELSE [Ready EXCEPT !.pc = "answer", !.pos = req[q].pos]]

DropBatch(q) ==     \* mutant: a batch that failed is never sent again
    /\ req' = [req EXCEPT ![q] = [Ready EXCEPT !.pc = "done"]]
    /\ ReleaseLocks(q)

(* The session ends without a commit; Alertmanager will send its batch again. *)
Fail(q) ==
    /\ req' = [req EXCEPT ![q] =
          IF q \in Retried THEN Ready ELSE [Ready EXCEPT !.pc = "done"]]
    /\ ReleaseLocks(q)

-----------------------------------------------------------------------------
Receive(q) ==
    /\ req[q].pc = "ready"
    /\ GoTo(q, "lookup")
    /\ UNCHANGED <<tables, closed, locks, crashes, raced>>

(* The duplicate check by external_id, on what is committed. *)
LookUpExternalId(q) ==
    /\ req[q].pc = "lookup"
    /\ IF \E b \in Stored : SameExternalId(Current(q), b)
       THEN Advance(q)
       ELSE GoTo(q, "service")
    /\ UNCHANGED <<tables, closed, locks, crashes, raced>>

FindService(q) ==
    /\ req[q].pc = "service"
    /\ GoTo(q, IF ServiceOf[Current(q)] \in services THEN "alert" ELSE "create")
    /\ UNCHANGED <<tables, closed, locks, crashes, raced>>

(* The INSERT of get_or_create_service. *)
CreateService(q) ==
    LET s == ServiceOf[Current(q)] IN
    /\ req[q].pc = "create"
    /\ nameKey[s] = None
    /\ \/ /\ s \notin services
          /\ nameKey' = [nameKey EXCEPT ![s] = q]
          /\ GoTo(q, "alert")
          /\ UNCHANGED <<idKey, rowLock>>
       \/ /\ s \in services
          /\ Fail(q)
    /\ UNCHANGED <<tables, closed, crashes, raced>>

InsertAlertAnyway(q) ==     \* mutant: external_id has no unique key
    /\ req[q].pc = "alert"
    /\ GoTo(q, "correlate")
    /\ UNCHANGED <<tables, closed, locks, crashes, raced>>

InsertAlert(q) ==
    LET a == Current(q)
        e == ExternalId[a]
    IN
    /\ req[q].pc = "alert"
    /\ \/ /\ e = None
          /\ GoTo(q, "correlate")
          /\ UNCHANGED locks
       \/ /\ e # None
          /\ idKey[e] = None
          /\ \/ /\ \A b \in Stored : ~SameExternalId(a, b)
                /\ idKey' = [idKey EXCEPT ![e] = q]
                /\ GoTo(q, "correlate")
                /\ UNCHANGED <<nameKey, rowLock>>
             \/ /\ \E b \in Stored : SameExternalId(a, b)
                /\ Fail(q)
    /\ UNCHANGED <<tables, closed, crashes, raced>>

(* The alert joins an incident it correlates with, or opens one.  The      *)
(* incident is read here and updated when the session commits.             *)
Correlate(q) ==
    LET a == Current(q)
        I == {i \in Alerts : Correlates(a, i)}
    IN
    /\ req[q].pc = "correlate"
    /\ \/ \E i \in Latest(I) :
             req' = [req EXCEPT ![q].pc = "escalate", ![q].target = i,
                                ![q].seen = severity[i]]
       \/ /\ I = {}
          /\ req' = [req EXCEPT ![q].pc = "commit", ![q].target = a,
                                ![q].seen = SeverityOf[a]]
    /\ UNCHANGED <<tables, closed, locks, crashes, raced>>

(* The UPDATE of the incident waits for another that is uncommitted; it    *)
(* names the row by its id and writes the severity computed from seen.     *)
FlushEscalation(q) ==
    LET i == req[q].target IN
    /\ req[q].pc = "escalate"
    /\ \/ /\ Escalates(q)
          /\ rowLock[i] = None
          /\ rowLock' = [rowLock EXCEPT ![i] = q]
       \/ /\ ~Escalates(q)
          /\ UNCHANGED rowLock
    /\ GoTo(q, "commit")
    /\ UNCHANGED <<tables, closed, nameKey, idKey, crashes, raced>>

(* session.commit of ingest_alert: service, alert, incident and their      *)
(* link become visible together.                                           *)
Commit(q) ==
    LET a == Current(q)
        i == req[q].target
    IN
    /\ req[q].pc = "commit"
    /\ services' = services \cup {ServiceOf[a]}
    /\ incidentOf' = [incidentOf EXCEPT ![a] = i]
    /\ severity' = [severity EXCEPT ![i] =
          IF i = a \/ Escalates(q) THEN SeverityOf[a] ELSE @]
    /\ raced' = IF i # a /\ severity[i] # req[q].seen THEN raced \cup {i} ELSE raced
    /\ ReleaseLocks(q)
    /\ Advance(q)
    /\ UNCHANGED <<closed, crashes>>

Answer(q) ==
    /\ req[q].pc = "answer"
    /\ GoTo(q, "done")
    /\ UNCHANGED <<tables, closed, locks, crashes, raced>>

(* The process dies, the database fails or the answer is lost. *)
Crash(q) ==
    /\ req[q].pc \notin {"ready", "done"}
    /\ crashes < MaxCrashes
    /\ crashes' = crashes + 1
    /\ Fail(q)
    /\ UNCHANGED <<tables, closed, raced>>

(* The approval gate resolves or rejects an incident, or opens it again by *)
(* a request for another approval of it.                                   *)
ChangeStatus(i) ==
    /\ severity[i] # None
    /\ rowLock[i] = None
    /\ closed' = IF i \in closed THEN closed \ {i} ELSE closed \cup {i}
    /\ UNCHANGED <<tables, locks, req, crashes, raced>>

-----------------------------------------------------------------------------
(* The steps at which a session may wait for another one. *)
LockStep(q) == CreateService(q) \/ InsertAlert(q) \/ FlushEscalation(q)

FreeStep(q) ==
    \/ Receive(q) \/ LookUpExternalId(q) \/ FindService(q)
    \/ Correlate(q) \/ Commit(q) \/ Answer(q)

Next ==
    \/ \E q \in Requests : LockStep(q) \/ FreeStep(q) \/ Crash(q)
    \/ \E i \in Alerts : ChangeStatus(i)

Spec == Init /\ [][Next]_vars

(* Handlers that have begun go on, PostgreSQL hands a released row or key  *)
(* to its waiters in turn, and Alertmanager retries a failed notification. *)
Fairness == \A q \in Requests : WF_vars(FreeStep(q)) /\ SF_vars(LockStep(q))

FairSpec == Spec /\ Fairness

-----------------------------------------------------------------------------
TypeOK ==
    /\ services \in SUBSET Services
    /\ incidentOf \in [Alerts -> Alerts \cup {None}]
    /\ severity \in [Alerts -> SEVERITY_RANK \cup {None}]
    /\ closed \in SUBSET Alerts
    /\ nameKey \in [Services -> Requests \cup {None}]
    /\ idKey \in [ExternalIds -> Requests \cup {None}]
    /\ rowLock \in [Alerts -> Requests \cup {None}]
    /\ req \in [Requests -> RequestState]
    /\ \A q \in Requests : req[q].pos <= Len(BatchOf[q])
    /\ crashes \in 0..MaxCrashes
    /\ raced \in SUBSET Alerts

(* An alert with an external id is stored once, however often and however  *)
(* concurrently it is delivered, and whether or not its answer arrived.    *)
StoredOnce ==
    \A a, b \in Stored : SameExternalId(a, b) => a = b

(* Every stored alert is in an incident that exists, of its service and    *)
(* type, and another alert of that incident is inside the window of it,    *)
(* except for the alert that opened the incident.                          *)
CorrelationIsSound ==
    \A a \in Stored :
        LET i == incidentOf[a] IN
        /\ severity[i] # None /\ incidentOf[i] = i
        /\ ServiceOf[a] = ServiceOf[i] /\ TypeOf[a] = TypeOf[i]
        /\ a # i => \E b \in Stored \ {a} : incidentOf[b] = i /\ Near(a, b)

(* The severity of an incident is the one of an alert in it, and never     *)
(* below the alert that opened it, even when escalations race.             *)
SeverityIsBacked ==
    \A i \in Alerts : severity[i] # None =>
        /\ severity[i] >= SeverityOf[i]
        /\ \E a \in Stored : incidentOf[a] = i /\ SeverityOf[a] = severity[i]

(* Unless the severity changed between a session's read and its commit,    *)
(* the incident is as severe as the worst of its alerts.                   *)
UnracedSeverityIsMaximal ==
    \A a \in Stored : incidentOf[a] \notin raced =>
        SeverityOf[a] <= severity[incidentOf[a]]

InFlight == {q \in Requests : req[q].pc \notin {"ready", "done"}}

(* q waits for a key or a row that p has written and not committed. *)
WaitsFor(q, p) ==
    \/ req[q].pc = "create" /\ nameKey[ServiceOf[Current(q)]] = p
    \/ /\ req[q].pc = "alert" /\ ExternalId[Current(q)] # None
       /\ idKey[ExternalId[Current(q)]] = p
    \/ req[q].pc = "escalate" /\ Escalates(q) /\ rowLock[req[q].target] = p

(* Sessions hold up to three locks each, on service, alert and incident,   *)
(* and batches may name the same alerts in any order: still there is no    *)
(* circle of waits, as each alert is committed before the next is begun.   *)
NoCircularWait ==
    \A S \in SUBSET InFlight :
        S # {} => \E q \in S :
            \/ \A p \in Requests : ~WaitsFor(q, p)
            \/ \E p \in InFlight \ S : WaitsFor(q, p)

(* Every alert of an Alertmanager batch is stored in the end, although a   *)
(* batch may die between two of its alerts, lose a race for a key, or lose *)
(* its answer, and starts over with alerts that are stored already.        *)
BatchIsStored ==
    \A q \in Retried :
        req[q].pc = "lookup" ~>
            \A n \in DOMAIN BatchOf[q] :
                \E b \in Stored : SameExternalId(BatchOf[q][n], b)

-----------------------------------------------------------------------------
(* ARCHITECTURE.md on an alert that joins an incident: "severity ratchets  *)
(* upward only".                                                           *)
SeverityRatchets ==
    [][\A i \in Alerts : severity[i] # None => severity'[i] >= severity[i]]_vars

=============================================================================
