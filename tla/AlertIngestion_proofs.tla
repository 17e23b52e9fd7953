----------------------- MODULE AlertIngestion_proofs -----------------------
(***************************************************************************)
(* What AlertIngestion keeps for any number of requests, alerts and        *)
(* services, every window and every bound of crashes.                      *)
(*                                                                         *)
(* A session writes what it computed from rows it read some steps before.  *)
(* The inductive invariant says what is still true of them: its keys are   *)
(* its own, its alert is not stored yet, and the incident that it joins    *)
(* has only become more severe than the alert that opened it.  LockInv, at *)
(* the end, gives the order in which a session takes its locks.            *)
(***************************************************************************)
EXTENDS AlertIngestion, TLAPS

Working == {"correlate", "escalate", "commit"}

(* The alert at position n of the batch of q is still to be stored. *)
Ahead(q, n) == req[q].pc \notin {"answer", "done"} /\ n >= req[q].pos

KeyOwned(q) ==
    req[q].pc \in Working /\ ExternalId[Current(q)] # None =>
        /\ idKey[ExternalId[Current(q)]] = q
        /\ \A b \in Stored : ~SameExternalId(Current(q), b)

AnonymousAhead(q) ==
    \A n \in DOMAIN BatchOf[q] :
        ExternalId[BatchOf[q][n]] = None /\ Ahead(q, n) => incidentOf[BatchOf[q][n]] = None

(* What the incident that alert a joins has to be, whatever happened since *)
(* it was read.                                                            *)
Joins(a, i) ==
    /\ severity[i] # None
    /\ ServiceOf[a] = ServiceOf[i] /\ TypeOf[a] = TypeOf[i]
    /\ \E b \in Stored : incidentOf[b] = i /\ Near(a, b)

TargetFits(q) ==
    /\ req[q].pc \in {"escalate", "commit"} =>
          req[q].target \in Alerts /\ req[q].seen \in SEVERITY_RANK
    /\ req[q].pc = "escalate" => req[q].target # Current(q)
    /\ req[q].pc \in {"escalate", "commit"} /\ req[q].target # Current(q) =>
          /\ Joins(Current(q), req[q].target)
          /\ req[q].seen >= SeverityOf[req[q].target]

SessionOK(q) == KeyOwned(q) /\ AnonymousAhead(q) /\ TargetFits(q)

IncidentsAreOpened ==
    \A i \in Alerts : severity[i] # None => incidentOf[i] = i

TablesOK ==
    /\ IncidentsAreOpened
    /\ StoredOnce
    /\ CorrelationIsSound
    /\ SeverityIsBacked
    /\ UnracedSeverityIsMaximal

IInv ==
    /\ TypeOK
    /\ \A q \in Requests : SessionOK(q)
    /\ TablesOK

-----------------------------------------------------------------------------
(* The position of a request is one of its batch. *)
LEMMA CurrentType ==
    ASSUME TypeOK, NEW q \in Requests
    PROVE  req[q].pos \in DOMAIN BatchOf[q] /\ Current(q) \in Alerts
<1>1. BatchOf[q] \in Seq(Alerts) /\ req[q] \in RequestState /\ req[q].pos <= Len(BatchOf[q])
  BY IngestionAssumption DEF TypeOK
<1>2. req[q].pos \in 1..Len(BatchOf[q])
  BY <1>1 DEF RequestState
<1> QED BY <1>1, <1>2 DEF Current

LEMMA ReadyType == \A pc \in {"ready", "lookup", "answer", "done"} :
    [Ready EXCEPT !.pc = pc] \in RequestState
BY DEF Ready, RequestState

LEMMA GoToType ==
    ASSUME TypeOK, NEW q \in Requests,
           NEW pc \in {"lookup", "service", "create", "alert", "correlate", "commit", "done"},
           GoTo(q, pc)
    PROVE  /\ req' \in [Requests -> RequestState]
           /\ \A p \in Requests : req'[p].pos <= Len(BatchOf[p])
           /\ \A p \in Requests \ {q} : req'[p] = req[p]
           /\ req'[q].pc = pc /\ req'[q].pos = req[q].pos
           /\ req'[q].target = req[q].target /\ req'[q].seen = req[q].seen
<1>1. req \in [Requests -> RequestState]
  BY DEF TypeOK
<1>2. \A p \in Requests \ {q} : req'[p] = req[p]
  BY <1>1 DEF GoTo
<1>3. req'[q] = [req[q] EXCEPT !.pc = pc]
  BY <1>1 DEF GoTo
<1>4. req'[q] \in RequestState /\ req'[q].pc = pc /\ req'[q].pos = req[q].pos
      /\ req'[q].target = req[q].target /\ req'[q].seen = req[q].seen
  BY <1>1, <1>3 DEF RequestState
<1>5. req' \in [Requests -> RequestState]
  BY <1>1, <1>4 DEF GoTo
<1>6. ASSUME NEW p \in Requests PROVE req'[p].pos <= Len(BatchOf[p])
  BY <1>2, <1>4 DEF TypeOK
<1> QED BY <1>2, <1>4, <1>5, <1>6

LEMMA RowType ==
    ASSUME NEW s \in RequestState, NEW pc \in {"escalate", "commit"},
           NEW i \in Alerts, NEW r \in SEVERITY_RANK
    PROVE  [s EXCEPT !.pc = pc, !.target = i, !.seen = r] \in RequestState
<1>1. /\ i \in Alerts \cup {None} /\ r \in SEVERITY_RANK \cup {None}
      /\ pc \in {"ready", "lookup", "service", "create", "alert", "correlate",
                "escalate", "commit", "answer", "done"}
  OBVIOUS
<1> QED BY <1>1, Zenon DEF RequestState

LEMMA EditType ==
    ASSUME req \in [Requests -> RequestState], NEW q \in Requests,
           NEW pc \in {"escalate", "commit"}, NEW i \in Alerts, NEW r \in SEVERITY_RANK,
           req' = [req EXCEPT ![q].pc = pc, ![q].target = i, ![q].seen = r]
    PROVE  req' \in [Requests -> RequestState] /\ \A p \in Requests : req'[p].pos = req[p].pos
<1>1. [req[q] EXCEPT !.pc = pc, !.target = i, !.seen = r] \in RequestState
  BY RowType, Zenon
<1>2. req'[q].pos = req[q].pos
  BY DEF RequestState
<1> QED BY <1>1, <1>2

LEMMA AdvanceType ==
    ASSUME TypeOK, NEW q \in Requests, Advance(q)
    PROVE  /\ req' \in [Requests -> RequestState]
           /\ \A p \in Requests : req'[p].pos <= Len(BatchOf[p])
           /\ \A p \in Requests \ {q} : req'[p] = req[p]
           /\ \/ req'[q].pc = "lookup" /\ req'[q].pos = req[q].pos + 1
              \/ req'[q].pc = "answer"
<1>1. /\ req \in [Requests -> RequestState] /\ req[q].pos \in Nat \ {0}
      /\ Len(BatchOf[q]) \in Nat /\ req[q].pos <= Len(BatchOf[q])
  BY IngestionAssumption DEF TypeOK, RequestState
<1>2. \A p \in Requests \ {q} : req'[p] = req[p]
  BY <1>1 DEF Advance
<1>3. CASE req[q].pos < Len(BatchOf[q])
  <2>1. req'[q] = [Ready EXCEPT !.pc = "lookup", !.pos = req[q].pos + 1]
    BY <1>1, <1>3 DEF Advance
  <2>a. req[q].pos + 1 \in Nat \ {0} /\ req[q].pos + 1 <= Len(BatchOf[q])
    BY <1>1, <1>3
  <2>2. /\ req'[q] \in RequestState /\ req'[q].pc = "lookup"
        /\ req'[q].pos = req[q].pos + 1
    BY <2>1, <2>a DEF Ready, RequestState
  <2>3. req' \in [Requests -> RequestState]
    BY <2>2, <1>1 DEF Advance
  <2> QED BY <1>2, <2>a, <2>2, <2>3 DEF TypeOK
<1>4. CASE ~(req[q].pos < Len(BatchOf[q]))
  <2>1. req'[q] = [Ready EXCEPT !.pc = "answer", !.pos = req[q].pos]
    BY <1>1, <1>4 DEF Advance
  <2>2. /\ req'[q] \in RequestState /\ req'[q].pc = "answer"
        /\ req'[q].pos = req[q].pos
    BY <2>1, <1>1 DEF Ready, RequestState
  <2>3. req' \in [Requests -> RequestState]
    BY <2>2, <1>1 DEF Advance
  <2> QED BY <1>1, <1>2, <2>2, <2>3 DEF TypeOK
<1> QED BY <1>3, <1>4

LEMMA ReleaseType ==
    ASSUME TypeOK, NEW q \in Requests, ReleaseLocks(q)
    PROVE  /\ nameKey' \in [Services -> Requests \cup {None}]
           /\ idKey' \in [ExternalIds -> Requests \cup {None}]
           /\ rowLock' \in [Alerts -> Requests \cup {None}]
           /\ \A p \in Requests \ {q} : \A e \in ExternalIds : idKey[e] = p => idKey'[e] = p
BY DEF TypeOK, ReleaseLocks, Unlocked

LEMMA FailType ==
    ASSUME TypeOK, NEW q \in Requests, Fail(q)
    PROVE  /\ req' \in [Requests -> RequestState]
           /\ \A p \in Requests : req'[p].pos <= Len(BatchOf[p])
           /\ \A p \in Requests \ {q} : req'[p] = req[p]
           /\ \/ req'[q].pc = "ready" /\ q \in Retried
              \/ req'[q].pc = "done"
<1>1. req \in [Requests -> RequestState] /\ Len(BatchOf[q]) \in Nat /\ BatchOf[q] # <<>>
  BY IngestionAssumption DEF TypeOK
<1>2. \A p \in Requests \ {q} : req'[p] = req[p]
  BY <1>1 DEF Fail
<1>3. req'[q] = IF q \in Retried THEN Ready ELSE [Ready EXCEPT !.pc = "done"]
  BY <1>1 DEF Fail
<1>4. /\ req'[q] \in RequestState /\ req'[q].pos = 1
      /\ \/ req'[q].pc = "ready" /\ q \in Retried
         \/ req'[q].pc = "done"
  BY <1>3 DEF Ready, RequestState
<1>5. req' \in [Requests -> RequestState]
  BY <1>1, <1>4 DEF Fail
<1>6. Len(BatchOf[q]) >= 1
  BY <1>1, IngestionAssumption
<1> QED BY <1>1, <1>2, <1>4, <1>5, <1>6 DEF TypeOK

-----------------------------------------------------------------------------
LEMMA TypeInit == Init => TypeOK
<1> SUFFICES ASSUME Init PROVE TypeOK
  OBVIOUS
<1>1. Ready \in RequestState
  BY DEF Ready, RequestState
<1>2. ASSUME NEW q \in Requests PROVE Ready.pos <= Len(BatchOf[q])
  BY IngestionAssumption DEF Ready
<1> QED BY <1>1, <1>2, IngestionAssumption DEF Init, TypeOK

LEMMA TypeCommit ==
    ASSUME TypeOK, NEW q \in Requests, Commit(q), req[q].target \in Alerts
    PROVE  TypeOK'
<1>1. Current(q) \in Alerts
  BY CurrentType
<1>2. ServiceOf[Current(q)] \in Services /\ SeverityOf[Current(q)] \in SEVERITY_RANK
  BY <1>1, IngestionAssumption DEF SEVERITY_RANK
<1>3. /\ req' \in [Requests -> RequestState]
      /\ \A p \in Requests : req'[p].pos <= Len(BatchOf[p])
  BY AdvanceType DEF Commit
<1>4. /\ nameKey' \in [Services -> Requests \cup {None}]
      /\ idKey' \in [ExternalIds -> Requests \cup {None}]
      /\ rowLock' \in [Alerts -> Requests \cup {None}]
  BY ReleaseType DEF Commit
<1>5. /\ services' \in SUBSET Services
      /\ incidentOf' \in [Alerts -> Alerts \cup {None}]
      /\ raced' \in SUBSET Alerts
      /\ closed' \in SUBSET Alerts
      /\ crashes' \in 0..MaxCrashes
  BY <1>1, <1>2 DEF TypeOK, Commit
<1>6. severity' \in [Alerts -> SEVERITY_RANK \cup {None}]
  BY <1>1, <1>2 DEF TypeOK, Commit
<1> QED BY <1>3, <1>4, <1>5, <1>6 DEF TypeOK

LEMMA TypeStep ==
    ASSUME TypeOK, [Next]_vars,
           \A q \in Requests : req[q].pc = "commit" => req[q].target \in Alerts
    PROVE  TypeOK'
<1>1. ASSUME NEW q \in Requests, Receive(q) PROVE TypeOK'
  BY <1>1, GoToType DEF Receive, TypeOK, tables, locks
<1>2. ASSUME NEW q \in Requests, LookUpExternalId(q) PROVE TypeOK'
  <2>1. CASE Advance(q)
    BY <1>2, <2>1, AdvanceType DEF LookUpExternalId, TypeOK, tables, locks
  <2>2. CASE GoTo(q, "service")
    BY <1>2, <2>2, GoToType DEF LookUpExternalId, TypeOK, tables, locks
  <2> QED BY <1>2, <2>1, <2>2 DEF LookUpExternalId
<1>3. ASSUME NEW q \in Requests, FindService(q) PROVE TypeOK'
  <2>1. GoTo(q, "alert") \/ GoTo(q, "create")
    BY <1>3 DEF FindService
  <2> QED BY <1>3, <2>1, GoToType DEF FindService, TypeOK, tables, locks
<1>4. ASSUME NEW q \in Requests, CreateService(q) PROVE TypeOK'
  <2>1. CASE Fail(q)
    BY <1>4, <2>1, FailType, ReleaseType DEF CreateService, Fail, TypeOK, tables
  <2>2. CASE /\ nameKey' = [nameKey EXCEPT ![ServiceOf[Current(q)]] = q]
             /\ GoTo(q, "alert") /\ UNCHANGED <<idKey, rowLock>>
    <3>1. nameKey' \in [Services -> Requests \cup {None}]
      BY <2>2 DEF TypeOK
    <3> QED BY <1>4, <2>2, <3>1, GoToType DEF CreateService, TypeOK, tables
  <2> QED BY <1>4, <2>1, <2>2 DEF CreateService
<1>5. ASSUME NEW q \in Requests, InsertAlert(q) PROVE TypeOK'
  <2>1. CASE Fail(q)
    BY <1>5, <2>1, FailType, ReleaseType DEF InsertAlert, Fail, TypeOK, tables
  <2>2. CASE /\ idKey' = [idKey EXCEPT ![ExternalId[Current(q)]] = q]
             /\ GoTo(q, "correlate") /\ UNCHANGED <<nameKey, rowLock>>
    <3>1. idKey' \in [ExternalIds -> Requests \cup {None}]
      BY <2>2 DEF TypeOK
    <3> QED BY <1>5, <2>2, <3>1, GoToType DEF InsertAlert, TypeOK, tables
  <2>3. CASE GoTo(q, "correlate") /\ UNCHANGED locks
    BY <1>5, <2>3, GoToType DEF InsertAlert, TypeOK, tables, locks
  <2> QED BY <1>5, <2>1, <2>2, <2>3 DEF InsertAlert
<1>6. ASSUME NEW q \in Requests, Correlate(q) PROVE TypeOK'
  <2>1. PICK pc \in {"escalate", "commit"}, i \in Alerts, r \in SEVERITY_RANK :
           req' = [req EXCEPT ![q].pc = pc, ![q].target = i, ![q].seen = r]
    <3>1. CASE \E i \in Latest({i \in Alerts : Correlates(Current(q), i)}) :
                 req' = [req EXCEPT ![q].pc = "escalate", ![q].target = i,
                                    ![q].seen = severity[i]]
      <4>1. PICK i \in Latest({i \in Alerts : Correlates(Current(q), i)}) :
                 req' = [req EXCEPT ![q].pc = "escalate", ![q].target = i,
                                    ![q].seen = severity[i]]
        BY <3>1
      <4>2. i \in Alerts /\ severity[i] # None
        BY DEF Latest, Correlates
      <4>3. severity[i] \in SEVERITY_RANK
        BY <4>2 DEF TypeOK
      <4> QED BY <4>1, <4>2, <4>3
    <3>2. CASE req' = [req EXCEPT ![q].pc = "commit", ![q].target = Current(q),
                                  ![q].seen = SeverityOf[Current(q)]]
      <4>1. Current(q) \in Alerts /\ SeverityOf[Current(q)] \in SEVERITY_RANK
        BY CurrentType, IngestionAssumption DEF SEVERITY_RANK
      <4> QED BY <3>2, <4>1
    <3> QED BY <1>6, <3>1, <3>2 DEF Correlate
  <2>2. req \in [Requests -> RequestState]
    BY DEF TypeOK
  <2>3. /\ req' \in [Requests -> RequestState]
        /\ \A p \in Requests : req'[p].pos = req[p].pos
    BY <2>1, <2>2, EditType
  <2>4. \A p \in Requests : req'[p].pos <= Len(BatchOf[p])
    BY <2>3 DEF TypeOK
  <2> QED BY <1>6, <2>3, <2>4 DEF Correlate, TypeOK, tables, locks
<1>7. ASSUME NEW q \in Requests, FlushEscalation(q) PROVE TypeOK'
  <2>1. rowLock' \in [Alerts -> Requests \cup {None}]
    BY <1>7 DEF FlushEscalation, TypeOK
  <2> QED BY <1>7, <2>1, GoToType DEF FlushEscalation, TypeOK, tables
<1>8. ASSUME NEW q \in Requests, Commit(q) PROVE TypeOK'
  BY <1>8, TypeCommit DEF Commit
<1>9. ASSUME NEW q \in Requests, Answer(q) PROVE TypeOK'
  BY <1>9, GoToType DEF Answer, TypeOK, tables, locks
<1>10. ASSUME NEW q \in Requests, Crash(q) PROVE TypeOK'
  <2>1. crashes' \in 0..MaxCrashes
    BY <1>10, IngestionAssumption DEF Crash, TypeOK
  <2> QED BY <1>10, <2>1, FailType, ReleaseType DEF Crash, Fail, TypeOK, tables
<1>11. ASSUME NEW i \in Alerts, ChangeStatus(i) PROVE TypeOK'
  BY <1>11 DEF ChangeStatus, TypeOK, tables, locks
<1>12. CASE UNCHANGED vars
  BY <1>12 DEF vars, TypeOK, tables, locks
<1> QED BY <1>1, <1>2, <1>3, <1>4, <1>5, <1>6, <1>7, <1>8, <1>9, <1>10, <1>11, <1>12
        DEF Next, LockStep, FreeStep

-----------------------------------------------------------------------------
(* What a step of q leaves to the other requests. *)
LeavesOthers(q) ==
    \A p \in Requests \ {q} :
        req'[p] = req[p] /\ \A e \in ExternalIds : idKey[e] = p => idKey'[e] = p

(* A step that writes no table leaves the sessions of the others as sound  *)
(* as they were.                                                           *)
LEMMA OtherSession ==
    ASSUME IInv, NEW q \in Requests, NEW p \in Requests \ {q}, LeavesOthers(q),
           UNCHANGED <<incidentOf, severity>>
    PROVE  SessionOK(p)'
<1>1. SessionOK(p) /\ TypeOK /\ req'[p] = req[p] /\ Current(p) \in Alerts
  BY CurrentType DEF IInv, LeavesOthers
<1>2. Current(p)' = Current(p) /\ Stored' = Stored
  BY <1>1 DEF Current, Stored
<1>3. KeyOwned(p)'
  <2>1. ExternalId[Current(p)] # None => ExternalId[Current(p)] \in ExternalIds
    BY <1>1, IngestionAssumption
  <2> QED BY <1>1, <1>2, <2>1 DEF SessionOK, KeyOwned, LeavesOthers, SameExternalId
<1>4. AnonymousAhead(p)'
  BY <1>1 DEF SessionOK, AnonymousAhead, Ahead
<1>5. TargetFits(p)'
  BY <1>1, <1>2 DEF SessionOK, TargetFits, Joins
<1> QED BY <1>3, <1>4, <1>5 DEF SessionOK

(* The same of the request that takes the step, if it has nothing to store *)
(* yet afterwards: it goes on in its batch, has ended, or starts over.     *)
LEMMA OwnSession ==
    ASSUME IInv, NEW q \in Requests, UNCHANGED incidentOf,
           req'[q].pc \notin Working,
           \/ req'[q].pc \in {"answer", "done"}
           \/ q \in Retried
           \/ req[q].pc \notin {"answer", "done"} /\ req'[q].pos = req[q].pos
           \/ req[q].pc \notin {"answer", "done"} /\ req'[q].pos = req[q].pos + 1
    PROVE  SessionOK(q)'
<1>1. SessionOK(q) /\ req[q].pos \in Nat
  BY DEF IInv, TypeOK, RequestState
<1>2. KeyOwned(q)' /\ TargetFits(q)'
  BY DEF KeyOwned, TargetFits, Working
<1>3. ASSUME NEW n \in DOMAIN BatchOf[q], ExternalId[BatchOf[q][n]] = None, Ahead(q, n)'
      PROVE  incidentOf'[BatchOf[q][n]] = None
  <2>1. q \notin Retried /\ n \in Nat
    BY <1>3, AnonymousAssumption, IngestionAssumption
  <2>2. Ahead(q, n)
    BY <1>1, <1>3, <2>1 DEF Ahead
  <2> QED BY <1>1, <1>3, <2>2 DEF SessionOK, AnonymousAhead
<1> QED BY <1>2, <1>3 DEF SessionOK, AnonymousAhead

(* An alert that is ready to commit is not stored yet. *)
LEMMA NotStoredYet ==
    ASSUME IInv, NEW q \in Requests, req[q].pc \in Working
    PROVE  Current(q) \in Alerts /\ incidentOf[Current(q)] = None /\ severity[Current(q)] = None
<1>1. SessionOK(q) /\ TypeOK /\ req[q].pos \in DOMAIN BatchOf[q] /\ Current(q) \in Alerts
  BY CurrentType DEF IInv
<1>2. req[q].pos \in Nat
  BY <1>1 DEF TypeOK, RequestState
<1>3. incidentOf[Current(q)] = None
  <2>1. CASE ExternalId[Current(q)] = None
    BY <1>1, <1>2, <2>1 DEF SessionOK, AnonymousAhead, Ahead, Working, Current
  <2>2. CASE ExternalId[Current(q)] # None
    BY <1>1, <2>2 DEF SessionOK, KeyOwned, Stored, SameExternalId
  <2> QED BY <2>1, <2>2
<1>4. severity[Current(q)] = None
  BY <1>1, <1>3, IngestionAssumption DEF IInv, TablesOK, IncidentsAreOpened
<1> QED BY <1>1, <1>3, <1>4

(* What a commit does to the tables. *)
LEMMA CommitTables ==
    ASSUME IInv, NEW q \in Requests, Commit(q)
    PROVE  LET a == Current(q)
               i == req[q].target
           IN
           /\ a \in Alerts /\ i \in Alerts /\ incidentOf[a] = None /\ severity[a] = None
           /\ incidentOf'[a] = i
           /\ \A b \in Alerts \ {a} : incidentOf'[b] = incidentOf[b]
           /\ Stored' = Stored \cup {a}
           /\ severity'[i] = IF i = a \/ Escalates(q) THEN SeverityOf[a] ELSE severity[i]
           /\ \A j \in Alerts \ {i} : severity'[j] = severity[j]
           /\ severity'[i] # None
           /\ i # a => Joins(a, i) /\ req[q].seen >= SeverityOf[i] /\ req[q].seen \in SEVERITY_RANK
<1>1. req[q].pc \in Working /\ TypeOK /\ SessionOK(q)
  BY DEF Commit, Working, IInv
<1>2. Current(q) \in Alerts /\ incidentOf[Current(q)] = None /\ severity[Current(q)] = None
  BY <1>1, NotStoredYet
<1>3. /\ req[q].target \in Alerts
      /\ req[q].target # Current(q) => /\ Joins(Current(q), req[q].target)
                                       /\ req[q].seen >= SeverityOf[req[q].target]
                                       /\ req[q].seen \in SEVERITY_RANK
  BY <1>1 DEF Commit, SessionOK, TargetFits
<1>4. req[q].target # None
  BY <1>3, IngestionAssumption
<1>5. /\ incidentOf'[Current(q)] = req[q].target
      /\ \A b \in Alerts \ {Current(q)} : incidentOf'[b] = incidentOf[b]
  BY <1>1, <1>2 DEF Commit, TypeOK
<1>6. Stored' = Stored \cup {Current(q)}
  BY <1>2, <1>4, <1>5 DEF Stored
<1>7. /\ severity'[req[q].target] = IF req[q].target = Current(q) \/ Escalates(q)
                                    THEN SeverityOf[Current(q)]
                                    ELSE severity[req[q].target]
      /\ \A j \in Alerts \ {req[q].target} : severity'[j] = severity[j]
  BY <1>1, <1>3 DEF Commit, TypeOK
<1>8. SeverityOf[Current(q)] # None
  BY <1>2, IngestionAssumption
<1>9. severity'[req[q].target] # None
  BY <1>3, <1>7, <1>8 DEF Joins
<1> QED BY <1>2, <1>3, <1>5, <1>6, <1>7, <1>9

(* A commit leaves the sessions of the others as sound as they were: their *)
(* alerts are other alerts, and the incidents they join stay.              *)
LEMMA CommitOther ==
    ASSUME IInv, NEW q \in Requests, Commit(q), NEW p \in Requests \ {q}
    PROVE  SessionOK(p)'
<1>0. PICK a \in Alerts, i \in Alerts : a = Current(q) /\ i = req[q].target
  BY CommitTables
<1>1. /\ incidentOf[a] = None /\ incidentOf'[a] = i
      /\ \A b \in Alerts \ {a} : incidentOf'[b] = incidentOf[b]
      /\ Stored' = Stored \cup {a}
      /\ severity'[i] # None
      /\ \A j \in Alerts \ {i} : severity'[j] = severity[j]
  BY <1>0, CommitTables
<1>2. SessionOK(p) /\ SessionOK(q) /\ req[q].pc = "commit" /\ TypeOK
  BY DEF IInv, Commit
<1>3. req'[p] = req[p] /\ \A e \in ExternalIds : idKey[e] = p => idKey'[e] = p
  BY <1>2, AdvanceType, ReleaseType DEF Commit
<1>4. Current(p)' = Current(p) /\ Current(p) \in Alerts
  BY <1>2, <1>3, CurrentType DEF Current
<1>5. KeyOwned(p)'
  <2> SUFFICES ASSUME req[p].pc \in Working, ExternalId[Current(p)] # None
               PROVE  /\ idKey'[ExternalId[Current(p)]] = p
                      /\ \A b \in Stored' : ~SameExternalId(Current(p), b)
    BY <1>3, <1>4 DEF KeyOwned, SameExternalId
  <2>1. ExternalId[Current(p)] \in ExternalIds
    BY <1>4, IngestionAssumption
  <2>2. /\ idKey[ExternalId[Current(p)]] = p
        /\ \A b \in Stored : ~SameExternalId(Current(p), b)
    BY <1>2 DEF SessionOK, KeyOwned
  <2>3. ~SameExternalId(Current(p), a)
    BY <1>0, <1>2, <2>2 DEF SessionOK, KeyOwned, SameExternalId, Working
  <2> QED BY <1>1, <1>3, <2>1, <2>2, <2>3
<1>6. ASSUME NEW n \in DOMAIN BatchOf[p], ExternalId[BatchOf[p][n]] = None, Ahead(p, n)'
      PROVE  incidentOf'[BatchOf[p][n]] = None
  <2>1. incidentOf[BatchOf[p][n]] = None
    BY <1>2, <1>3, <1>6 DEF SessionOK, AnonymousAhead, Ahead
  <2>2. BatchOf[p][n] # a
    BY <1>0, <1>2, <1>6, CurrentType, AnonymousAssumption DEF Current
  <2>3. BatchOf[p][n] \in Alerts
    BY <1>6, IngestionAssumption
  <2> QED BY <1>1, <2>1, <2>2, <2>3
<1>7. ASSUME NEW c \in Alerts, NEW j \in Alerts, Joins(c, j) PROVE Joins(c, j)'
  BY <1>1, <1>7 DEF Joins, Stored
<1>8. TargetFits(p)'
  BY <1>2, <1>3, <1>4, <1>7 DEF SessionOK, TargetFits
<1> QED BY <1>5, <1>6, <1>8 DEF SessionOK, AnonymousAhead

(* A commit keeps what the tables promise. *)
LEMMA CommitKeepsTables ==
    ASSUME IInv, NEW q \in Requests, Commit(q)
    PROVE  TablesOK'
<1>0. PICK a \in Alerts, i \in Alerts : a = Current(q) /\ i = req[q].target
  BY CommitTables
<1>1. /\ incidentOf[a] = None /\ severity[a] = None /\ incidentOf'[a] = i
      /\ \A b \in Alerts \ {a} : incidentOf'[b] = incidentOf[b]
      /\ Stored' = Stored \cup {a}
      /\ severity'[i] = IF i = a \/ Escalates(q) THEN SeverityOf[a] ELSE severity[i]
      /\ severity'[i] # None
      /\ \A j \in Alerts \ {i} : severity'[j] = severity[j]
      /\ i # a => /\ Joins(a, i) /\ req[q].seen >= SeverityOf[i]
                  /\ req[q].seen \in SEVERITY_RANK
  BY <1>0, CommitTables
<1>2. TypeOK /\ TablesOK /\ SessionOK(q) /\ req[q].pc = "commit"
  BY DEF IInv, Commit
<1>a. Stored \subseteq Alerts /\ a \notin Stored
  BY <1>1 DEF Stored
<1>b. \A b \in Alerts : SeverityOf[b] \in 0..3
  BY IngestionAssumption
<1>c. \A b \in Alerts : severity[b] # None => severity[b] \in 0..3
  BY <1>2 DEF TypeOK, SEVERITY_RANK
<1>3. IncidentsAreOpened'
  BY <1>1, <1>2 DEF TablesOK, IncidentsAreOpened, Joins
<1>4. StoredOnce'
  <2>1. \A b \in Stored : ~SameExternalId(a, b)
    BY <1>0, <1>2 DEF SessionOK, KeyOwned, Working, SameExternalId
  <2>2. \A b \in Stored : ~SameExternalId(b, a)
    BY <2>1 DEF SameExternalId
  <2>3. \A b, c \in Stored : SameExternalId(b, c) => b = c
    BY <1>2 DEF TablesOK, StoredOnce
  <2>4. \A b, c \in Stored \cup {a} : SameExternalId(b, c) => b = c
    BY <2>1, <2>2, <2>3
  <2> QED BY <1>1, <2>4 DEF StoredOnce, SameExternalId
<1>5. CorrelationIsSound'
  <2> SUFFICES ASSUME NEW c \in Stored'
               PROVE  LET j == incidentOf'[c] IN
                      /\ severity'[j] # None /\ incidentOf'[j] = j
                      /\ ServiceOf[c] = ServiceOf[j] /\ TypeOf[c] = TypeOf[j]
                      /\ c # j => \E b \in Stored' \ {c} : incidentOf'[b] = j /\ Near(c, b)
    BY DEF CorrelationIsSound, Near
  <2>1. CASE c = a
    <3>1. incidentOf'[i] = i
      BY <1>1, <1>3 DEF IncidentsAreOpened
    <3>2. a # i => \E b \in Stored' \ {a} : incidentOf'[b] = i /\ Near(a, b)
      BY <1>1, <1>a DEF Joins
    <3> QED BY <1>1, <2>1, <3>1, <3>2 DEF Joins
  <2>2. CASE c \in Stored
    <3>0. PICK j : j = incidentOf[c]
      OBVIOUS
    <3>1. /\ severity[j] # None /\ incidentOf[j] = j
          /\ ServiceOf[c] = ServiceOf[j] /\ TypeOf[c] = TypeOf[j]
          /\ c # j => \E b \in Stored \ {c} : incidentOf[b] = j /\ Near(c, b)
      BY <1>2, <2>2, <3>0 DEF TablesOK, CorrelationIsSound
    <3>2. c # a /\ j \in Alerts /\ j # a /\ incidentOf'[c] = j /\ incidentOf'[j] = j
      BY <1>1, <1>2, <1>a, <2>2, <3>0, <3>1 DEF TypeOK, Stored
    <3>3. severity'[j] # None
      BY <1>1, <3>1, <3>2
    <3>4. c # j => \E b \in Stored' \ {c} : incidentOf'[b] = j /\ Near(c, b)
      BY <1>1, <1>a, <3>1
    <3> QED BY <3>1, <3>2, <3>3, <3>4
  <2> QED BY <1>1, <2>1, <2>2
<1>6. SeverityIsBacked'
  <2> SUFFICES ASSUME NEW j \in Alerts, severity'[j] # None
               PROVE  /\ severity'[j] >= SeverityOf[j]
                      /\ \E b \in Stored' : incidentOf'[b] = j /\ SeverityOf[b] = severity'[j]
    BY DEF SeverityIsBacked
  <2>1. CASE j = i /\ (i = a \/ Escalates(q))
    <3>1. severity'[j] = SeverityOf[a] /\ incidentOf'[a] = j /\ a \in Stored'
      BY <1>1, <2>1
    <3>2. SeverityOf[a] >= SeverityOf[j]
      <4>1. CASE i = a
        BY <1>b, <2>1, <4>1
      <4>2. CASE i # a
        BY <1>0, <1>1, <1>b, <2>1, <4>2 DEF Escalates, SEVERITY_RANK
      <4> QED BY <4>1, <4>2
    <3> QED BY <3>1, <3>2
  <2>2. CASE ~(j = i /\ (i = a \/ Escalates(q)))
    <3>1. severity'[j] = severity[j]
      BY <1>1, <2>2
    <3>2. /\ severity[j] >= SeverityOf[j]
          /\ \E b \in Stored : incidentOf[b] = j /\ SeverityOf[b] = severity[j]
      BY <1>2, <3>1 DEF TablesOK, SeverityIsBacked
    <3>3. \E b \in Stored' : incidentOf'[b] = j /\ SeverityOf[b] = severity[j]
      BY <1>1, <1>a, <3>2
    <3> QED BY <3>1, <3>2, <3>3
  <2> QED BY <2>1, <2>2
<1>7. UnracedSeverityIsMaximal'
  <2> SUFFICES ASSUME NEW c \in Stored', incidentOf'[c] \notin raced'
               PROVE  SeverityOf[c] <= severity'[incidentOf'[c]]
    BY DEF UnracedSeverityIsMaximal
  <2>1. /\ raced \subseteq raced'
        /\ i # a /\ severity[i] # req[q].seen => i \in raced'
    BY <1>0 DEF Commit
  <2>2. ASSUME NEW b \in Stored, incidentOf[b] \notin raced
        PROVE  /\ SeverityOf[b] <= severity[incidentOf[b]]
               /\ severity[incidentOf[b]] \in 0..3 /\ incidentOf[b] \in Alerts
    BY <1>2, <1>a, <1>c, <2>2 DEF TablesOK, UnracedSeverityIsMaximal, CorrelationIsSound,
       TypeOK, Stored
  <2>3. CASE c = a
    <3>1. i # a => req[q].seen = severity[i] /\ severity[i] \in 0..3
      BY <1>1, <1>c, <2>1, <2>3 DEF Joins
    <3>2. ~(i = a \/ Escalates(q)) => SeverityOf[a] <= severity[i]
      BY <1>0, <1>b, <3>1 DEF Escalates
    <3>3. SeverityOf[a] <= SeverityOf[a]
      BY <1>b
    <3>4. CASE i = a \/ Escalates(q)
      BY <1>1, <2>3, <3>3, <3>4
    <3>5. CASE ~(i = a \/ Escalates(q))
      BY <1>1, <2>3, <3>2, <3>5
    <3> QED BY <3>4, <3>5
  <2>4. CASE c \in Stored
    <3>0. PICK j \in Alerts : j = incidentOf[c] /\ j = incidentOf'[c]
      BY <1>1, <1>2, <1>a, <2>4 DEF TypeOK, Stored
    <3>1. SeverityOf[c] <= severity[j] /\ severity[j] \in 0..3
      BY <2>1, <2>2, <2>4, <3>0
    <3>2. CASE j # i
      BY <1>1, <3>0, <3>1, <3>2
    <3>3. CASE j = i /\ ~(i = a \/ Escalates(q))
      BY <1>1, <3>0, <3>1, <3>3
    <3>4. CASE j = i /\ i # a /\ Escalates(q)
      <4>1. req[q].seen = severity[i] /\ SeverityOf[a] > req[q].seen
        BY <1>0, <2>1, <3>0, <3>4 DEF Escalates
      <4>2. SeverityOf[c] <= SeverityOf[a]
        BY <1>b, <1>a, <2>4, <3>1, <3>4, <4>1
      <4> QED BY <1>1, <3>0, <3>4, <4>2
    <3>5. CASE j = i /\ i = a
      <4>1. severity[incidentOf[c]] # None
        BY <1>2, <2>4 DEF TablesOK, CorrelationIsSound
      <4> QED BY <4>1, <1>1, <3>0, <3>5
    <3> QED BY <3>2, <3>3, <3>4, <3>5
  <2> QED BY <1>1, <2>3, <2>4
<1> QED BY <1>3, <1>4, <1>5, <1>6, <1>7 DEF TablesOK

-----------------------------------------------------------------------------
LEMMA IInvInit == Init => IInv
<1> SUFFICES ASSUME Init PROVE IInv
  OBVIOUS
<1>1. Stored = {} /\ \A i \in Alerts : severity[i] = None
  BY DEF Init, Stored
<1>2. TablesOK
  BY <1>1 DEF TablesOK, IncidentsAreOpened, StoredOnce, CorrelationIsSound,
     SeverityIsBacked, UnracedSeverityIsMaximal
<1>3. ASSUME NEW q \in Requests PROVE SessionOK(q)
  <2>1. req[q].pc = "ready"
    BY DEF Init, Ready
  <2>2. \A n \in DOMAIN BatchOf[q] : BatchOf[q][n] \in Alerts
    BY IngestionAssumption
  <2> QED BY <2>1, <2>2 DEF Init, SessionOK, KeyOwned, AnonymousAhead, TargetFits, Working
<1> QED BY <1>2, <1>3, TypeInit DEF IInv

(* A step that writes no table: the session that takes it has to be sound. *)
LEMMA QuietStep ==
    ASSUME IInv, TypeOK', UNCHANGED <<incidentOf, severity, raced>>,
           NEW q \in Requests, LeavesOthers(q), SessionOK(q)'
    PROVE  IInv'
<1>1. \A p \in Requests : SessionOK(p)'
  BY OtherSession
<1>2. Stored' = Stored
  BY DEF Stored
<1>3. TablesOK'
  BY <1>2 DEF IInv, TablesOK, IncidentsAreOpened, StoredOnce, CorrelationIsSound,
     SeverityIsBacked, UnracedSeverityIsMaximal, SameExternalId, Near
<1> QED BY <1>1, <1>3 DEF IInv

LEMMA FailKeeps ==
    ASSUME IInv, TypeOK', UNCHANGED <<incidentOf, severity, raced>>,
           NEW q \in Requests, Fail(q)
    PROVE  IInv'
<1>1. TypeOK
  BY DEF IInv
<1>2. LeavesOthers(q)
  BY <1>1, FailType, ReleaseType DEF Fail, LeavesOthers
<1>3. SessionOK(q)'
  BY <1>1, FailType, OwnSession DEF Working
<1> QED BY <1>2, <1>3, QuietStep

LEMMA AdvanceKeeps ==
    ASSUME IInv, TypeOK', UNCHANGED <<incidentOf, severity, raced, idKey>>,
           NEW q \in Requests, Advance(q), req[q].pc \notin {"answer", "done"}
    PROVE  IInv'
<1>1. TypeOK
  BY DEF IInv
<1>2. LeavesOthers(q)
  BY <1>1, AdvanceType DEF LeavesOthers
<1>3. SessionOK(q)'
  BY <1>1, AdvanceType, OwnSession DEF Working
<1> QED BY <1>2, <1>3, QuietStep

(* A step to a stage that has nothing to store yet. *)
LEMMA GoToKeeps ==
    ASSUME IInv, TypeOK', UNCHANGED <<incidentOf, severity, raced, idKey>>,
           NEW q \in Requests, NEW pc \in {"lookup", "service", "create", "alert", "done"},
           GoTo(q, pc), pc = "done" \/ req[q].pc \notin {"answer", "done"}
    PROVE  IInv'
<1>1. TypeOK
  BY DEF IInv
<1>2. LeavesOthers(q) /\ req'[q].pc = pc /\ req'[q].pos = req[q].pos
  BY <1>1, GoToType DEF LeavesOthers
<1>3. SessionOK(q)'
  BY <1>2, OwnSession DEF Working
<1> QED BY <1>2, <1>3, QuietStep

(* The alert is inserted: its external id is the session's own from now    *)
(* on, and nobody has stored it.                                           *)
LEMMA InsertKeeps ==
    ASSUME IInv, TypeOK', NEW q \in Requests, InsertAlert(q)
    PROVE  IInv'
<1>1. TypeOK /\ SessionOK(q) /\ UNCHANGED <<incidentOf, severity, raced>> /\ req[q].pc = "alert"
  BY DEF IInv, InsertAlert, tables
<1>2. CASE Fail(q)
  BY <1>1, <1>2, FailKeeps
<1>3. CASE /\ GoTo(q, "correlate")
           /\ \/ ExternalId[Current(q)] = None /\ UNCHANGED idKey
              \/ /\ ExternalId[Current(q)] # None
                 /\ idKey[ExternalId[Current(q)]] = None
                 /\ \A b \in Stored : ~SameExternalId(Current(q), b)
                 /\ idKey' = [idKey EXCEPT ![ExternalId[Current(q)]] = q]
  <2>1. /\ req'[q].pc = "correlate" /\ req'[q].pos = req[q].pos
        /\ \A p \in Requests \ {q} : req'[p] = req[p]
    BY <1>1, <1>3, GoToType
  <2>2. Current(q) \in Alerts /\ Current(q)' = Current(q) /\ Stored' = Stored
    BY <1>1, <2>1, CurrentType DEF Current, Stored
  <2>3. \A p \in Requests \ {q} : \A e \in ExternalIds : idKey[e] = p => idKey'[e] = p
    BY <1>1, <1>3, IngestionAssumption DEF TypeOK
  <2>4. KeyOwned(q)'
    <3>1. ExternalId[Current(q)] # None =>
             /\ idKey'[ExternalId[Current(q)]] = q
             /\ \A b \in Stored : ~SameExternalId(Current(q), b)
      BY <1>1, <1>3, <2>2, IngestionAssumption DEF TypeOK
    <3> QED BY <2>2, <3>1 DEF KeyOwned, SameExternalId
  <2>5. AnonymousAhead(q)'
    BY <1>1, <2>1 DEF SessionOK, AnonymousAhead, Ahead
  <2>6. TargetFits(q)'
    BY <2>1 DEF TargetFits
  <2> QED BY <1>1, <2>1, <2>3, <2>4, <2>5, <2>6, QuietStep DEF LeavesOthers, SessionOK
<1> QED BY <1>2, <1>3 DEF InsertAlert, locks

(* The incident that was found fits the alert; so it will when the session *)
(* commits.                                                                *)
LEMMA CorrelateKeeps ==
    ASSUME IInv, TypeOK', NEW q \in Requests, Correlate(q)
    PROVE  IInv'
<1>1. /\ TypeOK /\ SessionOK(q) /\ req[q].pc = "correlate"
      /\ UNCHANGED <<incidentOf, severity, raced, idKey>>
      /\ TablesOK
  BY DEF IInv, Correlate, tables, locks
<1>2. /\ Current(q) \in Alerts /\ incidentOf[Current(q)] = None /\ severity[Current(q)] = None
  BY <1>1, NotStoredYet DEF Working
<1>3. req \in [Requests -> RequestState]
  BY <1>1 DEF TypeOK
<1>4. PICK pc \in {"escalate", "commit"}, i \in Alerts, r \in SEVERITY_RANK :
         /\ req' = [req EXCEPT ![q].pc = pc, ![q].target = i, ![q].seen = r]
         /\ pc = "escalate" => i # Current(q)
         /\ i # Current(q) => Joins(Current(q), i) /\ r >= SeverityOf[i]
  <2>1. CASE \E i \in Latest({i \in Alerts : Correlates(Current(q), i)}) :
               req' = [req EXCEPT ![q].pc = "escalate", ![q].target = i,
                                  ![q].seen = severity[i]]
    <3>1. PICK i \in Latest({i \in Alerts : Correlates(Current(q), i)}) :
               req' = [req EXCEPT ![q].pc = "escalate", ![q].target = i,
                                  ![q].seen = severity[i]]
      BY <2>1
    <3>2. i \in Alerts /\ Correlates(Current(q), i)
      BY DEF Latest
    <3>3. severity[i] \in SEVERITY_RANK /\ severity[i] >= SeverityOf[i]
      BY <1>1, <3>2 DEF Correlates, TypeOK, TablesOK, SeverityIsBacked
    <3>4. PICK b \in Stored : /\ incidentOf[b] = i /\ TypeOf[b] = TypeOf[Current(q)]
                              /\ Near(Current(q), b)
      BY <3>2 DEF Correlates
    <3>5. TypeOf[b] = TypeOf[i]
      BY <1>1, <3>4 DEF TablesOK, CorrelationIsSound
    <3>6. Joins(Current(q), i)
      BY <3>2, <3>4, <3>5 DEF Joins, Correlates
    <3>7. i # Current(q)
      BY <1>2, <3>2 DEF Correlates
    <3> QED BY <3>1, <3>2, <3>3, <3>6, <3>7
  <2>2. CASE req' = [req EXCEPT ![q].pc = "commit", ![q].target = Current(q),
                                ![q].seen = SeverityOf[Current(q)]]
    <3>1. SeverityOf[Current(q)] \in SEVERITY_RANK
      BY <1>2, IngestionAssumption DEF SEVERITY_RANK
    <3> QED BY <1>2, <2>2, <3>1
  <2> QED BY <2>1, <2>2 DEF Correlate
<1>5. \A p \in Requests \ {q} : req'[p] = req[p]
  BY <1>3, <1>4
<1>6. req'[q] = [req[q] EXCEPT !.pc = pc, !.target = i, !.seen = r]
  BY <1>3, <1>4
<1>7. /\ req'[q].pc = pc /\ req'[q].target = i /\ req'[q].seen = r
      /\ req'[q].pos = req[q].pos
  BY <1>3, <1>6 DEF RequestState
<1>8. Current(q)' = Current(q) /\ Stored' = Stored
  BY <1>1, <1>7 DEF Current, Stored
<1>9. KeyOwned(q)'
  BY <1>1, <1>7, <1>8 DEF SessionOK, KeyOwned, SameExternalId, Working
<1>10. AnonymousAhead(q)'
  BY <1>1, <1>7 DEF SessionOK, AnonymousAhead, Ahead
<1>11. TargetFits(q)'
  BY <1>1, <1>4, <1>7, <1>8 DEF TargetFits, Joins
<1> QED BY <1>1, <1>5, <1>9, <1>10, <1>11, QuietStep DEF LeavesOthers, SessionOK

LEMMA FlushKeeps ==
    ASSUME IInv, TypeOK', NEW q \in Requests, FlushEscalation(q)
    PROVE  IInv'
<1>1. /\ TypeOK /\ SessionOK(q) /\ req[q].pc = "escalate"
      /\ UNCHANGED <<incidentOf, severity, raced, idKey>>
  BY DEF IInv, FlushEscalation, tables
<1>2. /\ req'[q].pc = "commit" /\ req'[q].pos = req[q].pos
      /\ req'[q].target = req[q].target /\ req'[q].seen = req[q].seen
      /\ \A p \in Requests \ {q} : req'[p] = req[p]
  BY <1>1, GoToType DEF FlushEscalation
<1>3. Current(q)' = Current(q) /\ Stored' = Stored
  BY <1>1, <1>2 DEF Current, Stored
<1>4. KeyOwned(q)'
  BY <1>1, <1>2, <1>3 DEF SessionOK, KeyOwned, SameExternalId, Working
<1>5. AnonymousAhead(q)'
  BY <1>1, <1>2 DEF SessionOK, AnonymousAhead, Ahead
<1>6. TargetFits(q)'
  BY <1>1, <1>2, <1>3 DEF SessionOK, TargetFits, Joins
<1> QED BY <1>1, <1>2, <1>4, <1>5, <1>6, QuietStep DEF LeavesOthers, SessionOK

LEMMA CommitKeeps ==
    ASSUME IInv, TypeOK', NEW q \in Requests, Commit(q)
    PROVE  IInv'
<1>1. TypeOK /\ req[q].pc = "commit" /\ req[q].pos \in Nat
  BY DEF IInv, Commit, TypeOK, RequestState
<1>2. /\ \/ req'[q].pc = "lookup" /\ req'[q].pos = req[q].pos + 1
         \/ req'[q].pc = "answer"
  BY <1>1, AdvanceType DEF Commit
<1>3. KeyOwned(q)' /\ TargetFits(q)'
  BY <1>2 DEF KeyOwned, TargetFits, Working
<1>4. ASSUME NEW n \in DOMAIN BatchOf[q], ExternalId[BatchOf[q][n]] = None, Ahead(q, n)'
      PROVE  incidentOf'[BatchOf[q][n]] = None
  <2>1. n \in Nat /\ BatchOf[q][n] \in Alerts /\ req[q].pos \in DOMAIN BatchOf[q]
    BY <1>1, CurrentType, IngestionAssumption
  <2>2. n >= req[q].pos + 1
    BY <1>2, <1>4 DEF Ahead
  <2>3. incidentOf[BatchOf[q][n]] = None
    BY <1>1, <1>4, <2>1, <2>2 DEF IInv, SessionOK, AnonymousAhead, Ahead
  <2>4. BatchOf[q][n] # Current(q)
    BY <1>1, <1>4, <2>1, <2>2, AnonymousAssumption DEF Current
  <2> QED BY <2>1, <2>3, <2>4, CommitTables
<1>5. \A p \in Requests : SessionOK(p)'
  BY <1>3, <1>4, CommitOther DEF SessionOK, AnonymousAhead
<1> QED BY <1>5, CommitKeepsTables DEF IInv

LEMMA IInvStep == IInv /\ [Next]_vars => IInv'
<1> SUFFICES ASSUME IInv, [Next]_vars PROVE IInv'
  OBVIOUS
<1>0. TypeOK'
  BY TypeStep DEF IInv, SessionOK, TargetFits
<1>1. ASSUME NEW q \in Requests, Receive(q) PROVE IInv'
  BY <1>0, <1>1, GoToKeeps DEF Receive, tables, locks
<1>2. ASSUME NEW q \in Requests, LookUpExternalId(q) PROVE IInv'
  <2>1. CASE Advance(q)
    BY <1>0, <1>2, <2>1, AdvanceKeeps DEF LookUpExternalId, tables, locks
  <2>2. CASE GoTo(q, "service")
    BY <1>0, <1>2, <2>2, GoToKeeps DEF LookUpExternalId, tables, locks
  <2> QED BY <1>2, <2>1, <2>2 DEF LookUpExternalId
<1>3. ASSUME NEW q \in Requests, FindService(q) PROVE IInv'
  <2>1. GoTo(q, "alert") \/ GoTo(q, "create")
    BY <1>3 DEF FindService
  <2> QED BY <1>0, <1>3, <2>1, GoToKeeps DEF FindService, tables, locks
<1>4. ASSUME NEW q \in Requests, CreateService(q) PROVE IInv'
  <2>1. CASE Fail(q)
    BY <1>0, <1>4, <2>1, FailKeeps DEF CreateService, tables
  <2>2. CASE GoTo(q, "alert") /\ UNCHANGED <<idKey, rowLock>>
    BY <1>0, <1>4, <2>2, GoToKeeps DEF CreateService, tables
  <2> QED BY <1>4, <2>1, <2>2 DEF CreateService
<1>5. ASSUME NEW q \in Requests, InsertAlert(q) PROVE IInv'
  BY <1>0, <1>5, InsertKeeps
<1>6. ASSUME NEW q \in Requests, Correlate(q) PROVE IInv'
  BY <1>0, <1>6, CorrelateKeeps
<1>7. ASSUME NEW q \in Requests, FlushEscalation(q) PROVE IInv'
  BY <1>0, <1>7, FlushKeeps
<1>8. ASSUME NEW q \in Requests, Commit(q) PROVE IInv'
  BY <1>0, <1>8, CommitKeeps
<1>9. ASSUME NEW q \in Requests, Answer(q) PROVE IInv'
  BY <1>0, <1>9, GoToKeeps DEF Answer, tables, locks
<1>10. ASSUME NEW q \in Requests, Crash(q) PROVE IInv'
  BY <1>0, <1>10, FailKeeps DEF Crash, tables
<1>11. ASSUME UNCHANGED <<tables, locks, req, raced>> PROVE IInv'
  <2>1. Stored' = Stored /\ \A q \in Requests : Current(q)' = Current(q)
    BY <1>11 DEF Stored, Current, tables
  <2>2. TablesOK'
    BY <1>11, <2>1 DEF IInv, TablesOK, IncidentsAreOpened, StoredOnce, CorrelationIsSound,
       SeverityIsBacked, UnracedSeverityIsMaximal, SameExternalId, Near, tables
  <2>3. ASSUME NEW q \in Requests PROVE SessionOK(q)'
    BY <1>11, <2>1 DEF IInv, SessionOK, KeyOwned, AnonymousAhead, Ahead, TargetFits, Joins,
       SameExternalId, tables, locks
  <2> QED BY <1>0, <2>2, <2>3 DEF IInv
<1>12. (\E i \in Alerts : ChangeStatus(i)) \/ UNCHANGED vars =>
          UNCHANGED <<tables, locks, req, raced>>
  BY DEF ChangeStatus, vars
<1> QED BY <1>1, <1>2, <1>3, <1>4, <1>5, <1>6, <1>7, <1>8, <1>9, <1>10, <1>11, <1>12
        DEF Next, LockStep, FreeStep

LEMMA IInvCorrect == Spec => []IInv
BY IInvInit, IInvStep, PTL DEF Spec

-----------------------------------------------------------------------------
(* Every reachable state is well typed, and no request leaves its batch. *)
THEOREM IngestionTypeCorrect == Spec => []TypeOK
<1>1. IInv => TypeOK
  BY DEF IInv
<1> QED BY <1>1, IInvCorrect, PTL

(* An alert with an external id is stored once, whatever number of         *)
(* deliveries of it race, fail, or are repeated after a lost answer.       *)
THEOREM AlertsAreStoredOnce == Spec => []StoredOnce
<1>1. IInv => StoredOnce
  BY DEF IInv, TablesOK
<1> QED BY <1>1, IInvCorrect, PTL

(* The alerts of an incident belong together, although each was correlated *)
(* on a snapshot that other sessions have changed since.                   *)
THEOREM CorrelationsAreSound == Spec => []CorrelationIsSound
<1>1. IInv => CorrelationIsSound
  BY DEF IInv, TablesOK
<1> QED BY <1>1, IInvCorrect, PTL

(* Racing escalations may lose the worst severity, but never go below the  *)
(* alert that opened the incident, nor invent a severity.                  *)
THEOREM SeveritiesAreBacked == Spec => []SeverityIsBacked
<1>1. IInv => SeverityIsBacked
  BY DEF IInv, TablesOK
<1> QED BY <1>1, IInvCorrect, PTL

(* A race between a session's read and its commit is the only way to an    *)
(* incident that is less severe than one of its alerts.                    *)
THEOREM UnracedSeveritiesAreMaximal == Spec => []UnracedSeverityIsMaximal
<1>1. IInv => UnracedSeverityIsMaximal
  BY DEF IInv, TablesOK
<1> QED BY <1>1, IInvCorrect, PTL

-----------------------------------------------------------------------------
(* When a session holds what: the locks are taken in the order of service, *)
(* alert and incident, and all of them end with the transaction.           *)
LocksInOrder(q) ==
    /\ \A s \in Services : nameKey[s] = q => req[q].pc \in {"alert"} \cup Working
    /\ \A e \in ExternalIds : idKey[e] = q => req[q].pc \in Working
    /\ \A i \in Alerts : rowLock[i] = q => req[q].pc = "commit"

LockInv == IInv /\ \A q \in Requests : LocksInOrder(q)

LEMMA ReleaseIsAll ==
    ASSUME TypeOK, NEW q \in Requests, ReleaseLocks(q)
    PROVE  /\ \A s \in Services : nameKey'[s] # q
           /\ \A e \in ExternalIds : idKey'[e] # q
           /\ \A i \in Alerts : rowLock'[i] # q
           /\ \A p \in Requests \ {q} :
                 /\ \A s \in Services : nameKey'[s] = p => nameKey[s] = p
                 /\ \A e \in ExternalIds : idKey'[e] = p => idKey[e] = p
                 /\ \A i \in Alerts : rowLock'[i] = p => rowLock[i] = p
BY IngestionAssumption DEF TypeOK, ReleaseLocks, Unlocked

(* A transaction that ends leaves nothing locked. *)
LEMMA EndKeepsOrder ==
    ASSUME LockInv, NEW q \in Requests, ReleaseLocks(q), Fail(q) \/ Advance(q)
    PROVE  \A p \in Requests : LocksInOrder(p)'
<1>1. TypeOK
  BY DEF LockInv, IInv
<1>2. \A p \in Requests \ {q} : req'[p] = req[p]
  BY <1>1, FailType, AdvanceType
<1>3. ASSUME NEW p \in Requests \ {q} PROVE LocksInOrder(p)'
  BY <1>1, <1>2, ReleaseIsAll DEF LockInv, LocksInOrder
<1>4. LocksInOrder(q)'
  BY <1>1, ReleaseIsAll DEF LocksInOrder
<1> QED BY <1>3, <1>4

(* A step without a lock keeps the order if the session that takes it is   *)
(* at a stage that holds none, or stays among those that hold all but the  *)
(* incident.                                                               *)
LEMMA QuietKeepsOrder ==
    ASSUME LockInv, NEW q \in Requests, UNCHANGED locks,
           \A p \in Requests \ {q} : req'[p] = req[p],
           \/ req[q].pc \notin {"alert"} \cup Working
           \/ req[q].pc = "alert" /\ req'[q].pc = "correlate"
           \/ req[q].pc = "correlate" /\ req'[q].pc \in {"escalate", "commit"}
    PROVE  \A p \in Requests : LocksInOrder(p)'
<1>1. UNCHANGED <<nameKey, idKey, rowLock>>
  BY DEF locks
<1>2. ASSUME NEW p \in Requests \ {q} PROVE LocksInOrder(p)'
  BY <1>1 DEF LockInv, LocksInOrder
<1>3. LocksInOrder(q)'
  BY <1>1 DEF LockInv, LocksInOrder, Working
<1> QED BY <1>2, <1>3

LEMMA CreateKeepsOrder ==
    ASSUME LockInv, NEW q \in Requests, CreateService(q)
    PROVE  \A p \in Requests : LocksInOrder(p)'
<1>1. TypeOK /\ req[q].pc = "create"
  BY DEF LockInv, IInv, CreateService
<1>2. CASE Fail(q)
  BY <1>2, EndKeepsOrder DEF Fail
<1>3. CASE /\ nameKey' = [nameKey EXCEPT ![ServiceOf[Current(q)]] = q]
           /\ GoTo(q, "alert") /\ UNCHANGED <<idKey, rowLock>>
  <2>1. req'[q].pc = "alert" /\ \A p \in Requests \ {q} : req'[p] = req[p]
    BY <1>1, <1>3, GoToType
  <2>2. \A p \in Requests \ {q} : \A s \in Services : nameKey'[s] = p => nameKey[s] = p
    BY <1>1, <1>3 DEF TypeOK
  <2>3. ASSUME NEW p \in Requests \ {q} PROVE LocksInOrder(p)'
    BY <1>3, <2>1, <2>2 DEF LockInv, LocksInOrder
  <2>4. LocksInOrder(q)'
    BY <1>1, <1>3, <2>1 DEF LockInv, LocksInOrder, Working
  <2> QED BY <2>3, <2>4
<1> QED BY <1>2, <1>3 DEF CreateService

LEMMA InsertKeepsOrder ==
    ASSUME LockInv, NEW q \in Requests, InsertAlert(q)
    PROVE  \A p \in Requests : LocksInOrder(p)'
<1>1. TypeOK /\ req[q].pc = "alert"
  BY DEF LockInv, IInv, InsertAlert
<1>2. CASE Fail(q)
  BY <1>2, EndKeepsOrder DEF Fail
<1>3. CASE GoTo(q, "correlate") /\ UNCHANGED locks
  BY <1>1, <1>3, GoToType, QuietKeepsOrder
<1>4. CASE /\ idKey' = [idKey EXCEPT ![ExternalId[Current(q)]] = q]
           /\ GoTo(q, "correlate") /\ UNCHANGED <<nameKey, rowLock>>
  <2>1. req'[q].pc = "correlate" /\ \A p \in Requests \ {q} : req'[p] = req[p]
    BY <1>1, <1>4, GoToType
  <2>2. \A p \in Requests \ {q} : \A e \in ExternalIds : idKey'[e] = p => idKey[e] = p
    BY <1>1, <1>4 DEF TypeOK
  <2>3. ASSUME NEW p \in Requests \ {q} PROVE LocksInOrder(p)'
    BY <1>4, <2>1, <2>2 DEF LockInv, LocksInOrder
  <2>4. LocksInOrder(q)'
    BY <1>1, <1>4, <2>1 DEF LockInv, LocksInOrder, Working
  <2> QED BY <2>3, <2>4
<1> QED BY <1>2, <1>3, <1>4 DEF InsertAlert

LEMMA CorrelateKeepsOrder ==
    ASSUME LockInv, NEW q \in Requests, Correlate(q)
    PROVE  \A p \in Requests : LocksInOrder(p)'
<1>1. req \in [Requests -> RequestState] /\ req[q].pc = "correlate" /\ UNCHANGED locks
  BY DEF LockInv, IInv, TypeOK, Correlate
<1>2. PICK pc \in {"escalate", "commit"} :
         \E i, r : req' = [req EXCEPT ![q].pc = pc, ![q].target = i, ![q].seen = r]
  BY Zenon DEF Correlate
<1>3. PICK i, r : req' = [req EXCEPT ![q].pc = pc, ![q].target = i, ![q].seen = r]
  BY <1>2
<1>4. req'[q].pc = pc /\ \A p \in Requests \ {q} : req'[p] = req[p]
  BY <1>1, <1>3 DEF RequestState
<1> QED BY <1>1, <1>4, QuietKeepsOrder

LEMMA FlushKeepsOrder ==
    ASSUME LockInv, NEW q \in Requests, FlushEscalation(q)
    PROVE  \A p \in Requests : LocksInOrder(p)'
<1>1. TypeOK /\ req[q].pc = "escalate" /\ UNCHANGED <<nameKey, idKey>>
  BY DEF LockInv, IInv, FlushEscalation
<1>2. req'[q].pc = "commit" /\ \A p \in Requests \ {q} : req'[p] = req[p]
  BY <1>1, GoToType DEF FlushEscalation
<1>3. \A p \in Requests \ {q} : \A i \in Alerts : rowLock'[i] = p => rowLock[i] = p
  BY <1>1 DEF TypeOK, FlushEscalation
<1>4. ASSUME NEW p \in Requests \ {q} PROVE LocksInOrder(p)'
  BY <1>1, <1>2, <1>3 DEF LockInv, LocksInOrder
<1>5. LocksInOrder(q)'
  BY <1>1, <1>2 DEF LockInv, LocksInOrder, Working
<1> QED BY <1>4, <1>5

LEMMA LocksInOrderNext ==
    ASSUME LockInv, [Next]_vars
    PROVE  \A p \in Requests : LocksInOrder(p)'
<1>0. TypeOK
  BY DEF LockInv, IInv
<1>1. ASSUME NEW q \in Requests, Receive(q) \/ LookUpExternalId(q) \/ FindService(q) \/ Answer(q)
      PROVE  \A p \in Requests : LocksInOrder(p)'
  <2>1. /\ UNCHANGED locks /\ req[q].pc \in {"ready", "lookup", "service", "answer"}
        /\ \/ \E pc \in {"lookup", "service", "create", "alert", "done"} : GoTo(q, pc)
           \/ Advance(q)
    <3>1. CASE FindService(q)
      <4>1. GoTo(q, "alert") \/ GoTo(q, "create")
        BY <3>1 DEF FindService
      <4> QED BY <3>1, <4>1 DEF FindService
    <3> QED BY <1>1, <3>1 DEF Receive, LookUpExternalId, Answer
  <2>2. \A p \in Requests \ {q} : req'[p] = req[p]
    BY <1>0, <2>1, GoToType, AdvanceType
  <2> QED BY <2>1, <2>2, QuietKeepsOrder DEF Working
<1>2. ASSUME NEW q \in Requests, Commit(q) \/ Crash(q)
      PROVE  \A p \in Requests : LocksInOrder(p)'
  BY <1>2, EndKeepsOrder DEF Commit, Crash, Fail
<1>3. ASSUME UNCHANGED <<locks, req>> PROVE \A p \in Requests : LocksInOrder(p)'
  BY <1>3 DEF LockInv, LocksInOrder, locks
<1>4. (\E i \in Alerts : ChangeStatus(i)) \/ UNCHANGED vars => UNCHANGED <<locks, req>>
  BY DEF ChangeStatus, vars
<1> QED
  BY <1>1, <1>2, <1>3, <1>4, CreateKeepsOrder, InsertKeepsOrder, CorrelateKeepsOrder,
     FlushKeepsOrder
     DEF Next, LockStep, FreeStep

(* Who waits for a row of incidents waits for a session that only has to   *)
(* commit, who waits for an external id for one that may wait for such a   *)
(* row, and who waits for the name of a service for one that may wait for  *)
(* either.                                                                 *)
LEMMA WaitsGoUp ==
    ASSUME LockInv, NEW q \in Requests, NEW p \in Requests, WaitsFor(q, p)
    PROVE  \/ req[q].pc = "escalate" /\ req[p].pc = "commit"
           \/ req[q].pc = "alert" /\ req[p].pc \in Working
           \/ req[q].pc = "create" /\ req[p].pc \in {"alert"} \cup Working
<1>1. Current(q) \in Alerts
  BY CurrentType DEF LockInv, IInv
<1>2. /\ ServiceOf[Current(q)] \in Services
      /\ ExternalId[Current(q)] # None => ExternalId[Current(q)] \in ExternalIds
  BY <1>1, IngestionAssumption
<1>3. req[q].pc = "escalate" => req[q].target \in Alerts
  BY DEF LockInv, IInv, SessionOK, TargetFits
<1> QED BY <1>2, <1>3 DEF LockInv, LocksInOrder, WaitsFor

LEMMA NoCircle == LockInv => NoCircularWait
<1> SUFFICES ASSUME LockInv, NEW S \in SUBSET InFlight, S # {}
             PROVE  \E q \in S : \/ \A p \in Requests : ~WaitsFor(q, p)
                                 \/ \E p \in InFlight \ S : WaitsFor(q, p)
  BY DEF NoCircularWait
<1> DEFINE Goes(q) == \/ \A p \in Requests : ~WaitsFor(q, p)
                      \/ \E p \in InFlight \ S : WaitsFor(q, p)
<1>0. S \subseteq Requests
  BY DEF InFlight
<1>1. ASSUME NEW q \in S PROVE Goes(q) \/ \E p \in S : WaitsFor(q, p)
  <2>1. ASSUME NEW p \in Requests, WaitsFor(q, p) PROVE p \in InFlight
    BY <1>0, <2>1, WaitsGoUp DEF InFlight, Working
  <2> QED BY <2>1
<1>2. ASSUME NEW q \in S, req[q].pc \in {"correlate", "commit"} PROVE Goes(q)
  BY <1>2 DEF WaitsFor
<1>3. ASSUME NEW q \in S, req[q].pc \in Working PROVE \E p \in S : Goes(p)
  BY <1>0, <1>1, <1>2, <1>3, WaitsGoUp DEF Working
<1>4. ASSUME NEW q \in S, req[q].pc = "alert" PROVE \E p \in S : Goes(p)
  BY <1>0, <1>1, <1>3, <1>4, WaitsGoUp
<1>5. ASSUME NEW q \in S PROVE \E p \in S : Goes(p)
  BY <1>0, <1>1, <1>3, <1>4, WaitsGoUp
<1> QED BY <1>5

(* For any number of requests, alerts and services, in whatever order the  *)
(* batches name them: among sessions that wait for each other's keys and   *)
(* rows one can always go on, or waits for a session that is not of them.  *)
THEOREM NoWaitsInACircle == Spec => []NoCircularWait
<1>1. Init => LockInv
  BY IInvInit, IngestionAssumption DEF Init, LockInv, LocksInOrder
<1>2. LockInv /\ [Next]_vars => LockInv'
  BY IInvStep, LocksInOrderNext DEF LockInv
<1>3. Spec => []LockInv
  BY <1>1, <1>2, PTL DEF Spec
<1> QED BY <1>3, NoCircle, PTL

=============================================================================
