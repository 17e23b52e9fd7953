-------------------------- MODULE AlertRaces_proofs --------------------------
(***************************************************************************)
(* When an incident may be split in two, and that ingestion is the ledger  *)
(* of IncidentLedger, for any number of requests and alerts, whatever      *)
(* their times and the window.                                             *)
(*                                                                         *)
(* A session that found no incident has looked at what was committed then. *)
(* Until it commits, an incident that its alert would have joined can come *)
(* only from another session that had looked for one too, or be open again.*)
(***************************************************************************)
EXTENDS AlertRaces, AlertIngestion_proofs

Opens(q) == req[q].pc = "commit" /\ req[q].target = Current(q)

Excused(a, b) == {a, b} \in together \/ {a, b} \cap everClosed # {}

OpenedBy(b) == b \in Stored /\ incidentOf[b] = b

OpensTogether ==
    \A p, q \in Requests :
        Opens(p) /\ Opens(q) /\ Current(p) # Current(q) =>
            {Current(p), Current(q)} \in together

OpensBeside ==
    \A q \in Requests : \A b \in Alerts :
        Opens(q) /\ OpenedBy(b) /\ Like(Current(q), b) => Excused(Current(q), b)

RacesInv ==
    /\ closed \subseteq everClosed
    /\ OpensTogether
    /\ OpensBeside
    /\ SecondIncidentIsExcused

-----------------------------------------------------------------------------
LEMMA LikeIsSymmetric ==
    ASSUME NEW a \in Alerts, NEW b \in Alerts, Like(a, b)
    PROVE  Like(b, a)
BY IngestionAssumption DEF Like, Near

LEMMA HistoryGrows ==
    ASSUME NEW a, NEW b, RacesNext, Excused(a, b)
    PROVE  Excused(a, b)'
BY DEF RacesNext, Excused

(* Who opens an incident after a step did so before, or takes the step. *)
LEMMA OpensByCorrelate ==
    ASSUME IInv, Next, NEW q \in Requests, Opens(q)'
    PROVE  \/ Opens(q) /\ Current(q)' = Current(q)
           \/ /\ Correlate(q) /\ Current(q)' = Current(q)
              /\ \A i \in Alerts : ~Correlates(Current(q), i)
<1>1. TypeOK /\ SessionOK(q)
  BY DEF IInv
<1>2. req \in [Requests -> RequestState]
  BY <1>1 DEF TypeOK
<1>3. CASE req'[q] = req[q]
  BY <1>3 DEF Opens, Current
<1>4. CASE \E pc \in {"lookup", "service", "create", "alert", "correlate", "done"} : GoTo(q, pc)
  BY <1>1, <1>4, GoToType DEF Opens
<1>5. CASE Advance(q)
  BY <1>1, <1>5, AdvanceType DEF Opens
<1>6. CASE Fail(q)
  BY <1>1, <1>6, FailType DEF Opens
<1>7. CASE FlushEscalation(q)
  <2>1. /\ req[q].pc = "escalate" /\ req'[q].pos = req[q].pos
        /\ req'[q].target = req[q].target
    BY <1>1, <1>7, GoToType DEF FlushEscalation
  <2>2. req'[q].target # Current(q)'
    BY <1>1, <2>1 DEF SessionOK, TargetFits, Current
  <2> QED BY <2>2 DEF Opens
<1>8. CASE Correlate(q)
  <2>1. req'[q].pos = req[q].pos
    <3>1. ASSUME NEW pc, NEW i, NEW r,
                 req' = [req EXCEPT ![q].pc = pc, ![q].target = i, ![q].seen = r]
          PROVE  req'[q].pos = req[q].pos
      BY <1>2, <3>1 DEF RequestState
    <3> QED BY <1>8, <3>1 DEF Correlate
  <2>2. {i \in Alerts : Correlates(Current(q), i)} = {}
    <3>1. ASSUME NEW i, req' = [req EXCEPT ![q].pc = "escalate", ![q].target = i,
                                           ![q].seen = severity[i]]
          PROVE  FALSE
      <4>1. req'[q].pc = "escalate"
        BY <1>2, <3>1 DEF RequestState
      <4> QED BY <4>1 DEF Opens
    <3> QED BY <1>8, <3>1 DEF Correlate
  <2> QED BY <1>8, <2>1, <2>2 DEF Current
<1>9. ASSUME NEW p \in Requests \ {q}, LockStep(p) \/ FreeStep(p) \/ Crash(p)
      PROVE  req'[q] = req[q]
  <2>1. CASE Correlate(p)
    BY <1>2, <2>1 DEF Correlate
  <2>2. CASE Fail(p)
    BY <1>1, <2>2, FailType
  <2>3. CASE Advance(p)
    BY <1>1, <2>3, AdvanceType
  <2>4. CASE \E pc : GoTo(p, pc)
    BY <1>2, <2>4 DEF GoTo
  <2> QED
    BY <1>9, <2>1, <2>2, <2>3, <2>4
       DEF LockStep, CreateService, InsertAlert, FlushEscalation, FreeStep, Receive,
           LookUpExternalId, FindService, Commit, Answer, Crash
<1>10. ASSUME LockStep(q) \/ FreeStep(q) \/ Crash(q)
       PROVE  \/ \E pc \in {"lookup", "service", "create", "alert", "correlate", "done"} :
                    GoTo(q, pc)
              \/ Advance(q) \/ Fail(q) \/ FlushEscalation(q) \/ Correlate(q)
  <2>1. CASE FindService(q)
    <3>1. GoTo(q, "alert") \/ GoTo(q, "create")
      BY <2>1 DEF FindService
    <3> QED BY <3>1
  <2> QED
    BY <1>10, <2>1
       DEF LockStep, CreateService, InsertAlert, FreeStep, Receive, LookUpExternalId,
           Commit, Answer, Crash
<1>11. CASE \E i \in Alerts : ChangeStatus(i)
  BY <1>3, <1>11 DEF ChangeStatus
<1> QED BY <1>3, <1>4, <1>5, <1>6, <1>7, <1>8, <1>9, <1>10, <1>11 DEF Next

(* The incidents that are opened come from the commit of who opens one. *)
LEMMA OpenedByCommit ==
    ASSUME IInv, Next, NEW b \in Alerts, OpenedBy(b)'
    PROVE  \/ OpenedBy(b)
           \/ \E q \in Requests : Commit(q) /\ Opens(q) /\ b = Current(q)
<1>1. CASE UNCHANGED incidentOf
  BY <1>1 DEF OpenedBy, Stored
<1>2. ASSUME NEW q \in Requests, Commit(q)
      PROVE  OpenedBy(b) \/ (Opens(q) /\ b = Current(q))
  <2>1. CASE b = Current(q)
    <3>1. incidentOf'[b] = req[q].target
      BY <1>2, <2>1, CommitTables
    <3> QED BY <1>2, <2>1, <3>1 DEF OpenedBy, Opens, Commit
  <2>2. CASE b # Current(q)
    <3>1. incidentOf'[b] = incidentOf[b]
      BY <1>2, <2>2, CommitTables
    <3> QED BY <3>1 DEF OpenedBy, Stored
  <2> QED BY <2>1, <2>2
<1> QED
  BY <1>1, <1>2
     DEF Next, LockStep, CreateService, InsertAlert, FlushEscalation, FreeStep, Receive,
         LookUpExternalId, FindService, Correlate, Answer, Crash, ChangeStatus, tables

(* Without an open incident to join, what is like it is closed. *)
LEMMA NothingToJoin ==
    ASSUME IInv, NEW a \in Alerts, NEW b \in Alerts, OpenedBy(b), Like(a, b),
           ~Correlates(a, b)
    PROVE  b \in closed
<1>1. severity[b] # None
  BY DEF IInv, TablesOK, CorrelationIsSound, OpenedBy
<1> QED BY <1>1 DEF Correlates, OpenedBy, Like

LEMMA OpensTogetherNext ==
    ASSUME IInv, RacesNext
    PROVE  OpensTogether'
<1> SUFFICES ASSUME NEW p \in Requests, NEW q \in Requests, Opens(p)', Opens(q)',
                    Current(p)' # Current(q)'
             PROVE  {Current(p)', Current(q)'} \in together'
  BY DEF OpensTogether
<1>1. PICK x, y : x = Current(p)' /\ y = Current(q)' /\ x # y
  OBVIOUS
<1>2. x \in Opening' /\ y \in Opening'
  BY <1>1 DEF Opening, Opens
<1>3. {x, y} \in PairsOf(Opening')
  BY <1>1, <1>2 DEF PairsOf
<1> QED BY <1>1, <1>3 DEF RacesNext

LEMMA OpensBesideNext ==
    ASSUME IInv, TypeOK', RacesInv, RacesNext
    PROVE  OpensBeside'
<1> SUFFICES ASSUME NEW q \in Requests, NEW b \in Alerts, Opens(q)', OpenedBy(b)',
                    NEW a, a = Current(q)', Like(a, b)
             PROVE  Excused(a, b)'
  BY DEF OpensBeside, Excused, Like, Near
<1>0. Next /\ a \in Alerts
  <2>1. TypeOK
    BY DEF IInv
  <2>2. Next
    BY DEF RacesNext
  <2> QED BY <2>1, <2>2, OpensByCorrelate, CurrentType
<1>1. CASE \E p \in Requests : Commit(p) /\ Opens(p) /\ b = Current(p)
  <2>1. PICK p \in Requests : Commit(p) /\ Opens(p) /\ b = Current(p)
    BY <1>1
  <2>2. Opens(q) /\ a = Current(q)
    <3>1. CASE Correlate(q)
      <4>1. UNCHANGED incidentOf /\ req[q].pc = "correlate"
        BY <3>1 DEF Correlate, tables
      <4>2. incidentOf'[b] = b /\ incidentOf[b] = None
        BY <2>1, CommitTables DEF Opens
      <4> QED BY <4>1, <4>2, IngestionAssumption
    <3> QED BY <1>0, <3>1, OpensByCorrelate
  <2>3. {b, a} \in together
    BY <2>1, <2>2 DEF RacesInv, OpensTogether, Like
  <2>4. {a, b} = {b, a}
    OBVIOUS
  <2> QED BY <2>3, <2>4, HistoryGrows DEF Excused
<1>2. CASE OpenedBy(b)
  <2>1. CASE Opens(q) /\ a = Current(q)
    BY <1>2, <2>1, HistoryGrows DEF RacesInv, OpensBeside
  <2>2. CASE a = Current(q) /\ ~Correlates(a, b)
    <3>1. b \in closed
      BY <1>0, <1>2, <2>2, NothingToJoin
    <3> QED BY <3>1, HistoryGrows DEF RacesInv, Excused
  <2> QED BY <1>0, <2>1, <2>2, OpensByCorrelate
<1> QED BY <1>0, <1>1, <1>2, OpenedByCommit

LEMMA ExcusedNext ==
    ASSUME IInv, RacesInv, RacesNext
    PROVE  SecondIncidentIsExcused'
<1> SUFFICES ASSUME NEW a \in Alerts, NEW b \in Alerts, OpenedBy(a)', OpenedBy(b)',
                    Like(a, b)
             PROVE  Excused(a, b)'
  BY DEF SecondIncidentIsExcused, OpenedBy, Like, Near, Excused, Stored
<1>1. Next
  BY DEF RacesNext
<1>2. Like(b, a)
  BY LikeIsSymmetric
<1>3. CASE OpenedBy(a) /\ OpenedBy(b)
  BY <1>3, HistoryGrows DEF RacesInv, SecondIncidentIsExcused, OpenedBy, Like, Excused
<1>4. ASSUME NEW x \in Alerts, NEW y \in Alerts, OpenedBy(x), Like(y, x),
             NEW q \in Requests, Opens(q), y = Current(q)
      PROVE  Excused(y, x)'
  BY <1>4, HistoryGrows DEF RacesInv, OpensBeside
<1>5. CASE OpenedBy(a) /\ ~OpenedBy(b)
  <2>1. Excused(b, a)'
    BY <1>1, <1>2, <1>4, <1>5, OpenedByCommit
  <2>2. {a, b} = {b, a}
    OBVIOUS
  <2> QED BY <2>1, <2>2 DEF Excused
<1>6. CASE ~OpenedBy(a) /\ OpenedBy(b)
  BY <1>1, <1>4, <1>6, OpenedByCommit
<1>7. CASE ~OpenedBy(a) /\ ~OpenedBy(b)
  <2>1. PICK p, q \in Requests : Opens(p) /\ Opens(q) /\ a = Current(p) /\ b = Current(q)
    BY <1>1, <1>7, OpenedByCommit
  <2> QED BY <2>1, HistoryGrows DEF RacesInv, OpensTogether, Like, Excused
<1> QED BY <1>3, <1>5, <1>6, <1>7

LEMMA RacesInvNext ==
    ASSUME IInv, IInv', RacesInv, [RacesNext]_racesVars
    PROVE  RacesInv'
<1>1. CASE RacesNext
  <2>1. (closed \subseteq everClosed)'
    BY <1>1 DEF RacesNext, RacesInv
  <2>2. TypeOK'
    BY DEF IInv
  <2> QED BY <1>1, <2>1, <2>2, OpensTogetherNext, OpensBesideNext, ExcusedNext DEF RacesInv
<1>2. CASE UNCHANGED racesVars
  <2>1. /\ UNCHANGED <<together, everClosed, closed, incidentOf, req>>
        /\ Stored' = Stored /\ \A q \in Requests : Current(q)' = Current(q)
    BY <1>2 DEF racesVars, vars, tables, Stored, Current
  <2> QED
    BY <2>1 DEF RacesInv, OpensTogether, OpensBeside, SecondIncidentIsExcused, Opens,
       OpenedBy, Like, Near, Excused
<1> QED BY <1>1, <1>2

LEMMA RacesSpecImpliesSpec == RacesSpec => Spec
<1>1. RacesInit => Init
  BY DEF RacesInit
<1>2. [RacesNext]_racesVars => [Next]_vars
  BY DEF RacesNext, racesVars
<1> QED BY <1>1, <1>2, PTL DEF RacesSpec, Spec

LEMMA RacesInvInit == RacesInit => RacesInv
<1> SUFFICES ASSUME RacesInit PROVE RacesInv
  OBVIOUS
<1>1. Stored = {} /\ closed = {} /\ \A q \in Requests : req[q].pc = "ready"
  BY DEF RacesInit, Init, Stored, Ready
<1> QED
  BY <1>1 DEF RacesInv, OpensTogether, OpensBeside, SecondIncidentIsExcused, Opens, OpenedBy

(* For any alerts and requests, and any window: two incidents that could   *)
(* be one come from two sessions that were about to open theirs at the     *)
(* same time, or one of them was closed at some time.                      *)
THEOREM SecondIncidentsAreExcused == RacesSpec => []SecondIncidentIsExcused
<1>1. IInv /\ IInv' /\ RacesInv /\ [RacesNext]_racesVars => RacesInv'
  BY RacesInvNext
<1>2. RacesInv => SecondIncidentIsExcused
  BY DEF RacesInv
<1> QED
  BY <1>1, <1>2, RacesInvInit, RacesSpecImpliesSpec, IInvCorrect, PTL DEF RacesSpec

-----------------------------------------------------------------------------
(* Whoever looked for an incident and has not committed overlaps everybody *)
(* else who did.  An alert that was found to be the first of its kind may  *)
(* be so no more when it commits: what was stored since then overlapped    *)
(* it, and what was stored before was in a closed incident.                *)
Correlated(q) == req[q].pc \in {"escalate", "commit"}

OverlapsAreNamed ==
    \A p, q \in Requests :
        Correlated(p) /\ Correlated(q) /\ Like(Current(p), Current(q)) =>
            {Current(p), Current(q)} \in overlapping

Apart(a, b) == {a, b} \in overlapping \/ incidentOf[b] \in everClosed

FoundNone ==
    \A q \in Requests : \A b \in Stored :
        Opens(q) /\ Like(Current(q), b) => Apart(Current(q), b)

LedgerInv == OverlapsAreNamed /\ FoundNone

LEMMA OverlapsAreNamedNext ==
    ASSUME IInv', RacesNext
    PROVE  OverlapsAreNamed'
<1> SUFFICES ASSUME NEW p \in Requests, NEW q \in Requests, Correlated(p)', Correlated(q)',
                    NEW x, x = Current(p)', NEW y, y = Current(q)', Like(x, y)
             PROVE  {x, y} \in overlapping'
  BY DEF OverlapsAreNamed, Like, Near
<1>1. x \in Ingesting' /\ y \in Ingesting'
  BY DEF Ingesting, Correlated
<1>2. {x, y} \in LikePairs(Ingesting')
  BY <1>1 DEF LikePairs
<1> QED BY <1>2 DEF RacesNext

(* What is stored came from a commit, and stays in its incident. *)
LEMMA StoredByCommit ==
    ASSUME IInv, Next, NEW b \in Stored'
    PROVE  \/ b \in Stored /\ incidentOf'[b] = incidentOf[b]
           \/ \E p \in Requests : Commit(p) /\ b = Current(p)
<1>1. CASE UNCHANGED incidentOf
  BY <1>1 DEF Stored
<1>2. ASSUME NEW p \in Requests, Commit(p), b # Current(p)
      PROVE  b \in Stored /\ incidentOf'[b] = incidentOf[b]
  BY <1>2, CommitTables DEF Stored
<1> QED
  BY <1>1, <1>2
     DEF Next, LockStep, CreateService, InsertAlert, FlushEscalation, FreeStep, Receive,
         LookUpExternalId, FindService, Correlate, Answer, Crash, ChangeStatus, tables

LEMMA FoundNoneNext ==
    ASSUME IInv, IInv', RacesInv, LedgerInv, RacesNext
    PROVE  FoundNone'
<1> SUFFICES ASSUME NEW q \in Requests, NEW b \in Stored', Opens(q)',
                    NEW a, a = Current(q)', Like(a, b)
             PROVE  {a, b} \in overlapping' \/ incidentOf'[b] \in everClosed'
  BY DEF FoundNone, Apart, Like, Near
<1>0. /\ Next /\ TypeOK
      /\ overlapping \subseteq overlapping' /\ everClosed \subseteq everClosed'
  BY DEF IInv, RacesNext
<1>1. \/ Opens(q) /\ a = Current(q)
      \/ Correlate(q) /\ a = Current(q) /\ \A i \in Alerts : ~Correlates(a, i)
  BY <1>0, OpensByCorrelate
<1>2. CASE \E p \in Requests : Commit(p) /\ b = Current(p)
  <2>1. PICK p \in Requests : Commit(p) /\ b = Current(p)
    BY <1>2
  <2>2. Opens(q) /\ a = Current(q)
    <3>1. CASE Correlate(q)
      <4>1. UNCHANGED incidentOf
        BY <3>1 DEF Correlate, tables
      <4>2. incidentOf[b] = None /\ b \in Alerts
        BY <2>1, CommitTables
      <4> QED BY <4>1, <4>2 DEF Stored
    <3> QED BY <1>1, <3>1
  <2>3. Correlated(q) /\ Correlated(p)
    BY <2>1, <2>2 DEF Correlated, Opens, Commit
  <2> QED BY <1>0, <2>1, <2>2, <2>3 DEF LedgerInv, OverlapsAreNamed
<1>3. CASE b \in Stored /\ incidentOf'[b] = incidentOf[b]
  <2>1. CASE Opens(q) /\ a = Current(q)
    BY <1>0, <1>3, <2>1 DEF LedgerInv, FoundNone, Apart
  <2>2. CASE \A i \in Alerts : ~Correlates(a, i)
    <3>1. PICK i \in Alerts : i = incidentOf[b]
      BY <1>3 DEF IInv, TypeOK, Stored
    <3>2. severity[i] # None /\ ServiceOf[i] = ServiceOf[b]
      BY <1>3, <3>1 DEF IInv, TablesOK, CorrelationIsSound
    <3>3. i \in closed
      BY <1>3, <2>2, <3>1, <3>2 DEF Correlates, Like
    <3> QED BY <1>0, <1>3, <3>1, <3>3 DEF RacesInv
  <2> QED BY <1>1, <2>1, <2>2
<1> QED BY <1>0, <1>2, <1>3, StoredByCommit

LEMMA LedgerInvNext ==
    ASSUME IInv, IInv', RacesInv, LedgerInv, [RacesNext]_racesVars
    PROVE  LedgerInv'
<1>1. CASE RacesNext
  BY <1>1, OverlapsAreNamedNext, FoundNoneNext DEF LedgerInv
<1>2. CASE UNCHANGED racesVars
  <2>1. /\ UNCHANGED <<overlapping, everClosed, incidentOf, req>>
        /\ Stored' = Stored /\ \A q \in Requests : Current(q)' = Current(q)
    BY <1>2 DEF racesVars, vars, tables, Stored, Current
  <2> QED
    BY <2>1 DEF LedgerInv, OverlapsAreNamed, FoundNone, Correlated, Opens, Apart, Like, Near
<1> QED BY <1>1, <1>2

-----------------------------------------------------------------------------
(* The commit of an alert is its instant in the ledger. *)
LEMMA CommittedIsNew ==
    ASSUME IInv, NEW q \in Requests, Commit(q)
    PROVE  Ledger!IsNew(Current(q))
<1>1. Current(q) \in Alerts /\ incidentOf[Current(q)] = None
  BY CommitTables
<1>2. KeyOwned(q) /\ req[q].pc \in Working
  BY DEF IInv, SessionOK, Commit, Working
<1>3. \A b \in Stored : ExternalId[Current(q)] = None \/ ExternalId[Current(q)] # ExternalId[b]
  BY <1>2 DEF KeyOwned, SameExternalId
<1> QED BY <1>1, <1>3 DEF Ledger!IsNew, Ledger!Stored, Stored

LEMMA CommitOpens ==
    ASSUME IInv, LedgerInv, NEW q \in Requests, Commit(q), req[q].target = Current(q)
    PROVE  Ledger!Open(Current(q))
<1>0. PICK a \in Alerts : a = Current(q) /\ incidentOf[a] = None
  BY CommitTables
<1>1. /\ incidentOf' = [incidentOf EXCEPT ![a] = a]
      /\ severity' = [severity EXCEPT ![a] = SeverityOf[a]]
  BY <1>0 DEF Commit
<1>2. ASSUME NEW b \in Stored, Ledger!Alike(a, b)
      PROVE  {a, b} \in overlapping \/ incidentOf[b] \in everClosed
  <2>1. Like(a, b)
    BY <1>0, <1>2 DEF Ledger!Alike, Like, Near, Stored
  <2> QED BY <1>0, <2>1 DEF LedgerInv, FoundNone, Apart, Opens, Commit
<1> QED BY <1>0, <1>1, <1>2, CommittedIsNew DEF Ledger!Open, Ledger!Stored, Stored

LEMMA CommitJoins ==
    ASSUME IInv, NEW q \in Requests, Commit(q), req[q].target # Current(q)
    PROVE  req[q].target \in Alerts /\ Ledger!Join(Current(q), req[q].target)
<1>0. PICK a \in Alerts, i \in Alerts : a = Current(q) /\ i = req[q].target /\ i # a
  BY CommitTables
<1>1. /\ incidentOf' = [incidentOf EXCEPT ![a] = i]
      /\ severity' = [severity EXCEPT ![i] = IF Escalates(q) THEN SeverityOf[a] ELSE @]
      /\ severity[i] # req[q].seen => i \in raced'
  BY <1>0 DEF Commit
<1>2. Joins(a, i) /\ req[q].seen \in 0..3 /\ SeverityOf[a] \in 0..3
  BY <1>0, CommitTables, IngestionAssumption DEF SEVERITY_RANK
<1>3. \E b \in Stored : incidentOf[b] = i /\ Ledger!Alike(a, b)
  <2>1. PICK b \in Stored : incidentOf[b] = i /\ Near(a, b)
    BY <1>2 DEF Joins
  <2>2. ServiceOf[b] = ServiceOf[i] /\ TypeOf[b] = TypeOf[i]
    BY <2>1 DEF IInv, TablesOK, CorrelationIsSound
  <2> QED BY <1>2, <2>1, <2>2 DEF Joins, Near, Ledger!Alike
<1>4. severity' = [severity EXCEPT ![i] = SeverityOf[a]] \/ UNCHANGED severity
  <2>1. severity = [severity EXCEPT ![i] = severity[i]]
    BY DEF IInv, TypeOK
  <2> QED BY <1>1, <2>1
<1>5. CASE severity[i] = req[q].seen
  <2>1. severity' = [severity EXCEPT ![i] = Ledger!Greater(@, SeverityOf[a])]
    <3>1. CASE Escalates(q)
      <4>1. Ledger!Greater(severity[i], SeverityOf[a]) = SeverityOf[a]
        BY <1>0, <1>2, <1>5, <3>1 DEF Escalates, Ledger!Greater
      <4> QED BY <1>1, <3>1, <4>1
    <3>2. CASE ~Escalates(q)
      <4>1. Ledger!Greater(severity[i], SeverityOf[a]) = severity[i]
        BY <1>0, <1>2, <1>5, <3>2 DEF Escalates, Ledger!Greater
      <4> QED BY <1>1, <3>2, <4>1
    <3> QED BY <3>1, <3>2
  <2> QED BY <1>0, <1>1, <1>3, <2>1, CommittedIsNew DEF Ledger!Join, Ledger!Stored, Stored
<1>6. CASE severity[i] # req[q].seen
  BY <1>0, <1>1, <1>3, <1>4, <1>6, CommittedIsNew DEF Ledger!Join, Ledger!Stored, Stored
<1> QED BY <1>0, <1>5, <1>6

LEMMA StepOfLedger ==
    ASSUME IInv, LedgerInv, [RacesNext]_racesVars
    PROVE  [Ledger!Next]_Ledger!ledgerVars
<1>1. ASSUME RacesNext PROVE Ledger!Next
  <2>1. Ledger!Watch
    <3>1. raced \subseteq raced'
      BY <1>1 DEF RacesNext, Next, LockStep, CreateService, InsertAlert, FlushEscalation,
         FreeStep, Receive, LookUpExternalId, FindService, Correlate, Commit, Answer, Crash,
         ChangeStatus
    <3> QED BY <1>1, <3>1 DEF RacesNext, Ledger!Watch
  <2>2. ASSUME NEW q \in Requests, Commit(q) PROVE Ledger!Next
    <3>1. Current(q) \in Alerts
      BY <2>2, CommitTables
    <3> QED BY <2>1, <2>2, <3>1, CommitOpens, CommitJoins DEF Ledger!Next
  <2>3. ASSUME UNCHANGED tables PROVE Ledger!Next
    BY <2>1, <2>3 DEF Ledger!Next, tables
  <2> QED
    BY <1>1, <2>2, <2>3
       DEF RacesNext, Next, LockStep, CreateService, InsertAlert, FlushEscalation, FreeStep,
           Receive, LookUpExternalId, FindService, Correlate, Answer, Crash, ChangeStatus
<1>2. CASE UNCHANGED racesVars
  BY <1>2 DEF racesVars, vars, tables, Ledger!ledgerVars
<1> QED BY <1>1, <1>2

(* For any number of alerts and requests that overlap, fail and repeat:    *)
(* ingestion is the ledger.  Each alert is stored once, at one instant,    *)
(* and what an overlap can disturb is what the ledger names.               *)
THEOREM IngestionImplementsLedger == RacesSpec => ImplementsLedger
<1>1. RacesInit => RacesInv /\ LedgerInv /\ Ledger!Init
  <2> SUFFICES ASSUME RacesInit PROVE LedgerInv /\ Ledger!Init
    BY RacesInvInit
  <2>1. Stored = {} /\ \A q \in Requests : req[q].pc = "ready"
    BY DEF RacesInit, Init, Stored, Ready
  <2>2. LedgerInv
    BY <2>1 DEF LedgerInv, OverlapsAreNamed, FoundNone, Correlated, Opens
  <2>3. Ledger!Init
    BY DEF RacesInit, Init, Ledger!Init
  <2> QED BY <2>2, <2>3
<1>2. IInv /\ IInv' /\ RacesInv /\ LedgerInv /\ [RacesNext]_racesVars => RacesInv' /\ LedgerInv'
  BY RacesInvNext, LedgerInvNext
<1>3. IInv /\ LedgerInv /\ [RacesNext]_racesVars => [Ledger!Next]_Ledger!ledgerVars
  BY StepOfLedger
<1> QED
  BY <1>1, <1>2, <1>3, RacesSpecImpliesSpec, IInvCorrect, PTL
     DEF RacesSpec, ImplementsLedger, Ledger!Spec

=============================================================================
