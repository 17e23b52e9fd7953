------------------------- MODULE ApprovalRaces_proofs ------------------------
(***************************************************************************)
(* The approval gate implements the policy, for any number of requests,    *)
(* recommendations and incidents.                                          *)
(*                                                                         *)
(* What a request has checked it uses some steps later.  As long as it was *)
(* the only one about its recommendation, the row is still as it read it,  *)
(* since no other request writes a row that is not its own.                *)
(***************************************************************************)
EXTENDS ApprovalRaces, ApprovalGate_proofs

(* A request is still right about the row of its recommendation. *)
StillRight(s) ==
    LET row == approval[sess[s].rec] IN
    /\ sess[s].op = "request" => row.status = "absent"
    /\ sess[s].op = "decide" => row.status = "pending"
    /\ sess[s].op = "execute" => row.status = "approved" /\ row.execution_status = "none"

Fresh(r) ==
    /\ approval[r].execution_status # "none" =>
          approval[r].execution_status = "succeeded" /\ approval[r].status = "approved"
    /\ \A s \in Sessions : sess[s].rec = r => StillRight(s)

RacesInv ==
    /\ Overlapped \subseteq raced
    /\ \A r \in Recommendations \ raced : Fresh(r)

(* No session turns to a recommendation. *)
Narrows ==
    \A t \in Sessions :
        \/ sess'[t].rec = sess[t].rec /\ sess'[t].op = sess[t].op
        \/ sess'[t].rec = None

-----------------------------------------------------------------------------
LEMMA NarrowingRacesNothing ==
    ASSUME RacesInv, Narrows, raced' = raced \cup Overlapped'
    PROVE  raced' = raced
BY ConstantsAssumption DEF RacesInv, Narrows, Overlapped

LEMMA NarrowingIsFresh ==
    ASSUME RacesInv, Narrows, approval' = approval, raced' = raced \cup Overlapped'
    PROVE  RacesInv'
<1>1. raced' = raced
  BY NarrowingRacesNothing
<1>2. ASSUME NEW r \in Recommendations \ raced PROVE Fresh(r)'
  BY <1>2, ConstantsAssumption DEF RacesInv, Fresh, StillRight, Narrows
<1> QED BY <1>1, <1>2 DEF RacesInv

(* The steps of the gate, by what they do to the rows and to the demo      *)
(* service.                                                                *)
LEMMA EndNarrows ==
    ASSUME TypeInv, NEW s \in Sessions, EndSession(s)
    PROVE  Narrows
BY DEF EndSession, TypeInv, TypeOK, Idle, Narrows

LEMMA StepNarrows ==
    ASSUME IInv, NEW s \in Sessions,
           LockStep(s) \/ LoadIncident(s) \/ PostFaultMode(s) \/ CheckHealth(s)
    PROVE  Narrows
<1>1. TypeInv /\ sess[s] \in SessionState
  BY DEF IInv, TypeInv, TypeOK
<1>2. ASSUME NEW pc, sess' = [sess EXCEPT ![s].pc = pc] PROVE Narrows
  BY <1>1, <1>2 DEF TypeInv, TypeOK, SessionState, Narrows
<1>3. ASSUME NEW pc, NEW o, sess' = [sess EXCEPT ![s].pc = pc, ![s].outcome = o]
      PROVE  Narrows
  BY <1>1, <1>3 DEF TypeInv, TypeOK, SessionState, Narrows
<1>4. CASE InsertApproval(s)
  <2>1. CASE sess' = [sess EXCEPT ![s] = Idle]
    BY <1>1, <2>1 DEF TypeInv, TypeOK, Idle, Narrows
  <2> QED BY <1>2, <1>4, <2>1 DEF InsertApproval
<1>5. CASE UpdateApproval(s)
  BY <1>2, <1>5 DEF UpdateApproval
<1>6. CASE FlushIncident(s)
  BY <1>2, <1>6 DEF FlushIncident
<1>7. CASE RecordExecution(s)
  BY <1>2, <1>7 DEF RecordExecution
<1>8. CASE LoadIncident(s)
  BY <1>1, <1>8 DEF LoadIncident, TypeInv, TypeOK, SessionState, Narrows
<1>9. CASE PostFaultMode(s)
  BY <1>2, <1>3, <1>9 DEF PostFaultMode
<1>10. CASE CheckHealth(s)
  BY <1>3, <1>10 DEF CheckHealth
<1> QED BY <1>4, <1>5, <1>6, <1>7, <1>8, <1>9, <1>10 DEF LockStep

Quiet == Narrows /\ UNCHANGED <<approval, performed>>

LEMMA KindsOfSteps ==
    ASSUME IInv, [Next]_vars
    PROVE  \/ Quiet
           \/ \E s \in Sessions : Begin(s) \/ Commit(s) \/ (PostFaultMode(s) /\ Narrows)
<1>1. TypeInv
  BY DEF IInv
<1>2. ASSUME NEW s \in Sessions,
             InsertApproval(s) \/ UpdateApproval(s) \/ FlushIncident(s)
               \/ RecordExecution(s) \/ LoadIncident(s) \/ CheckHealth(s)
      PROVE  Quiet
  BY <1>2, StepNarrows
     DEF LockStep, InsertApproval, UpdateApproval, FlushIncident, RecordExecution,
         LoadIncident, CheckHealth, Quiet, dbVars, history
<1>3. ASSUME NEW s \in Sessions, RollBackFailure(s) \/ Abort(s) \/ BreakDeadlock(s)
      PROVE  Quiet
  BY <1>1, <1>3, EndNarrows DEF RollBackFailure, Abort, BreakDeadlock, Quiet, history
<1>4. ASSUME NEW s \in Sessions, PostFaultMode(s) PROVE PostFaultMode(s) /\ Narrows
  BY <1>4, StepNarrows
<1>5. CASE ApplyFaultMode \/ Tick \/ UNCHANGED vars
  BY <1>5 DEF ApplyFaultMode, Tick, vars, dbVars, history, Quiet, Narrows
<1> QED BY <1>2, <1>3, <1>4, <1>5 DEF Next, LockStep, FreeStep

(* A request begins: it is right about the row it has just read. *)
LEMMA BeginFacts ==
    ASSUME IInv, NEW s \in Sessions, Begin(s)
    PROVE  \E r \in Recommendations :
              /\ UNCHANGED <<approval, performed, incident>>
              /\ \A t \in Sessions \ {s} : sess'[t] = sess[t]
              /\ sess'[s].rec = r
              /\ Fresh(r) => StillRight(s)'
<1>1. sess \in [Sessions -> SessionState]
  BY DEF IInv, TypeInv, TypeOK
<1>2. ASSUME NEW r \in Recommendations, BeginRequest(s, r)
      PROVE  /\ UNCHANGED <<approval, performed, incident>>
             /\ \A t \in Sessions \ {s} : sess'[t] = sess[t]
             /\ sess'[s].rec = r
             /\ Fresh(r) => StillRight(s)'
  BY <1>1, <1>2 DEF BeginRequest, Idle, StillRight, dbVars, history
<1>3. ASSUME NEW r \in Recommendations, NEW d \in {"approved", "rejected"},
             BeginDecide(s, r, d)
      PROVE  /\ UNCHANGED <<approval, performed, incident>>
             /\ \A t \in Sessions \ {s} : sess'[t] = sess[t]
             /\ sess'[s].rec = r
             /\ Fresh(r) => StillRight(s)'
  BY <1>1, <1>3 DEF BeginDecide, Idle, StillRight, dbVars, history
<1>4. ASSUME NEW r \in Recommendations, BeginExecute(s, r)
      PROVE  /\ UNCHANGED <<approval, performed, incident>>
             /\ \A t \in Sessions \ {s} : sess'[t] = sess[t]
             /\ sess'[s].rec = r
             /\ Fresh(r) => StillRight(s)'
  BY <1>1, <1>4 DEF BeginExecute, Idle, StillRight, dbVars, history
<1> QED BY <1>2, <1>3, <1>4 DEF Begin

LEMMA RacesBegin ==
    ASSUME IInv, RacesInv, NEW s \in Sessions, Begin(s), raced' = raced \cup Overlapped'
    PROVE  RacesInv'
<1>1. PICK r \in Recommendations :
         /\ approval' = approval
         /\ \A t \in Sessions \ {s} : sess'[t] = sess[t]
         /\ sess'[s].rec = r
         /\ Fresh(r) => StillRight(s)'
  BY BeginFacts
<1>2. ASSUME NEW x \in Recommendations, x \notin raced' PROVE Fresh(x)'
  <2>1. Fresh(x)
    BY <1>2 DEF RacesInv
  <2>2. ASSUME NEW t \in Sessions, sess'[t].rec = x PROVE StillRight(t)'
    BY <1>1, <2>1, <2>2 DEF Fresh, StillRight
  <2> QED BY <1>1, <2>1, <2>2 DEF Fresh
<1> QED BY <1>2 DEF RacesInv

(* A request commits what it computed from a row that is still the one it  *)
(* read.                                                                   *)
LEMMA CommitFresh ==
    ASSUME IInv, RacesInv, NEW s \in Sessions, Commit(s),
           NEW r \in Recommendations \ raced, r = sess[s].rec
    PROVE  /\ \A t \in Sessions \ {s} : sess[t].rec # r
           /\ \/ /\ sess[s].op = "request"
                 /\ approval[r].status = "absent"
                 /\ approval'[r].status = "pending" /\ approval'[r].execution_status = "none"
              \/ /\ sess[s].op = "decide"
                 /\ approval[r].status = "pending" /\ approval[r].execution_status = "none"
                 /\ sess[s].decision \in {"approved", "rejected"}
                 /\ approval'[r].status = sess[s].decision
                 /\ approval'[r].execution_status = "none"
              \/ /\ sess[s].op = "execute" /\ sess[s].outcome = "succeeded"
                 /\ approval[r].status = "approved" /\ approval[r].execution_status = "none"
                 /\ approval'[r].status = "approved"
                 /\ approval'[r].execution_status = "succeeded"
                 /\ performed[r] > 0
<1>1. Fresh(r) /\ StillRight(s) /\ sess[s].op \in {"request", "decide", "execute"}
  BY CommitFacts DEF RacesInv, Fresh
<1>2. \A t \in Sessions \ {s} : sess[t].rec # r
  BY DEF RacesInv, Overlapped
<1>3. ExecuteOK(s)
  BY DEF IInv, SessionOK
<1> QED BY <1>1, <1>2, <1>3, CommitRow DEF StillRight, Fresh, ExecuteOK

LEMMA CommitNarrows ==
    ASSUME IInv, NEW s \in Sessions, Commit(s)
    PROVE  /\ Narrows
           /\ \A x \in Recommendations \ {sess[s].rec} : approval'[x] = approval[x]
           /\ performed' = performed
<1>1. Narrows
  BY EndNarrows DEF IInv, Commit
<1>2. approval' = [approval EXCEPT ![sess[s].rec] = CommittedRow(s)] /\ performed' = performed
  BY CommitFacts
<1> QED BY <1>1, <1>2 DEF IInv, TypeInv, TypeOK

LEMMA RacesCommit ==
    ASSUME IInv, RacesInv, NEW s \in Sessions, Commit(s), raced' = raced \cup Overlapped'
    PROVE  RacesInv'
<1>1. raced' = raced
  BY CommitNarrows, NarrowingRacesNothing
<1>2. ASSUME NEW x \in Recommendations \ raced PROVE Fresh(x)'
  <2>1. CASE x # sess[s].rec
    <3>1. approval'[x] = approval[x] /\ Narrows /\ Fresh(x)
      BY <1>2, <2>1, CommitNarrows DEF RacesInv
    <3> QED BY <3>1, ConstantsAssumption DEF Fresh, StillRight, Narrows
  <2>2. CASE x = sess[s].rec
    <3>1. \A t \in Sessions \ {s} : sess[t].rec # x /\ sess'[t] = sess[t]
      BY <1>2, <2>2, CommitFresh, CommitFacts
    <3>2. sess'[s].rec # x
      BY CommitFacts, ConstantsAssumption DEF Idle
    <3>3. approval'[x].execution_status # "none" =>
             approval'[x].execution_status = "succeeded" /\ approval'[x].status = "approved"
      BY <1>2, <2>2, CommitFresh
    <3> QED BY <3>1, <3>2, <3>3 DEF Fresh
  <2> QED BY <2>1, <2>2
<1> QED BY <1>1, <1>2 DEF RacesInv

LEMMA RacesStep ==
    ASSUME IInv, RacesInv, [RacesNext]_racesVars
    PROVE  RacesInv'
<1>1. CASE RacesNext
  <2>1. [Next]_vars /\ raced' = raced \cup Overlapped'
    BY <1>1 DEF RacesNext
  <2>2. CASE Quiet
    BY <2>1, <2>2, NarrowingIsFresh DEF Quiet
  <2>3. ASSUME NEW s \in Sessions, PostFaultMode(s), Narrows PROVE RacesInv'
    BY <2>1, <2>3, NarrowingIsFresh DEF PostFaultMode, dbVars
  <2> QED BY <2>1, <2>2, <2>3, KindsOfSteps, RacesBegin, RacesCommit
<1>2. CASE UNCHANGED racesVars
  BY <1>2 DEF racesVars, vars, dbVars, RacesInv, Fresh, StillRight, Overlapped
<1> QED BY <1>1, <1>2

LEMMA RacesSpecImpliesSpec == RacesSpec => Spec
<1>1. RacesInit => Init
  BY DEF RacesInit
<1>2. [RacesNext]_racesVars => [Next]_vars
  BY DEF RacesNext, racesVars
<1> QED BY <1>1, <1>2, PTL DEF RacesSpec, Spec

LEMMA RacesInvHolds == RacesSpec => [](IInv /\ RacesInv)
<1>1. RacesInit => RacesInv
  BY ConstantsAssumption
     DEF RacesInit, Init, RacesInv, Fresh, StillRight, Overlapped, Idle, NoRow
<1>2. IInv /\ RacesInv /\ [RacesNext]_racesVars => RacesInv'
  BY RacesStep
<1> QED BY <1>1, <1>2, RacesSpecImpliesSpec, IInvCorrect, PTL DEF RacesSpec

-----------------------------------------------------------------------------
(* A step changes what the policy sees of one recommendation at most.      *)
PolicyStep(r) ==
    \/ GateOf(r)' = "overlapped" /\ ActedOf(r)' = 0
    \/ /\ GateOf(r) = "proposed" /\ GateOf(r)' = "pending"
       /\ ActedOf(r)' = ActedOf(r)
    \/ /\ GateOf(r) = "pending" /\ GateOf(r)' \in {"approved", "rejected"}
       /\ ActedOf(r)' = ActedOf(r)
    \/ /\ GateOf(r) = "approved" /\ GateOf(r)' = "approved"
       /\ ActedOf(r)' = IF ActedOf(r) = 0 THEN 1 ELSE 2
    \/ /\ GateOf(r) = "approved" /\ GateOf(r)' = "executed"
       /\ ActedOf(r) > 0 /\ ActedOf(r)' = ActedOf(r)

LEMMA OneSeen ==
    ASSUME NEW r \in Recommendations, PolicyStep(r),
           \A x \in Recommendations \ {r} :
              GateOf(x)' = GateOf(x) /\ ActedOf(x)' = ActedOf(x)
    PROVE  Policy!Next
<1> DEFINE g == [x \in Recommendations |-> GateOf(x)]
           a == [x \in Recommendations |-> ActedOf(x)]
<1>1. g' = [g EXCEPT ![r] = GateOf(r)'] /\ a' = [a EXCEPT ![r] = ActedOf(r)']
  OBVIOUS
<1>2. g[r] = GateOf(r) /\ a[r] = ActedOf(r)
  OBVIOUS
<1>3. /\ ActedOf(r)' = ActedOf(r) => a' = a
      /\ GateOf(r)' = GateOf(r) => g' = g
  BY <1>1, <1>2
<1>4. CASE GateOf(r)' = "overlapped" /\ ActedOf(r)' = 0
  <2>1. Policy!Overlap(r)
    BY <1>1, <1>4 DEF Policy!Overlap
  <2> QED BY <2>1 DEF Policy!Next
<1>5. CASE /\ GateOf(r) = "proposed" /\ GateOf(r)' = "pending"
           /\ ActedOf(r)' = ActedOf(r)
  <2>1. Policy!Ask(r)
    BY <1>1, <1>2, <1>3, <1>5 DEF Policy!Ask, Policy!Move
  <2> QED BY <2>1 DEF Policy!Next
<1>6. CASE /\ GateOf(r) = "pending" /\ GateOf(r)' \in {"approved", "rejected"}
           /\ ActedOf(r)' = ActedOf(r)
  <2>1. PICK d \in {"approved", "rejected"} : d = GateOf(r)'
    BY <1>6
  <2>2. Policy!Answer(r, d)
    BY <1>1, <1>2, <1>3, <1>6, <2>1 DEF Policy!Answer, Policy!Move
  <2> QED BY <2>2 DEF Policy!Next
<1>7. CASE /\ GateOf(r) = "approved" /\ GateOf(r)' = "approved"
           /\ ActedOf(r)' = IF ActedOf(r) = 0 THEN 1 ELSE 2
  <2>1. Policy!Act(r)
    BY <1>1, <1>2, <1>3, <1>7 DEF Policy!Act
  <2> QED BY <2>1 DEF Policy!Next
<1>8. CASE /\ GateOf(r) = "approved" /\ GateOf(r)' = "executed"
           /\ ActedOf(r) > 0 /\ ActedOf(r)' = ActedOf(r)
  <2>1. Policy!Record(r)
    BY <1>1, <1>2, <1>3, <1>8 DEF Policy!Record, Policy!Move
  <2> QED BY <2>1 DEF Policy!Next
<1> QED BY <1>4, <1>5, <1>6, <1>7, <1>8 DEF PolicyStep

LEMMA NothingSeen ==
    ASSUME \A x \in Recommendations : GateOf(x)' = GateOf(x) /\ ActedOf(x)' = ActedOf(x)
    PROVE  UNCHANGED Policy!vars
BY DEF Policy!vars

LEMMA SeenInTheRow ==
    ASSUME NEW x \in Recommendations, approval'[x] = approval[x],
           performed'[x] = performed[x], x \in raced' <=> x \in raced
    PROVE  GateOf(x)' = GateOf(x) /\ ActedOf(x)' = ActedOf(x)
BY DEF GateOf, ActedOf

LEMMA BeginIsPolicyStep ==
    ASSUME IInv, RacesInv, NEW s \in Sessions, Begin(s), raced' = raced \cup Overlapped'
    PROVE  [Policy!Next]_(Policy!vars)
<1>1. PICK r \in Recommendations :
         /\ UNCHANGED <<approval, performed>>
         /\ \A t \in Sessions \ {s} : sess'[t] = sess[t]
         /\ sess'[s].rec = r
  BY BeginFacts
<1>2. ASSUME NEW x \in Recommendations \ {r} PROVE x \in raced' <=> x \in raced
  BY <1>1, <1>2 DEF RacesInv, Overlapped
<1>3. \A x \in Recommendations \ {r} : GateOf(x)' = GateOf(x) /\ ActedOf(x)' = ActedOf(x)
  BY <1>1, <1>2, SeenInTheRow
<1>4. CASE r \in raced'
  <2>1. PolicyStep(r)
    BY <1>4 DEF PolicyStep, GateOf, ActedOf
  <2> QED BY <1>3, <2>1, OneSeen
<1>5. CASE r \notin raced'
  <2>1. GateOf(r)' = GateOf(r) /\ ActedOf(r)' = ActedOf(r)
    BY <1>1, <1>5, SeenInTheRow
  <2> QED BY <1>3, <2>1, NothingSeen
<1> QED BY <1>4, <1>5

LEMMA CommitIsPolicyStep ==
    ASSUME IInv, RacesInv, NEW s \in Sessions, Commit(s), raced' = raced \cup Overlapped'
    PROVE  [Policy!Next]_(Policy!vars)
<1>1. raced' = raced /\ performed' = performed
  BY CommitNarrows, NarrowingRacesNothing
<1>2. PICK r \in Recommendations : r = sess[s].rec
  BY CommitFacts
<1>3. \A x \in Recommendations \ {r} : GateOf(x)' = GateOf(x) /\ ActedOf(x)' = ActedOf(x)
  BY <1>1, <1>2, CommitNarrows, SeenInTheRow
<1>4. CASE r \in raced
  <2>1. GateOf(r)' = GateOf(r) /\ ActedOf(r)' = ActedOf(r)
    BY <1>1, <1>4 DEF GateOf, ActedOf
  <2> QED BY <1>3, <2>1, NothingSeen
<1>5. CASE r \notin raced
  <2>1. ActedOf(r)' = ActedOf(r)
    BY <1>1 DEF ActedOf
  <2>2. PolicyStep(r)
    BY <1>1, <1>2, <1>5, <2>1, CommitFresh DEF PolicyStep, GateOf, ActedOf
  <2> QED BY <1>3, <2>2, OneSeen
<1> QED BY <1>4, <1>5

LEMMA PostIsPolicyStep ==
    ASSUME IInv, RacesInv, NEW s \in Sessions, PostFaultMode(s), Narrows,
           raced' = raced \cup Overlapped'
    PROVE  [Policy!Next]_(Policy!vars)
<1>1. raced' = raced /\ approval' = approval
  BY NarrowingRacesNothing DEF PostFaultMode, dbVars
<1>2. PICK r \in Recommendations : r = sess[s].rec /\ sess[s].op = "execute"
  <2>1. sess[s] \in SessionState /\ StageOK(s) /\ sess[s].pc = "post"
    BY DEF IInv, TypeInv, TypeOK, PostFaultMode
  <2> QED BY <2>1 DEF StageOK, SessionState
<1>3. performed \in [Recommendations -> 0..2]
  BY DEF IInv, TypeInv, TypeOK
<1>4. performed' = performed
      \/ performed' = [performed EXCEPT ![r] = IF performed[r] = 0 THEN 1 ELSE 2]
  BY <1>2 DEF PostFaultMode
<1>5. \A x \in Recommendations \ {r} : GateOf(x)' = GateOf(x) /\ ActedOf(x)' = ActedOf(x)
  BY <1>1, <1>3, <1>4, SeenInTheRow
<1>6. CASE r \in raced \/ performed' = performed
  <2>1. GateOf(r)' = GateOf(r) /\ ActedOf(r)' = ActedOf(r)
    BY <1>1, <1>6 DEF GateOf, ActedOf
  <2> QED BY <1>5, <2>1, NothingSeen
<1>7. CASE r \notin raced /\ performed' # performed
  <2>1. approval[r].status = "approved" /\ approval[r].execution_status = "none"
    BY <1>2, <1>7 DEF RacesInv, Fresh, StillRight
  <2>2. performed'[r] = IF performed[r] = 0 THEN 1 ELSE 2
    BY <1>3, <1>4, <1>7
  <2>3. PolicyStep(r)
    BY <1>1, <1>7, <2>1, <2>2 DEF PolicyStep, GateOf, ActedOf
  <2> QED BY <1>5, <2>3, OneSeen
<1> QED BY <1>6, <1>7

LEMMA GateStep ==
    ASSUME IInv, RacesInv, [RacesNext]_racesVars
    PROVE  [Policy!Next]_(Policy!vars)
<1>1. CASE RacesNext
  <2>1. [Next]_vars /\ raced' = raced \cup Overlapped'
    BY <1>1 DEF RacesNext
  <2>2. CASE Quiet
    <3>1. raced' = raced /\ UNCHANGED <<approval, performed>>
      BY <2>1, <2>2, NarrowingRacesNothing DEF Quiet
    <3> QED BY <3>1, SeenInTheRow, NothingSeen
  <2> QED
    BY <2>1, <2>2, KindsOfSteps, BeginIsPolicyStep, CommitIsPolicyStep, PostIsPolicyStep
<1>2. CASE UNCHANGED racesVars
  <2>1. UNCHANGED <<approval, performed, raced>>
    BY <1>2 DEF racesVars, vars, dbVars, history
  <2> QED BY <2>1, SeenInTheRow, NothingSeen
<1> QED BY <1>1, <1>2

(* For any number of requests: of every recommendation about which no two  *)
(* requests overlapped, the gate does what the policy allows, whatever     *)
(* fails and dies on the way.  It is asked once, decided once, and acted   *)
(* on only between an approval and the record of a success.                *)
THEOREM GateImplementsPolicy == RacesSpec => ImplementsPolicy
<1>1. RacesInit => Policy!Init
  BY DEF RacesInit, Init, NoRow, GateOf, ActedOf, Policy!Init
<1>2. IInv /\ RacesInv /\ [RacesNext]_racesVars => [Policy!Next]_(Policy!vars)
  BY GateStep
<1> QED
  BY <1>1, <1>2, RacesInvHolds, PTL DEF RacesSpec, ImplementsPolicy, Policy!Spec

-----------------------------------------------------------------------------
(* For any number of requests: an incident that an execution resolved is   *)
(* opened again only for a recommendation that was not carried out yet,    *)
(* unless two requests overlapped about one of the incident.               *)
THEOREM ReopenedForAnotherAlways == RacesSpec => ReopenedForAnother
<1> DEFINE Reopens(i) ==
          /\ incident[i].status = "resolved" /\ incident'[i].status # "resolved"
          /\ \A r \in raced : IncidentOf[r] # i
      ForAnother(i) ==
          \E r \in Recommendations :
              /\ IncidentOf[r] = i
              /\ Backs(r, incident[i].status)'
              /\ approval'[r].execution_status # "succeeded"
<1>1. ASSUME IInv, RacesInv, [RacesNext]_racesVars, NEW i \in Incidents, Reopens(i)
      PROVE  ForAnother(i)
  <2>1. PICK s \in Sessions : Commit(s)
    <3>1. [Next]_vars /\ incident' # incident
      BY <1>1 DEF RacesNext, racesVars
    <3> QED
      BY <3>1
         DEF Next, Begin, LockStep, FreeStep, BeginRequest, BeginDecide, BeginExecute,
             InsertApproval, UpdateApproval, LoadIncident, PostFaultMode, CheckHealth,
             FlushIncident, RecordExecution, RollBackFailure, Abort, BreakDeadlock,
             ApplyFaultMode, Tick, vars, dbVars
  <2>2. PICK r \in Recommendations : r = sess[s].rec
    BY <2>1, <1>1, CommitFacts
  <2>3. incident \in [Incidents -> IncidentRow]
    BY <1>1 DEF IInv, TypeInv, TypeOK
  <2>4. IncidentOf[r] = i /\ incident'[i].status = NewStatus(s)
    <3>1. ASSUME NEW st, NEW rs, incident' = [incident EXCEPT
                    ![IncidentOf[r]].status = st, ![IncidentOf[r]].resolved = rs]
          PROVE  IncidentOf[r] = i /\ incident'[i].status = st
      BY <1>1, <2>3, <3>1, ConstantsAssumption DEF IncidentRow
    <3> QED BY <1>1, <2>1, <2>2, <2>3, <3>1 DEF Commit, IncidentIn
  <2>5. r \notin raced
    BY <1>1, <2>4
  <2>6. /\ NewStatus(s) \in {"needs_approval", "approved", "rejected"}
        /\ approval'[r].status = IF sess[s].op = "request" THEN "pending" ELSE NewStatus(s)
        /\ NewStatus(s) = "needs_approval" <=> sess[s].op = "request"
        /\ approval'[r].execution_status = "none"
    BY <1>1, <2>1, <2>2, <2>4, <2>5, CommitFresh DEF NewStatus
  <2>7. Backs(r, incident[i].status)'
    BY <2>4, <2>6 DEF Backs
  <2> QED BY <2>4, <2>6, <2>7
<1>2. IInv /\ RacesInv /\ [RacesNext]_racesVars
        => [\A i \in Incidents : Reopens(i) => ForAnother(i)]_racesVars
  BY <1>1
<1> QED BY <1>2, RacesInvHolds, PTL DEF RacesSpec, ReopenedForAnother

=============================================================================
