------------------------ MODULE ApprovalGate_proofs -------------------------
(***************************************************************************)
(* Theorems about the approval gate, for any number of sessions,           *)
(* recommendations and incidents.                                          *)
(*                                                                         *)
(* The invariants of ApprovalGate are not inductive: what a handler has    *)
(* checked it acts on later, on a stale copy.  IInv adds what makes them   *)
(* so: which locks a session holds at each step, what of the checked       *)
(* facts is still true when it is used, and the witness for the status of  *)
(* an incident.  LockInv, at the end, says which locks a session holds at  *)
(* each step and so who may wait for whom.                                 *)
(***************************************************************************)
EXTENDS ApprovalGate, TLAPS

(* The operation a session runs and how far it may have got. *)
StageOK(s) ==
    LET st == sess[s] IN
    /\ st.pc = "idle" <=> st.op = "none"
    /\ st.op # "none" => st.rec \in Recommendations
    /\ st.op = "request" => st.pc \in {"insert", "incident", "flush", "commit"}
    /\ st.op = "decide" => /\ st.pc \in {"update", "incident", "flush", "commit"}
                           /\ st.decision \in {"approved", "rejected"}
    /\ st.op = "execute" =>
          /\ st.pc \in {"incident", "post", "health", "flush", "record", "commit", "rollback"}
          /\ st.pc = "commit" => st.outcome = "succeeded"

(* The session holds the lock of its approval row. *)
HoldsApproval(s) ==
    \/ sess[s].op \in {"request", "decide"} /\ sess[s].pc \in {"incident", "flush", "commit"}
    \/ sess[s].op = "execute" /\ sess[s].pc \in {"commit", "rollback"}

LockOK(s) == HoldsApproval(s) => lockA[sess[s].rec] = s

(* What a session checked and what of it still holds. *)
RequestOK(s) ==
    sess[s].op = "request" /\ HoldsApproval(s) => approval[sess[s].rec].status = "absent"

DecideOK(s) ==
    sess[s].op = "decide" =>
        /\ approval[sess[s].rec].status # "absent"
        /\ sess[s].at <= approval[sess[s].rec].expires_at

ExecuteOK(s) ==
    LET r == sess[s].rec IN
    sess[s].op = "execute" =>
        /\ approval[r].status # "absent"
        /\ r \in everApproved
        /\ ActionOf[r] = "simulated_rollback"
        /\ sess[s].pc = "health" => performed[r] > 0
        /\ sess[s].outcome = "succeeded" => performed[r] > 0 /\ r \in verified

RowOK(r) ==
    /\ approval[r].status = "approved" => r \in everApproved
    /\ approval[r].status = "absent" => approval[r].execution_status = "none"

(* The witness for the status of an incident: a recommendation that backs  *)
(* it and that nobody can move away without writing the incident too, as   *)
(* any session deciding it has read this very status.                      *)
Witnesses(r, i) ==
    /\ IncidentOf[r] = i
    /\ Backs(r, incident[i].status)
    /\ \A s \in Sessions :
          sess[s].op = "decide" /\ sess[s].rec = r /\ sess[s].pc \in {"flush", "commit"}
              => sess[s].seen = incident[i].status

StatusWitnessed(i) ==
    incident[i].status # "analyzing" => \E r \in Recommendations : Witnesses(r, i)

ResolvedWitnessed(i) ==
    incident[i].resolved =>
        \E r \in Recommendations : IncidentOf[r] = i /\ Backs(r, "resolved")

SessionOK(s) == LockOK(s) /\ RequestOK(s) /\ DecideOK(s) /\ ExecuteOK(s)

RowsOK == \A r \in Recommendations : RowOK(r)

IncidentsOK == \A i \in Incidents : StatusWitnessed(i) /\ ResolvedWitnessed(i)

(* A session record is well formed and its stage fits its operation: the   *)
(* type invariant needs both, for the row that a session reads or writes   *)
(* is the one its recommendation names.                                    *)
TypeInv == TypeOK /\ \A s \in Sessions : StageOK(s)

IInv ==
    /\ TypeInv
    /\ \A s \in Sessions : SessionOK(s)
    /\ RowsOK
    /\ ApprovedBeforeAction
    /\ RecordedSuccessIsReal
    /\ DecidedInTime
    /\ IncidentsOK

-----------------------------------------------------------------------------
LEMMA IdleType == Idle \in SessionState
BY DEF Idle, SessionState, IncidentStatus

LEMMA EndSessionType ==
    ASSUME TypeInv, NEW s \in Sessions, EndSession(s)
    PROVE  /\ sess' \in [Sessions -> SessionState]
           /\ lockA' \in [Recommendations -> Sessions \cup {None}]
           /\ lockI' \in [Incidents -> Sessions \cup {None}]
           /\ \A t \in Sessions : StageOK(t)'
<1>1. sess' \in [Sessions -> SessionState]
  BY IdleType DEF EndSession, TypeInv, TypeOK
<1>2. /\ lockA' \in [Recommendations -> Sessions \cup {None}]
      /\ lockI' \in [Incidents -> Sessions \cup {None}]
  BY DEF EndSession, TypeInv, TypeOK
<1>3. ASSUME NEW t \in Sessions PROVE StageOK(t)'
  BY DEF EndSession, TypeInv, TypeOK, StageOK, Idle
<1> QED BY <1>1, <1>2, <1>3

(* The type invariant and the stages are preserved by every step. *)
LEMMA TypeStep == TypeInv /\ [Next]_vars => TypeInv'
<1> SUFFICES ASSUME TypeInv, [Next]_vars PROVE TypeInv'
  OBVIOUS
<1> USE ConstantsAssumption
<1>a. TypeOK /\ \A s \in Sessions : StageOK(s)
  BY DEF TypeInv
<1>1. ASSUME NEW s \in Sessions, NEW r \in Recommendations, BeginRequest(s, r)
      PROVE  TypeInv'
  <2>1. sess' \in [Sessions -> SessionState]
    <3>1. now + TTL \in Nat
      BY <1>a DEF TypeOK
    <3> QED BY <1>1, <1>a, <3>1 DEF BeginRequest, TypeOK, SessionState, Idle, IncidentStatus
  <2>2. ASSUME NEW t \in Sessions PROVE StageOK(t)'
    BY <1>1, <1>a DEF BeginRequest, TypeOK, StageOK, Idle
  <2> QED BY <1>1, <1>a, <2>1, <2>2 DEF BeginRequest, TypeInv, TypeOK, dbVars, history
<1>2. ASSUME NEW s \in Sessions, NEW r \in Recommendations,
             NEW d \in {"approved", "rejected"}, BeginDecide(s, r, d)
      PROVE  TypeInv'
  <2>1. sess' \in [Sessions -> SessionState]
    BY <1>2, <1>a, IdleType DEF BeginDecide, TypeOK, SessionState, Idle
  <2>2. ASSUME NEW t \in Sessions PROVE StageOK(t)'
    BY <1>2, <1>a DEF BeginDecide, TypeOK, StageOK, Idle
  <2> QED BY <1>2, <1>a, <2>1, <2>2 DEF BeginDecide, TypeInv, TypeOK, dbVars, history
<1>3. ASSUME NEW s \in Sessions, NEW r \in Recommendations, BeginExecute(s, r)
      PROVE  TypeInv'
  <2>1. sess' \in [Sessions -> SessionState]
    BY <1>3, <1>a, IdleType DEF BeginExecute, TypeOK, SessionState, Idle
  <2>2. ASSUME NEW t \in Sessions PROVE StageOK(t)'
    BY <1>3, <1>a DEF BeginExecute, TypeOK, StageOK, Idle
  <2> QED BY <1>3, <1>a, <2>1, <2>2 DEF BeginExecute, TypeInv, TypeOK, dbVars, history
<1>4. ASSUME NEW s \in Sessions, InsertApproval(s)
      PROVE  TypeInv'
  <2>0. \/ sess' = [sess EXCEPT ![s].pc = "incident"]
        \/ sess' = [sess EXCEPT ![s] = Idle]
    BY <1>4 DEF InsertApproval
  <2>1. sess' \in [Sessions -> SessionState]
    <3>1. CASE sess' = [sess EXCEPT ![s].pc = "incident"]
      BY <3>1, <1>a DEF TypeOK, SessionState
    <3>2. CASE sess' = [sess EXCEPT ![s] = Idle]
      BY <3>2, <1>a, IdleType DEF TypeOK
    <3> QED BY <2>0, <3>1, <3>2
  <2>2. ASSUME NEW t \in Sessions PROVE StageOK(t)'
    <3>0. sess[s].pc = "insert"
      BY <1>4 DEF InsertApproval
    <3>1. CASE sess' = [sess EXCEPT ![s].pc = "incident"]
      BY <3>0, <3>1, <1>a DEF TypeOK, StageOK, SessionState
    <3>2. CASE sess' = [sess EXCEPT ![s] = Idle]
      BY <3>2, <1>a DEF TypeOK, StageOK, Idle
    <3> QED BY <2>0, <3>1, <3>2
  <2> QED BY <1>4, <1>a, <2>1, <2>2 DEF InsertApproval, TypeInv, TypeOK, history
<1>5. ASSUME NEW s \in Sessions, UpdateApproval(s)
      PROVE  TypeInv'
  <2>1. sess' \in [Sessions -> SessionState]
    BY <1>5, <1>a DEF UpdateApproval, TypeOK, SessionState
  <2>2. ASSUME NEW t \in Sessions PROVE StageOK(t)'
    BY <1>5, <1>a DEF UpdateApproval, TypeOK, StageOK, SessionState
  <2> QED BY <1>5, <1>a, <2>1, <2>2 DEF UpdateApproval, TypeInv, TypeOK, history
<1>6. ASSUME NEW s \in Sessions, LoadIncident(s)
      PROVE  TypeInv'
  <2>1. incident[IncidentIn(s)].status \in IncidentStatus
    BY <1>6, <1>a DEF LoadIncident, TypeOK, StageOK, IncidentIn, IncidentRow
  <2>2. sess' \in [Sessions -> SessionState]
    BY <1>6, <1>a, <2>1 DEF LoadIncident, TypeOK, SessionState
  <2>3. ASSUME NEW t \in Sessions PROVE StageOK(t)'
    BY <1>6, <1>a DEF LoadIncident, TypeOK, StageOK, SessionState
  <2> QED BY <1>6, <1>a, <2>2, <2>3 DEF LoadIncident, TypeInv, TypeOK, dbVars, history
<1>7. ASSUME NEW s \in Sessions, PostFaultMode(s)
      PROVE  TypeInv'
  <2>1. sess' \in [Sessions -> SessionState]
    BY <1>7, <1>a DEF PostFaultMode, TypeOK, SessionState
  <2>2. ASSUME NEW t \in Sessions PROVE StageOK(t)'
    BY <1>7, <1>a DEF PostFaultMode, TypeOK, StageOK, SessionState
  <2>3. mode' \in {"normal", "faulty"} /\ performed' \in [Recommendations -> 0..2]
    BY <1>7, <1>a DEF PostFaultMode, TypeOK
  <2> QED BY <1>7, <1>a, <2>1, <2>2, <2>3 DEF PostFaultMode, TypeInv, TypeOK, dbVars
<1>8. ASSUME NEW s \in Sessions, CheckHealth(s)
      PROVE  TypeInv'
  <2>1. sess' \in [Sessions -> SessionState]
    BY <1>8, <1>a DEF CheckHealth, TypeOK, SessionState
  <2>2. ASSUME NEW t \in Sessions PROVE StageOK(t)'
    BY <1>8, <1>a DEF CheckHealth, TypeOK, StageOK, SessionState
  <2>3. verified' \in SUBSET Recommendations
    BY <1>8, <1>a DEF CheckHealth, TypeOK, StageOK
  <2> QED BY <1>8, <1>a, <2>1, <2>2, <2>3 DEF CheckHealth, TypeInv, TypeOK, dbVars
<1>9. ASSUME NEW s \in Sessions, FlushIncident(s)
      PROVE  TypeInv'
  <2>1. sess' \in [Sessions -> SessionState]
    BY <1>9, <1>a DEF FlushIncident, TypeOK, SessionState
  <2>2. ASSUME NEW t \in Sessions PROVE StageOK(t)'
    BY <1>9, <1>a DEF FlushIncident, TypeOK, StageOK, SessionState
  <2>3. lockI' \in [Incidents -> Sessions \cup {None}]
    BY <1>9, <1>a DEF FlushIncident, TypeOK
  <2> QED BY <1>9, <1>a, <2>1, <2>2, <2>3 DEF FlushIncident, TypeInv, TypeOK, history
<1>10. ASSUME NEW s \in Sessions, RecordExecution(s)
       PROVE  TypeInv'
  <2>1. sess' \in [Sessions -> SessionState]
    BY <1>10, <1>a DEF RecordExecution, TypeOK, SessionState
  <2>2. ASSUME NEW t \in Sessions PROVE StageOK(t)'
    BY <1>10, <1>a DEF RecordExecution, TypeOK, StageOK, SessionState
  <2> QED BY <1>10, <1>a, <2>1, <2>2 DEF RecordExecution, TypeInv, TypeOK, history
<1>11. ASSUME NEW s \in Sessions, Commit(s)
       PROVE  TypeInv'
  <2>0. /\ sess[s].rec \in Recommendations /\ sess[s] \in SessionState
        /\ sess[s].op \in {"request", "decide", "execute"}
        /\ sess[s].op = "decide" => sess[s].decision \in {"approved", "rejected"}
    BY <1>11, <1>a DEF Commit, TypeOK, StageOK, SessionState
  <2>1. CommittedRow(s) \in ApprovalRow
    <3>0. approval[sess[s].rec] \in ApprovalRow
      BY <2>0, <1>a DEF TypeOK
    <3>1. CASE sess[s].op = "request"
      BY <2>0, <3>1 DEF CommittedRow, ApprovalRow, ApprovalStatus, NoRow, SessionState
    <3>2. CASE sess[s].op = "decide"
      BY <2>0, <3>0, <3>2 DEF CommittedRow, ApprovalRow, ApprovalStatus, SessionState
    <3>3. CASE sess[s].op = "execute"
      BY <2>0, <3>0, <3>3 DEF CommittedRow, ApprovalRow, SessionState
    <3> QED BY <2>0, <3>1, <3>2, <3>3
  <2>2. approval' \in [Recommendations -> ApprovalRow]
    BY <1>11, <1>a, <2>1 DEF Commit, TypeOK
  <2>3. NewStatus(s) \in IncidentStatus
    BY <2>0 DEF NewStatus, IncidentStatus
  <2>4. incident' \in [Incidents -> IncidentRow]
    <3>1. PICK i \in Incidents : i = IncidentIn(s)
      BY <2>0 DEF IncidentIn
    <3>2. /\ incident[i] \in IncidentRow
          /\ incident' = [incident EXCEPT
                ![i].status = IF WritesStatus(s) THEN NewStatus(s) ELSE incident[i].status,
                ![i].resolved = incident[i].resolved \/ sess[s].op = "execute"]
      BY <1>11, <1>a, <3>1 DEF Commit, TypeOK
    <3> DEFINE new == [incident[i] EXCEPT
                !.status = IF WritesStatus(s) THEN NewStatus(s) ELSE incident[i].status,
                !.resolved = incident[i].resolved \/ sess[s].op = "execute"]
    <3>3. new \in IncidentRow
      BY <3>2, <2>3 DEF IncidentRow
    <3>4. incident' = [incident EXCEPT ![i] = new]
      BY <3>2, <1>a DEF TypeOK
    <3> QED BY <3>3, <3>4, <1>a DEF TypeOK
  <2>5. everApproved' \in SUBSET Recommendations
    BY <1>11, <1>a, <2>0 DEF Commit, TypeOK
  <2> QED BY <1>11, <1>a, <2>2, <2>4, <2>5, EndSessionType DEF Commit, TypeInv, TypeOK
<1>12. ASSUME NEW s \in Sessions, RollBackFailure(s) \/ Abort(s) \/ BreakDeadlock(s)
       PROVE  TypeInv'
  <2>1. EndSession(s) /\ UNCHANGED <<approval, incident, mode, now, history>>
    BY <1>12 DEF RollBackFailure, Abort, BreakDeadlock
  <2> QED BY <2>1, <1>a, EndSessionType DEF TypeInv, TypeOK, history
<1>13. CASE ApplyFaultMode
  BY <1>13, <1>a DEF ApplyFaultMode, TypeInv, TypeOK, StageOK, dbVars, history
<1>14. CASE Tick
  BY <1>14, <1>a DEF Tick, TypeInv, TypeOK, StageOK, dbVars, history
<1>15. CASE UNCHANGED vars
  BY <1>15, <1>a DEF vars, TypeInv, TypeOK, StageOK, history
<1> QED
  BY <1>1, <1>2, <1>3, <1>4, <1>5, <1>6, <1>7, <1>8, <1>9, <1>10, <1>11, <1>12,
     <1>13, <1>14, <1>15 DEF Next, Begin, LockStep, FreeStep

LEMMA TypeInit == Init => TypeInv
<1> SUFFICES ASSUME Init PROVE TypeInv
  OBVIOUS
<1>1. TypeOK
  BY IdleType DEF Init, TypeOK, ApprovalRow, NoRow, IncidentRow, IncidentStatus
<1>2. ASSUME NEW s \in Sessions PROVE StageOK(s)
  BY DEF Init, StageOK, Idle
<1> QED BY <1>1, <1>2 DEF TypeInv

(* Every variable keeps its type, whatever requests interleave or die. *)
THEOREM TypeCorrect == Spec => []TypeOK
<1>1. TypeInv => TypeOK
  BY DEF TypeInv
<1> QED BY <1>1, TypeInit, TypeStep, PTL DEF Spec

-----------------------------------------------------------------------------
(* A step of session s that commits nothing: no row changes, no history    *)
(* shrinks, and the other sessions keep what they know and hold.           *)
QuietStep(s) ==
    /\ UNCHANGED <<approval, incident, everApproved>>
    /\ \A t \in Sessions \ {s} : sess'[t] = sess[t]
    /\ \A t \in Sessions \ {s}, r \in Recommendations : lockA[r] = t => lockA'[r] = t
    /\ \A r \in Recommendations : performed[r] > 0 => performed'[r] > 0
    /\ verified \subseteq verified'

(* What s has read of its incident is current, or was read before. *)
ReadIsFresh(s) ==
    sess'[s].op = "decide" /\ sess'[s].pc \in {"flush", "commit"} =>
        \/ sess'[s].seen = incident[IncidentOf[sess'[s].rec]].status
        \/ /\ sess[s].op = "decide" /\ sess[s].pc \in {"flush", "commit"}
           /\ sess[s].rec = sess'[s].rec /\ sess[s].seen = sess'[s].seen

LEMMA QuietOthers ==
    ASSUME IInv, NEW s \in Sessions, QuietStep(s), NEW t \in Sessions, t # s
    PROVE  SessionOK(t)'
<1>1. sess'[t] = sess[t] /\ SessionOK(t) /\ StageOK(t)
  BY DEF IInv, TypeInv, QuietStep
<1>2. LockOK(t)'
  BY <1>1 DEF SessionOK, LockOK, HoldsApproval, StageOK, QuietStep
<1>3. RequestOK(t)'
  BY <1>1 DEF SessionOK, RequestOK, HoldsApproval, QuietStep
<1>4. DecideOK(t)'
  BY <1>1 DEF SessionOK, DecideOK, QuietStep
<1>5. ExecuteOK(t)'
  BY <1>1 DEF SessionOK, ExecuteOK, StageOK, QuietStep
<1> QED BY <1>2, <1>3, <1>4, <1>5 DEF SessionOK

LEMMA QuietRows ==
    ASSUME IInv, NEW s \in Sessions, QuietStep(s)
    PROVE  RowsOK' /\ RecordedSuccessIsReal' /\ DecidedInTime'
BY DEF IInv, QuietStep, RowsOK, RowOK, RecordedSuccessIsReal, DecidedInTime

LEMMA QuietIncidents ==
    ASSUME IInv, NEW s \in Sessions, QuietStep(s), ReadIsFresh(s)
    PROVE  IncidentsOK'
<1> SUFFICES ASSUME NEW i \in Incidents
             PROVE  StatusWitnessed(i)' /\ ResolvedWitnessed(i)'
  BY DEF IncidentsOK
<1>1. ResolvedWitnessed(i)'
  BY DEF IInv, IncidentsOK, ResolvedWitnessed, Backs, QuietStep
<1>2. ASSUME NEW r \in Recommendations, Witnesses(r, i)
      PROVE  Witnesses(r, i)'
  <2>1. incident' = incident /\ Backs(r, incident[i].status)'
    BY <1>2 DEF Witnesses, Backs, QuietStep
  <2>2. ASSUME NEW t \in Sessions, sess'[t].op = "decide", sess'[t].rec = r,
               sess'[t].pc \in {"flush", "commit"}
        PROVE  sess'[t].seen = incident[i].status
    <3>1. CASE t = s
      BY <3>1, <2>2, <1>2 DEF ReadIsFresh, Witnesses
    <3>2. CASE t # s
      BY <3>2, <2>2, <1>2 DEF QuietStep, Witnesses
    <3> QED BY <3>1, <3>2
  <2> QED BY <2>1, <2>2, <1>2 DEF Witnesses
<1>3. StatusWitnessed(i)'
  BY <1>2 DEF IInv, IncidentsOK, StatusWitnessed, QuietStep
<1> QED BY <1>1, <1>3

(* A quiet step preserves the invariant if it does so for its own session  *)
(* and remediates nothing unapproved.                                      *)
LEMMA QuietIInv ==
    ASSUME IInv, TypeInv', NEW s \in Sessions, QuietStep(s), ReadIsFresh(s),
           SessionOK(s)', ApprovedBeforeAction'
    PROVE  IInv'
<1>1. ASSUME NEW t \in Sessions PROVE SessionOK(t)'
  BY QuietOthers
<1> QED BY <1>1, QuietRows, QuietIncidents DEF IInv

-----------------------------------------------------------------------------
(* A commit of s.  It holds the lock of its approval, so no other session  *)
(* is past its own write of that row.                                      *)
LEMMA CommitFacts ==
    ASSUME IInv, NEW s \in Sessions, Commit(s)
    PROVE  /\ sess[s].rec \in Recommendations /\ IncidentIn(s) \in Incidents
           /\ sess[s].op \in {"request", "decide", "execute"}
           /\ HoldsApproval(s)
           /\ approval' = [approval EXCEPT ![sess[s].rec] = CommittedRow(s)]
           /\ \A t \in Sessions \ {s} : /\ sess'[t] = sess[t]
                                        /\ sess[t].rec = sess[s].rec => ~HoldsApproval(t)
           /\ sess'[s] = Idle
           /\ everApproved \subseteq everApproved'
           /\ UNCHANGED <<performed, verified>>
<1> USE ConstantsAssumption
<1>1. sess[s].pc = "commit" /\ StageOK(s) /\ sess[s] \in SessionState
  BY DEF Commit, IInv, TypeInv, TypeOK
<1>2. /\ sess[s].rec \in Recommendations /\ IncidentIn(s) \in Incidents
      /\ sess[s].op \in {"request", "decide", "execute"}
      /\ HoldsApproval(s)
  BY <1>1 DEF StageOK, IncidentIn, HoldsApproval, SessionState
<1>3. sess' = [sess EXCEPT ![s] = Idle] /\ sess \in [Sessions -> SessionState]
  BY DEF Commit, EndSession, IInv, TypeInv, TypeOK
<1>4. ASSUME NEW t \in Sessions \ {s}, sess[t].rec = sess[s].rec
      PROVE  ~HoldsApproval(t)
  BY <1>2, <1>4 DEF IInv, SessionOK, LockOK
<1> QED BY <1>2, <1>3, <1>4 DEF Commit

(* What the commit makes of the row of its approval. *)
LEMMA CommitRow ==
    ASSUME IInv, NEW s \in Sessions, Commit(s), NEW r \in Recommendations, r = sess[s].rec
    PROVE  /\ approval'[r].status # "absent"
           /\ approval[r].status # "absent" => approval'[r].expires_at = approval[r].expires_at
           /\ approval[r].execution_status = "succeeded" =>
                 approval'[r].execution_status = "succeeded"
           /\ sess[s].op = "request" =>
                 /\ approval[r].status = "absent" /\ approval[r].execution_status = "none"
                 /\ approval'[r].status = "pending" /\ approval'[r].execution_status = "none"
           /\ sess[s].op = "decide" =>
                 /\ sess[s].decision \in {"approved", "rejected"}
                 /\ approval'[r].status = sess[s].decision
                 /\ approval'[r].decided_at = sess[s].at
                 /\ approval'[r].execution_status = approval[r].execution_status
           /\ sess[s].op = "execute" =>
                 /\ sess[s].outcome = "succeeded"
                 /\ approval'[r].status = approval[r].status
                 /\ approval'[r].decided_at = approval[r].decided_at
                 /\ approval'[r].execution_status = "succeeded"
<1>1. /\ approval'[r] = CommittedRow(s) /\ approval[r] \in ApprovalRow
      /\ sess[s].op \in {"request", "decide", "execute"} /\ sess[s].pc = "commit"
      /\ StageOK(s) /\ RequestOK(s) /\ DecideOK(s) /\ ExecuteOK(s) /\ HoldsApproval(s) /\ RowOK(r)
  BY CommitFacts DEF IInv, TypeInv, TypeOK, SessionOK, RowsOK, Commit
<1>2. CASE sess[s].op = "request"
  BY <1>1, <1>2 DEF CommittedRow, NoRow, RequestOK, RowOK
<1>3. CASE sess[s].op = "decide"
  BY <1>1, <1>3 DEF CommittedRow, ApprovalRow, StageOK, DecideOK
<1>4. CASE sess[s].op = "execute"
  BY <1>1, <1>4 DEF CommittedRow, ApprovalRow, StageOK, ExecuteOK
<1> QED BY <1>1, <1>2, <1>3, <1>4

LEMMA CommitSessions ==
    ASSUME IInv, NEW s \in Sessions, Commit(s), NEW t \in Sessions
    PROVE  SessionOK(t)'
<1>1. CASE t = s
  BY <1>1, CommitFacts DEF SessionOK, LockOK, HoldsApproval, RequestOK, DecideOK, ExecuteOK, Idle
<1>2. CASE t # s
  <2>1. sess'[t] = sess[t] /\ SessionOK(t) /\ StageOK(t)
    BY <1>2, CommitFacts DEF IInv, TypeInv
  <2>2. LockOK(t)'
    BY <1>2, <2>1 DEF SessionOK, LockOK, HoldsApproval, StageOK, Commit, EndSession
  <2>3. ASSUME sess[t].op # "none"
        PROVE  /\ sess[t].rec \in Recommendations
               /\ approval[sess[t].rec].status # "absent" =>
                     /\ approval'[sess[t].rec].status # "absent"
                     /\ approval'[sess[t].rec].expires_at = approval[sess[t].rec].expires_at
               /\ sess[t].rec # sess[s].rec => approval'[sess[t].rec] = approval[sess[t].rec]
    <3>1. sess[t].rec \in Recommendations
      BY <2>1, <2>3 DEF StageOK
    <3>2. CASE sess[t].rec = sess[s].rec
      BY <3>1, <3>2, CommitRow
    <3>3. CASE sess[t].rec # sess[s].rec
      BY <3>1, <3>3, CommitFacts DEF IInv, TypeInv, TypeOK
    <3> QED BY <3>1, <3>2, <3>3
  <2>4. RequestOK(t)'
    BY <1>2, <2>1, <2>3, CommitFacts DEF SessionOK, RequestOK, HoldsApproval
  <2>5. DecideOK(t)'
    BY <2>1, <2>3 DEF SessionOK, DecideOK
  <2>6. ExecuteOK(t)'
    BY <2>1, <2>3, CommitFacts DEF SessionOK, ExecuteOK
  <2> QED BY <2>2, <2>4, <2>5, <2>6 DEF SessionOK
<1> QED BY <1>1, <1>2

LEMMA CommitRows ==
    ASSUME IInv, NEW s \in Sessions, Commit(s)
    PROVE  RowsOK' /\ ApprovedBeforeAction' /\ RecordedSuccessIsReal' /\ DecidedInTime'
<1>0. PICK r \in Recommendations : r = sess[s].rec
  BY CommitFacts
<1>1. r = sess[s].rec /\ SessionOK(s) /\ RowOK(r)
  BY <1>0 DEF IInv, RowsOK
<1>2. ASSUME NEW q \in Recommendations, q # r PROVE approval'[q] = approval[q]
  BY <1>1, <1>2, CommitFacts DEF IInv, TypeInv, TypeOK
<1>3. RowOK(r)'
  <2>1. CASE sess[s].op = "decide"
    BY <1>1, <2>1, CommitRow DEF Commit, RowOK
  <2>2. CASE sess[s].op # "decide"
    BY <1>1, <2>2, CommitRow, CommitFacts DEF RowOK
  <2> QED BY <2>1, <2>2
<1>4. RowsOK'
  BY <1>2, <1>3, CommitFacts DEF IInv, RowsOK, RowOK
<1>5. ApprovedBeforeAction'
  BY CommitFacts DEF IInv, ApprovedBeforeAction
<1>6. RecordedSuccessIsReal'
  <2>1. approval'[r].execution_status = "succeeded" => performed[r] > 0 /\ r \in verified
    BY <1>1, CommitRow, CommitFacts DEF IInv, RecordedSuccessIsReal, SessionOK, ExecuteOK
  <2> QED BY <1>2, <2>1, CommitFacts DEF IInv, RecordedSuccessIsReal
<1>7. DecidedInTime'
  <2>1. approval'[r].status \in {"approved", "rejected"} =>
            approval'[r].decided_at <= approval'[r].expires_at
    BY <1>1, CommitRow, CommitFacts DEF IInv, DecidedInTime, SessionOK, DecideOK
  <2> QED BY <1>2, <2>1 DEF IInv, DecidedInTime
<1> QED BY <1>4, <1>5, <1>6, <1>7

(* The status of the incident of s keeps a witness.  If s writes it, that  *)
(* is the recommendation of s; if s has left it alone, the old witness     *)
(* stays one, also when it is the very recommendation whose row changes.   *)
LEMMA CommitIncidents ==
    ASSUME IInv, NEW s \in Sessions, Commit(s), NEW i \in Incidents
    PROVE  StatusWitnessed(i)' /\ ResolvedWitnessed(i)'
<1> USE ConstantsAssumption
<1>0. PICK r \in Recommendations : r = sess[s].rec
  BY CommitFacts
<1>1. ASSUME NEW q \in Recommendations, q # r PROVE approval'[q] = approval[q]
  BY <1>0, <1>1, CommitFacts DEF IInv, TypeInv, TypeOK
<1>2. /\ i # IncidentOf[r] => incident'[i] = incident[i]
      /\ i = IncidentOf[r] =>
            /\ incident'[i].status = IF WritesStatus(s) THEN NewStatus(s) ELSE incident[i].status
            /\ incident'[i].resolved = (incident[i].resolved \/ sess[s].op = "execute")
  <2>1. /\ incident \in [Incidents -> IncidentRow]
        /\ incident' = [incident EXCEPT
              ![IncidentOf[r]].status = IF WritesStatus(s) THEN NewStatus(s) ELSE @,
              ![IncidentOf[r]].resolved = @ \/ sess[s].op = "execute"]
    BY <1>0 DEF Commit, IncidentIn, IInv, TypeInv, TypeOK
  <2> QED BY <2>1 DEF IncidentRow
<1>3. ASSUME NEW t \in Sessions, sess'[t].op = "decide", sess'[t].pc \in {"flush", "commit"}
      PROVE  t # s /\ sess'[t] = sess[t] /\ sess[t].rec # r
  BY <1>0, <1>3, CommitFacts DEF HoldsApproval, Idle
<1>4. ASSUME NEW q \in Recommendations, Backs(q, "resolved")
      PROVE  Backs(q, "resolved")'
  BY <1>0, <1>1, <1>4, CommitRow DEF Backs
<1>5. ResolvedWitnessed(i)'
  <2>1. CASE i = IncidentOf[r] /\ sess[s].op = "execute"
    <3>1. Backs(r, "resolved")'
      BY <1>0, <2>1, CommitRow DEF Backs
    <3> QED BY <2>1, <3>1 DEF ResolvedWitnessed
  <2>2. CASE ~(i = IncidentOf[r] /\ sess[s].op = "execute")
    BY <1>2, <1>4, <2>2 DEF IInv, IncidentsOK, ResolvedWitnessed
  <2> QED BY <2>1, <2>2
<1>6. StatusWitnessed(i)'
  <2>1. CASE i = IncidentOf[r] /\ WritesStatus(s)
    <3>1. incident'[i].status = NewStatus(s)
      BY <1>2, <2>1
    <3>2. Backs(r, incident[i].status)'
      <4>1. ASSUME NEW st, st = NewStatus(s) PROVE Backs(r, st)'
        BY <1>0, <4>1, CommitRow, CommitFacts DEF Backs, NewStatus
      <4> QED BY <4>1, <3>1 DEF Backs
    <3>3. Witnesses(r, i)'
      BY <2>1, <3>2, <1>3 DEF Witnesses
    <3> QED BY <3>3 DEF StatusWitnessed
  <2>2. CASE ~(i = IncidentOf[r] /\ WritesStatus(s))
    <3>1. incident'[i].status = incident[i].status
      BY <1>2, <2>2
    <3>2. ASSUME NEW q \in Recommendations, Witnesses(q, i)
          PROVE  Witnesses(q, i)'
      <4>1. Backs(q, incident[i].status)
        BY <3>2 DEF Witnesses
      <4>2. ASSUME NEW st, st = incident[i].status PROVE Backs(q, st)'
        <5>1. CASE q # r
          BY <4>1, <4>2, <5>1, <1>1 DEF Backs
        <5>2. CASE q = r /\ sess[s].op = "request"
          BY <4>1, <4>2, <5>2, <1>0, CommitRow DEF Backs
        <5>3. CASE q = r /\ sess[s].op = "decide"
          <6>1. sess[s].pc = "commit" /\ i = IncidentOf[r] /\ ~WritesStatus(s)
            BY <5>3, <2>2, <3>2 DEF Commit, Witnesses
          <6>2. sess[s].seen = incident[i].status
            BY <1>0, <5>3, <6>1, <3>2 DEF Witnesses
          <6>3. st = sess[s].decision
            BY <4>2, <5>3, <6>1, <6>2 DEF WritesStatus, NewStatus
          <6> QED BY <6>3, <5>3, <1>0, CommitRow DEF Backs
        <5>4. CASE q = r /\ sess[s].op = "execute"
          BY <4>1, <4>2, <5>4, <1>0, CommitRow DEF Backs
        <5> QED BY <5>1, <5>2, <5>3, <5>4, CommitFacts
      <4>3. Backs(q, incident[i].status)'
        BY <3>1, <4>2 DEF Backs
      <4>4. ASSUME NEW t \in Sessions, sess'[t].op = "decide", sess'[t].rec = q,
                   sess'[t].pc \in {"flush", "commit"}
            PROVE  sess'[t].seen = incident[i].status
        BY <4>4, <1>3, <3>2 DEF Witnesses
      <4> QED BY <4>3, <4>4, <3>1, <3>2 DEF Witnesses
    <3> QED BY <3>1, <3>2 DEF IInv, IncidentsOK, StatusWitnessed
  <2> QED BY <2>1, <2>2
<1> QED BY <1>5, <1>6

(* The invariant holds initially and every step preserves it. *)
LEMMA IInvInit == Init => IInv
<1> SUFFICES ASSUME Init PROVE IInv
  OBVIOUS
<1>1. ASSUME NEW s \in Sessions PROVE SessionOK(s)
  BY DEF Init, SessionOK, LockOK, HoldsApproval, RequestOK, DecideOK, ExecuteOK, Idle
<1>2. RowsOK /\ ApprovedBeforeAction /\ RecordedSuccessIsReal /\ DecidedInTime
  BY DEF Init, RowsOK, RowOK, ApprovedBeforeAction, RecordedSuccessIsReal, DecidedInTime, NoRow
<1>3. IncidentsOK
  BY DEF Init, IncidentsOK, StatusWitnessed, ResolvedWitnessed
<1> QED BY <1>1, <1>2, <1>3, TypeInit DEF IInv

LEMMA IInvStep == IInv /\ [Next]_vars => IInv'
<1> SUFFICES ASSUME IInv, [Next]_vars PROVE IInv'
  OBVIOUS
<1> USE ConstantsAssumption
<1>a. TypeInv' /\ TypeOK /\ sess \in [Sessions -> SessionState]
  BY TypeStep DEF IInv, TypeInv, TypeOK
<1>b. ASSUME NEW s \in Sessions PROVE StageOK(s) /\ SessionOK(s) /\ s # None
  BY DEF IInv, TypeInv
<1>c. RowsOK /\ ApprovedBeforeAction
  BY DEF IInv
<1>1. ASSUME NEW s \in Sessions, NEW r \in Recommendations, BeginRequest(s, r)
      PROVE  IInv'
  <2>1. QuietStep(s) /\ ReadIsFresh(s) /\ ApprovedBeforeAction'
    BY <1>1, <1>a, <1>c DEF BeginRequest, QuietStep, ReadIsFresh, ApprovedBeforeAction,
       Idle, dbVars, history
  <2>2. SessionOK(s)'
    BY <1>1, <1>a DEF BeginRequest, SessionOK, LockOK, HoldsApproval, RequestOK,
       DecideOK, ExecuteOK, Idle
  <2> QED BY <2>1, <2>2, <1>a, QuietIInv
<1>2. ASSUME NEW s \in Sessions, NEW r \in Recommendations,
             NEW d \in {"approved", "rejected"}, BeginDecide(s, r, d)
      PROVE  IInv'
  <2>1. QuietStep(s) /\ ReadIsFresh(s) /\ ApprovedBeforeAction'
    BY <1>2, <1>a, <1>c DEF BeginDecide, QuietStep, ReadIsFresh, ApprovedBeforeAction,
       Idle, dbVars, history
  <2>2. SessionOK(s)'
    <3>1. now <= approval[r].expires_at
      BY <1>2, <1>a DEF BeginDecide, TypeOK, ApprovalRow
    <3> QED BY <1>2, <1>a, <3>1 DEF BeginDecide, SessionOK, LockOK, HoldsApproval, RequestOK,
              DecideOK, ExecuteOK, Idle, dbVars
  <2> QED BY <2>1, <2>2, <1>a, QuietIInv
<1>3. ASSUME NEW s \in Sessions, NEW r \in Recommendations, BeginExecute(s, r)
      PROVE  IInv'
  <2>1. QuietStep(s) /\ ReadIsFresh(s) /\ ApprovedBeforeAction'
    BY <1>3, <1>a, <1>c DEF BeginExecute, QuietStep, ReadIsFresh, ApprovedBeforeAction,
       Idle, dbVars, history
  <2>2. SessionOK(s)'
    BY <1>3, <1>a, <1>c DEF BeginExecute, SessionOK, LockOK, HoldsApproval, RequestOK,
       DecideOK, ExecuteOK, Idle, RowsOK, RowOK, dbVars, history
  <2> QED BY <2>1, <2>2, <1>a, QuietIInv
<1>4. ASSUME NEW s \in Sessions, InsertApproval(s)
      PROVE  IInv'
  <2>1. QuietStep(s) /\ ApprovedBeforeAction'
    BY <1>4, <1>a, <1>b, <1>c DEF InsertApproval, QuietStep, ApprovedBeforeAction, TypeOK, history
  <2>2. CASE approval[sess[s].rec].status # "absent" /\ sess' = [sess EXCEPT ![s] = Idle]
    <3>1. ReadIsFresh(s) /\ SessionOK(s)'
      BY <2>2, <1>a DEF ReadIsFresh, SessionOK, LockOK, HoldsApproval, RequestOK,
         DecideOK, ExecuteOK, Idle
    <3> QED BY <2>1, <3>1, <1>a, QuietIInv
  <2>3. CASE /\ approval[sess[s].rec].status = "absent"
             /\ lockA' = [lockA EXCEPT ![sess[s].rec] = s]
             /\ sess' = [sess EXCEPT ![s].pc = "incident"]
    <3>1. /\ sess'[s] = [sess[s] EXCEPT !.pc = "incident"]
          /\ sess[s].op = "request" /\ sess[s].rec \in Recommendations
      BY <2>3, <1>4, <1>a, <1>b DEF InsertApproval, StageOK, SessionState
    <3>2. sess'[s].op = "request" /\ sess'[s].rec = sess[s].rec
      BY <3>1, <1>a DEF SessionState
    <3>3. ReadIsFresh(s)
      BY <3>2 DEF ReadIsFresh
    <3>4. SessionOK(s)'
      BY <2>3, <3>1, <3>2, <1>4, <1>a DEF InsertApproval, SessionOK, LockOK, HoldsApproval,
         RequestOK, DecideOK, ExecuteOK, TypeOK
    <3> QED BY <2>1, <3>3, <3>4, <1>a, QuietIInv
  <2> QED BY <2>2, <2>3, <1>4 DEF InsertApproval
<1>5. ASSUME NEW s \in Sessions, UpdateApproval(s)
      PROVE  IInv'
  <2>0. /\ sess'[s] = [sess[s] EXCEPT !.pc = "incident"]
        /\ sess[s].op = "decide" /\ sess[s].rec \in Recommendations
    BY <1>5, <1>a, <1>b DEF UpdateApproval, StageOK, SessionState
  <2>1. QuietStep(s) /\ ApprovedBeforeAction' /\ ReadIsFresh(s)
    BY <1>5, <2>0, <1>a, <1>b, <1>c DEF UpdateApproval, QuietStep, ApprovedBeforeAction,
       ReadIsFresh, TypeOK, history, SessionState
  <2>2. SessionOK(s)'
    BY <1>5, <2>0, <1>a, <1>b DEF UpdateApproval, SessionOK, LockOK, HoldsApproval,
       RequestOK, DecideOK, ExecuteOK, TypeOK, SessionState
  <2> QED BY <2>1, <2>2, <1>a, QuietIInv
<1>6. ASSUME NEW s \in Sessions, LoadIncident(s)
      PROVE  IInv'
  <2>0. /\ sess'[s] = [sess[s] EXCEPT
                          !.seen = incident[IncidentOf[sess[s].rec]].status,
                          !.pc = IF sess[s].op = "execute" THEN "post" ELSE "flush"]
        /\ sess[s].op # "none" /\ sess[s].rec \in Recommendations /\ sess[s].pc = "incident"
    BY <1>6, <1>a, <1>b DEF LoadIncident, IncidentIn, StageOK, SessionState
  <2>1. QuietStep(s) /\ ApprovedBeforeAction' /\ ReadIsFresh(s)
    BY <1>6, <2>0, <1>a, <1>c DEF LoadIncident, QuietStep, ApprovedBeforeAction,
       ReadIsFresh, history, dbVars, SessionState
  <2>2. SessionOK(s)'
    BY <1>6, <2>0, <1>a, <1>b DEF LoadIncident, SessionOK, LockOK, HoldsApproval,
       RequestOK, DecideOK, ExecuteOK, SessionState, dbVars, history
  <2> QED BY <2>1, <2>2, <1>a, QuietIInv
<1>7. ASSUME NEW s \in Sessions, PostFaultMode(s)
      PROVE  IInv'
  <2>0. PICK r \in Recommendations :
           /\ r = sess[s].rec /\ sess[s].op = "execute" /\ sess[s].pc = "post"
           /\ r \in everApproved /\ ActionOf[r] = "simulated_rollback"
           /\ approval[r].status # "absent"
    BY <1>7, <1>a, <1>b DEF PostFaultMode, StageOK, SessionOK, ExecuteOK, SessionState
  <2>1. /\ \A q \in Recommendations \ {r} : performed'[q] = performed[q]
        /\ performed[r] > 0 => performed'[r] > 0
        /\ UNCHANGED <<approval, incident, lockA, everApproved, verified>>
        /\ \/ sess' = [sess EXCEPT ![s].pc = "health"] /\ performed'[r] > 0
           \/ sess' = [sess EXCEPT ![s].pc = "flush", ![s].outcome = "failed"]
    BY <1>7, <2>0, <1>a DEF PostFaultMode, TypeOK, dbVars
  <2>2. QuietStep(s)
    BY <2>1, <1>a DEF QuietStep
  <2>3. ApprovedBeforeAction'
    BY <2>0, <2>1, <1>c DEF ApprovedBeforeAction
  <2>4. /\ sess'[s].op = "execute" /\ sess'[s].rec = r
        /\ sess'[s].pc \in {"health", "flush"}
        /\ sess'[s].pc = "health" => performed'[r] > 0 /\ sess'[s].outcome = sess[s].outcome
        /\ sess'[s].outcome = "succeeded" => sess[s].outcome = "succeeded"
    BY <2>0, <2>1, <1>a DEF SessionState
  <2>5. SessionOK(s)'
    BY <2>0, <2>1, <2>4, <1>b DEF SessionOK, LockOK, HoldsApproval, RequestOK, DecideOK, ExecuteOK
  <2>6. ReadIsFresh(s)
    BY <2>4 DEF ReadIsFresh
  <2> QED BY <2>2, <2>3, <2>5, <2>6, <1>a, QuietIInv
<1>8. ASSUME NEW s \in Sessions, CheckHealth(s)
      PROVE  IInv'
  <2>0. /\ sess[s].op = "execute" /\ sess[s].pc = "health" /\ sess[s].rec \in Recommendations
        /\ verified \subseteq verified' /\ UNCHANGED <<dbVars, everApproved, performed>>
        /\ \A t \in Sessions \ {s} : sess'[t] = sess[t]
    BY <1>8, <1>a, <1>b DEF CheckHealth, StageOK, SessionState, dbVars
  <2>1. /\ sess'[s].op = "execute" /\ sess'[s].rec = sess[s].rec /\ sess'[s].pc = "flush"
        /\ sess'[s].outcome = "succeeded" => sess[s].rec \in verified'
    BY <1>8, <2>0, <1>a DEF CheckHealth, SessionState
  <2>2. QuietStep(s) /\ ApprovedBeforeAction' /\ ReadIsFresh(s)
    BY <2>0, <2>1, <1>c DEF QuietStep, ApprovedBeforeAction, ReadIsFresh, dbVars
  <2>3. SessionOK(s)'
    BY <2>0, <2>1, <1>b DEF SessionOK, LockOK, HoldsApproval, RequestOK, DecideOK, ExecuteOK, dbVars
  <2> QED BY <2>2, <2>3, <1>a, QuietIInv
<1>9. ASSUME NEW s \in Sessions, FlushIncident(s)
      PROVE  IInv'
  <2>0. /\ sess'[s] = [sess[s] EXCEPT !.pc = IF sess[s].op = "execute" THEN "record" ELSE "commit"]
        /\ sess[s].pc = "flush" /\ sess[s].op # "none"
    BY <1>9, <1>a, <1>b DEF FlushIncident, StageOK, SessionState
  <2>1. QuietStep(s) /\ ApprovedBeforeAction' /\ ReadIsFresh(s)
    BY <1>9, <2>0, <1>a, <1>c DEF FlushIncident, QuietStep, ApprovedBeforeAction,
       ReadIsFresh, history, SessionState
  <2>2. SessionOK(s)'
    BY <1>9, <2>0, <1>a, <1>b DEF FlushIncident, SessionOK, LockOK, HoldsApproval,
       RequestOK, DecideOK, ExecuteOK, SessionState, history
  <2> QED BY <2>1, <2>2, <1>a, QuietIInv
<1>10. ASSUME NEW s \in Sessions, RecordExecution(s)
       PROVE  IInv'
  <2>0. /\ sess'[s] = [sess[s] EXCEPT !.pc =
                          IF sess[s].outcome = "succeeded" THEN "commit" ELSE "rollback"]
        /\ sess[s].op = "execute" /\ sess[s].rec \in Recommendations
    BY <1>10, <1>a, <1>b DEF RecordExecution, StageOK, SessionState
  <2>1. QuietStep(s) /\ ApprovedBeforeAction' /\ ReadIsFresh(s)
    BY <1>10, <2>0, <1>a, <1>b, <1>c DEF RecordExecution, QuietStep, ApprovedBeforeAction,
       ReadIsFresh, TypeOK, history, SessionState
  <2>2. SessionOK(s)'
    BY <1>10, <2>0, <1>a, <1>b DEF RecordExecution, SessionOK, LockOK, HoldsApproval,
       RequestOK, DecideOK, ExecuteOK, TypeOK, SessionState, history
  <2> QED BY <2>1, <2>2, <1>a, QuietIInv
<1>11. ASSUME NEW s \in Sessions, Commit(s)
       PROVE  IInv'
  BY <1>11, <1>a, CommitSessions, CommitRows, CommitIncidents DEF IInv, IncidentsOK
<1>12. ASSUME NEW s \in Sessions, RollBackFailure(s) \/ Abort(s) \/ BreakDeadlock(s)
       PROVE  IInv'
  <2>1. EndSession(s) /\ UNCHANGED <<approval, incident, mode, now, history>>
    BY <1>12 DEF RollBackFailure, Abort, BreakDeadlock
  <2>2. QuietStep(s) /\ ApprovedBeforeAction'
    BY <2>1, <1>a, <1>c DEF EndSession, QuietStep, ApprovedBeforeAction, TypeOK, history
  <2>3. ReadIsFresh(s) /\ SessionOK(s)'
    BY <2>1, <1>a DEF EndSession, ReadIsFresh, SessionOK, LockOK, HoldsApproval, RequestOK,
       DecideOK, ExecuteOK, Idle
  <2> QED BY <2>2, <2>3, <1>a, QuietIInv
<1>13. CASE UNCHANGED <<dbVars, sess, history>>
  <2>1. /\ UNCHANGED <<approval, incident, lockA, sess, everApproved, performed, verified>>
    BY <1>13 DEF dbVars, history
  <2>2. RowsOK' /\ ApprovedBeforeAction' /\ RecordedSuccessIsReal' /\ DecidedInTime'
    BY <2>1 DEF IInv, RowsOK, RowOK, ApprovedBeforeAction, RecordedSuccessIsReal, DecidedInTime
  <2>3. IncidentsOK'
    BY <2>1 DEF IInv, IncidentsOK, StatusWitnessed, ResolvedWitnessed, Witnesses, Backs
  <2>4. ASSUME NEW s \in Sessions PROVE SessionOK(s)'
    BY <2>1, <1>b DEF SessionOK, LockOK, HoldsApproval, RequestOK, DecideOK, ExecuteOK
  <2> QED BY <2>2, <2>3, <2>4, <1>a DEF IInv
<1>14. ApplyFaultMode \/ Tick \/ UNCHANGED vars => UNCHANGED <<dbVars, sess, history>>
  BY DEF ApplyFaultMode, Tick, vars, dbVars
<1> QED
  BY <1>1, <1>2, <1>3, <1>4, <1>5, <1>6, <1>7, <1>8, <1>9, <1>10, <1>11, <1>12,
     <1>13, <1>14 DEF Next, Begin, LockStep, FreeStep

-----------------------------------------------------------------------------
LEMMA IInvCorrect == Spec => []IInv
BY IInvInit, IInvStep, PTL DEF Spec

(* No rollback takes effect without an approving human decision on that    *)
(* recommendation, with any number of concurrent, failing and dying        *)
(* requests.                                                               *)
THEOREM ApprovalPrecedesAction == Spec => []ApprovedBeforeAction
<1>1. IInv => ApprovedBeforeAction
  BY DEF IInv
<1> QED BY <1>1, IInvCorrect, PTL

(* A success in the database was a rollback that took effect and was       *)
(* confirmed by a health check.                                            *)
THEOREM SuccessIsReal == Spec => []RecordedSuccessIsReal
<1>1. IInv => RecordedSuccessIsReal
  BY DEF IInv
<1> QED BY <1>1, IInvCorrect, PTL

(* No decision that stands was taken after the approval had expired. *)
THEOREM DecisionsAreInTime == Spec => []DecidedInTime
<1>1. IInv => DecidedInTime
  BY DEF IInv
<1> QED BY <1>1, IInvCorrect, PTL

(* However the handlers race, and although each skips its write of the     *)
(* incident on the word of a stale copy, no incident is left in a status   *)
(* that none of its approvals accounts for.                                *)
THEOREM IncidentsAreBacked == Spec => []IncidentStatusIsBacked
<1>1. IInv => IncidentStatusIsBacked
  BY DEF IInv, IncidentsOK, StatusWitnessed, ResolvedWitnessed, Witnesses,
     IncidentStatusIsBacked
<1> QED BY <1>1, IInvCorrect, PTL

(* No step takes an approval back to pending or removes it, and none moves *)
(* its expiry: the key of the table and the row locks see to it.           *)
THEOREM RequestsKeepDecisions == Spec => RequestKeepsDecision
<1> DEFINE Keeps == \A r \in Recommendations :
          /\ approval[r].status # "absent" =>
                /\ approval'[r].status # "absent"
                /\ approval'[r].expires_at = approval[r].expires_at
          /\ approval[r].status \in {"approved", "rejected"} =>
                approval'[r].status # "pending"
<1>1. ASSUME IInv, [Next]_vars PROVE Keeps
  <2>1. CASE \E s \in Sessions : Commit(s)
    <3>1. PICK s \in Sessions : Commit(s)
      BY <2>1
    <3>2. ASSUME NEW r \in Recommendations, r # sess[s].rec
          PROVE  approval'[r] = approval[r]
      BY <3>1, <3>2, <1>1, CommitFacts DEF IInv, TypeInv, TypeOK
    <3>3. ASSUME NEW r \in Recommendations, r = sess[s].rec
          PROVE  /\ approval'[r].status # "absent"
                 /\ approval[r].status # "absent" =>
                       approval'[r].expires_at = approval[r].expires_at
                 /\ approval[r].status \in {"approved", "rejected"} =>
                       approval'[r].status # "pending"
      BY <3>1, <3>3, <1>1, CommitRow, CommitFacts
    <3> QED BY <3>2, <3>3
  <2>2. CASE UNCHANGED approval
    BY <2>2
  <2>3. [Next]_vars => UNCHANGED approval \/ \E s \in Sessions : Commit(s)
    BY DEF Next, Begin, LockStep, FreeStep, BeginRequest, BeginDecide, BeginExecute,
       InsertApproval, UpdateApproval, LoadIncident, PostFaultMode, CheckHealth,
       FlushIncident, RecordExecution, RollBackFailure, Abort, BreakDeadlock,
       ApplyFaultMode, Tick, vars, dbVars
  <2> QED BY <1>1, <2>1, <2>2, <2>3
<1>2. IInv /\ [Next]_vars => [Keeps]_vars
  BY <1>1
<1> QED BY <1>2, IInvCorrect, PTL DEF Spec, RequestKeepsDecision

-----------------------------------------------------------------------------
(* The lock of the incident is taken after the flush, if at all. *)
PastFlush(s) ==
    \/ sess[s].op \in {"request", "decide"} /\ sess[s].pc = "commit"
    \/ sess[s].op = "execute" /\ sess[s].pc \in {"record", "commit", "rollback"}

(* A session holds no lock but those of its own stage and its own rows. *)
LocksHeld(s) ==
    /\ \A r \in Recommendations : lockA[r] = s => HoldsApproval(s) /\ sess[s].rec = r
    /\ \A i \in Incidents : lockI[i] = s => PastFlush(s) /\ IncidentIn(s) = i

LockInv == TypeInv /\ \A s \in Sessions : LocksHeld(s)

(* A step of s gives no lock to another session. *)
LEMMA OthersHeld ==
    ASSUME LockInv, NEW s \in Sessions, NEW t \in Sessions \ {s}, sess'[t] = sess[t],
           \A r \in Recommendations : lockA'[r] = t => lockA[r] = t,
           \A i \in Incidents : lockI'[i] = t => lockI[i] = t
    PROVE  LocksHeld(t)'
BY DEF LockInv, LocksHeld, HoldsApproval, PastFlush, IncidentIn

LEMMA LocksHeldNext ==
    ASSUME LockInv, [Next]_vars
    PROVE  \A t \in Sessions : LocksHeld(t)'
<1> USE ConstantsAssumption
<1>a. TypeOK /\ \A s \in Sessions : StageOK(s) /\ LocksHeld(s)
  BY DEF LockInv, TypeInv
<1>b. /\ sess \in [Sessions -> SessionState]
      /\ lockA \in [Recommendations -> Sessions \cup {None}]
      /\ lockI \in [Incidents -> Sessions \cup {None}]
  BY <1>a DEF TypeOK
<1>1. ASSUME NEW s \in Sessions, NEW new, sess' = [sess EXCEPT ![s] = new],
             UNCHANGED <<lockA, lockI>>, ~HoldsApproval(s), ~PastFlush(s)
      PROVE  \A t \in Sessions : LocksHeld(t)'
  <2>1. ASSUME NEW t \in Sessions \ {s} PROVE LocksHeld(t)'
    BY <1>1, <1>b, OthersHeld
  <2>2. LocksHeld(s)'
    BY <1>1, <1>a DEF LocksHeld
  <2> QED BY <2>1, <2>2
<1>2. ASSUME NEW s \in Sessions, Begin(s) PROVE \A t \in Sessions : LocksHeld(t)'
  <2>1. sess[s].pc = "idle" /\ UNCHANGED <<lockA, lockI>>
    BY <1>2 DEF Begin, BeginRequest, BeginDecide, BeginExecute, dbVars
  <2>2. \E new : sess' = [sess EXCEPT ![s] = new]
    BY <1>2 DEF Begin, BeginRequest, BeginDecide, BeginExecute
  <2>3. ~HoldsApproval(s) /\ ~PastFlush(s)
    BY <1>a, <2>1 DEF StageOK, HoldsApproval, PastFlush
  <2> QED BY <1>1, <2>1, <2>2, <2>3
<1>3. ASSUME NEW s \in Sessions, sess' = [sess EXCEPT ![s].pc = "incident"],
             lockA' = [lockA EXCEPT ![sess[s].rec] = s], UNCHANGED lockI,
             sess[s].pc \in {"insert", "update"}
      PROVE  \A t \in Sessions : LocksHeld(t)'
  <2>1. sess[s].op \in {"request", "decide"} /\ ~HoldsApproval(s) /\ ~PastFlush(s)
    BY <1>3, <1>a, <1>b DEF StageOK, HoldsApproval, PastFlush, SessionState
  <2>2. /\ sess'[s].op = sess[s].op /\ sess'[s].pc = "incident"
        /\ sess'[s].rec = sess[s].rec
        /\ \A t \in Sessions \ {s} : sess'[t] = sess[t]
    BY <1>3, <1>b DEF SessionState
  <2>3. \A r \in Recommendations : lockA'[r] = IF r = sess[s].rec THEN s ELSE lockA[r]
    BY <1>3, <1>b
  <2>4. ASSUME NEW t \in Sessions \ {s} PROVE LocksHeld(t)'
    BY <1>3, <2>2, <2>3, OthersHeld
  <2>5. LocksHeld(s)'
    BY <1>3, <1>a, <2>1, <2>2, <2>3 DEF LocksHeld, HoldsApproval
  <2> QED BY <2>4, <2>5
<1>4. ASSUME NEW s \in Sessions, LoadIncident(s) PROVE \A t \in Sessions : LocksHeld(t)'
  <2>1. /\ sess[s].pc = "incident" /\ UNCHANGED <<lockA, lockI>>
        /\ sess'[s].op = sess[s].op /\ sess'[s].rec = sess[s].rec
        /\ sess'[s].pc = IF sess[s].op = "execute" THEN "post" ELSE "flush"
        /\ \A t \in Sessions \ {s} : sess'[t] = sess[t]
    BY <1>4, <1>b DEF LoadIncident, SessionState, dbVars
  <2>2. ASSUME NEW t \in Sessions \ {s} PROVE LocksHeld(t)'
    BY <2>1, OthersHeld
  <2>3. LocksHeld(s)'
    BY <2>1, <1>a DEF LocksHeld, HoldsApproval, PastFlush
  <2> QED BY <2>2, <2>3
<1>5. ASSUME NEW s \in Sessions, PostFaultMode(s) \/ CheckHealth(s)
      PROVE  \A t \in Sessions : LocksHeld(t)'
  <2>1. /\ sess[s].pc \in {"post", "health"} /\ UNCHANGED <<lockA, lockI>>
        /\ \A t \in Sessions \ {s} : sess'[t] = sess[t]
    BY <1>5, <1>b DEF PostFaultMode, CheckHealth, dbVars
  <2>2. ASSUME NEW t \in Sessions \ {s} PROVE LocksHeld(t)'
    BY <2>1, OthersHeld
  <2>3. LocksHeld(s)'
    BY <2>1, <1>a DEF LocksHeld, HoldsApproval, PastFlush
  <2> QED BY <2>2, <2>3
<1>6. ASSUME NEW s \in Sessions, FlushIncident(s) PROVE \A t \in Sessions : LocksHeld(t)'
  <2>1. /\ sess[s].pc = "flush" /\ UNCHANGED lockA
        /\ sess'[s].op = sess[s].op /\ sess'[s].rec = sess[s].rec
        /\ sess'[s].pc = IF sess[s].op = "execute" THEN "record" ELSE "commit"
        /\ \A t \in Sessions \ {s} : sess'[t] = sess[t]
    BY <1>6, <1>b DEF FlushIncident, SessionState
  <2>2. \A i \in Incidents : lockI'[i] = lockI[i] \/ (i = IncidentIn(s) /\ lockI'[i] = s)
    BY <1>6, <1>b DEF FlushIncident
  <2>3. ASSUME NEW t \in Sessions \ {s} PROVE LocksHeld(t)'
    BY <2>1, <2>2, OthersHeld
  <2>4. sess[s].op \in {"request", "decide", "execute"}
    BY <2>1, <1>a, <1>b DEF StageOK, SessionState
  <2>5. LocksHeld(s)'
    BY <2>1, <2>2, <2>4, <1>a DEF LocksHeld, HoldsApproval, PastFlush, IncidentIn
  <2> QED BY <2>3, <2>5
<1>7. ASSUME NEW s \in Sessions, RecordExecution(s) PROVE \A t \in Sessions : LocksHeld(t)'
  <2>1. /\ sess[s].pc = "record" /\ UNCHANGED lockI
        /\ sess'[s].op = sess[s].op /\ sess'[s].rec = sess[s].rec
        /\ sess'[s].pc \in {"commit", "rollback"}
        /\ \A t \in Sessions \ {s} : sess'[t] = sess[t]
        /\ sess[s].op = "execute"
    BY <1>7, <1>a, <1>b DEF RecordExecution, SessionState, StageOK
  <2>2. \A r \in Recommendations : lockA'[r] = IF r = sess[s].rec THEN s ELSE lockA[r]
    BY <1>7, <1>b DEF RecordExecution
  <2>3. ASSUME NEW t \in Sessions \ {s} PROVE LocksHeld(t)'
    BY <2>1, <2>2, OthersHeld
  <2>4. LocksHeld(s)'
    BY <2>1, <2>2, <1>a DEF LocksHeld, HoldsApproval, PastFlush, IncidentIn
  <2> QED BY <2>3, <2>4
<1>8. ASSUME NEW s \in Sessions, EndSession(s) PROVE \A t \in Sessions : LocksHeld(t)'
  <2>1. /\ \A r \in Recommendations : lockA'[r] = IF lockA[r] = s THEN None ELSE lockA[r]
        /\ \A i \in Incidents : lockI'[i] = IF lockI[i] = s THEN None ELSE lockI[i]
        /\ \A t \in Sessions \ {s} : sess'[t] = sess[t]
    BY <1>8, <1>b DEF EndSession
  <2>2. ASSUME NEW t \in Sessions \ {s} PROVE LocksHeld(t)'
    BY <2>1, OthersHeld
  <2>3. LocksHeld(s)'
    BY <2>1 DEF LocksHeld
  <2> QED BY <2>2, <2>3
<1>9. ASSUME NEW s \in Sessions, InsertApproval(s) PROVE \A t \in Sessions : LocksHeld(t)'
  <2>1. CASE sess' = [sess EXCEPT ![s] = Idle] /\ UNCHANGED <<lockA, lockI>>
    <3>1. ~HoldsApproval(s) /\ ~PastFlush(s)
      BY <1>9 DEF InsertApproval, HoldsApproval, PastFlush
    <3> QED BY <1>1, <2>1, <3>1
  <2>2. CASE /\ lockA' = [lockA EXCEPT ![sess[s].rec] = s]
             /\ sess' = [sess EXCEPT ![s].pc = "incident"] /\ UNCHANGED lockI
    BY <1>3, <1>9, <2>2 DEF InsertApproval
  <2> QED BY <1>9, <2>1, <2>2 DEF InsertApproval
<1>10. ASSUME NEW s \in Sessions, UpdateApproval(s) PROVE \A t \in Sessions : LocksHeld(t)'
  BY <1>3, <1>10 DEF UpdateApproval
<1>11. CASE UNCHANGED <<lockA, lockI, sess>>
  BY <1>11, <1>a DEF LocksHeld, HoldsApproval, PastFlush, IncidentIn
<1>12. ApplyFaultMode \/ Tick \/ UNCHANGED vars => UNCHANGED <<lockA, lockI, sess>>
  BY DEF ApplyFaultMode, Tick, vars, dbVars
<1>13. ASSUME NEW s \in Sessions, Commit(s) \/ RollBackFailure(s) \/ Abort(s) \/ BreakDeadlock(s)
       PROVE  EndSession(s)
  BY <1>13 DEF Commit, RollBackFailure, Abort, BreakDeadlock
<1> QED
  BY <1>2, <1>4, <1>5, <1>6, <1>7, <1>8, <1>9, <1>10, <1>11, <1>12, <1>13
     DEF Next, LockStep, FreeStep

(* A wait for an approval is for a session that may only wait at its       *)
(* flush, and a wait for an incident for one that may only wait to record  *)
(* an execution.                                                           *)
LEMMA WaitsForHolder ==
    ASSUME LockInv, NEW s \in Sessions, NEW t \in Sessions, WaitsFor(s, t)
    PROVE  \/ /\ sess[s].pc \in {"insert", "update", "record"}
              /\ HoldsApproval(t) /\ sess[t].rec = sess[s].rec
           \/ /\ sess[s].pc = "flush" /\ WritesIncident(s) /\ lockI[IncidentIn(s)] = t
              /\ PastFlush(t) /\ IncidentIn(t) = IncidentIn(s)
<1>1. StageOK(s) /\ sess[s] \in SessionState
  BY DEF LockInv, TypeInv, TypeOK
<1>2. sess[s].pc # "idle" => sess[s].rec \in Recommendations
  BY <1>1 DEF StageOK
<1>3. sess[s].pc # "idle" => IncidentIn(s) \in Incidents
  BY <1>2, ConstantsAssumption DEF IncidentIn
<1> QED BY <1>2, <1>3 DEF LockInv, LocksHeld, WaitsFor

LEMMA NoLongCircle == LockInv => NoStandstill
<1> SUFFICES ASSUME LockInv, NEW S \in SUBSET InFlight, S # {},
                    \A s \in S : /\ \E t \in Sessions : WaitsFor(s, t)
                                 /\ \A t \in InFlight \ S : ~WaitsFor(s, t)
             PROVE  \E s \in S : \E t \in S \ {s} : WaitsFor(s, t) /\ WaitsFor(t, s)
  BY DEF NoStandstill
<1>0. S \subseteq Sessions
  BY DEF InFlight
<1>1. \A s \in S : \E t \in S : WaitsFor(s, t)
  <2> SUFFICES ASSUME NEW s \in S, NEW t \in Sessions, WaitsFor(s, t)
               PROVE  t \in InFlight
    OBVIOUS
  <2> QED BY <1>0, WaitsForHolder DEF InFlight, HoldsApproval, PastFlush
<1>2. \E s \in S : sess[s].pc = "flush"
  <2>1. PICK s \in S, t \in S : WaitsFor(s, t)
    BY <1>1
  <2>2. PICK u \in S : WaitsFor(t, u)
    BY <1>1
  <2> QED BY <1>0, <2>1, <2>2, WaitsForHolder DEF HoldsApproval
<1>3. PICK t \in S, u \in S : sess[t].pc = "flush" /\ WaitsFor(t, u)
  BY <1>1, <1>2
<1>4. /\ PastFlush(u) /\ lockI[IncidentIn(t)] = u /\ IncidentIn(u) = IncidentIn(t)
  BY <1>0, <1>3, WaitsForHolder
<1>5. PICK v \in S : WaitsFor(u, v)
  BY <1>1
<1>6. sess[u].pc = "record" /\ HoldsApproval(v) /\ sess[v].rec = sess[u].rec
  BY <1>0, <1>4, <1>5, WaitsForHolder DEF PastFlush
<1>7. PICK w \in S : WaitsFor(v, w)
  BY <1>1
<1>8. sess[v].pc = "flush" /\ lockI[IncidentIn(v)] = w
  BY <1>0, <1>6, <1>7, WaitsForHolder DEF HoldsApproval
<1>9. w = u
  BY <1>4, <1>6, <1>8 DEF IncidentIn
<1> QED BY <1>5, <1>6, <1>7, <1>8, <1>9

(* For any number of requests, recommendations and incidents: a deadlock   *)
(* of the gate is one of two requests, which PostgreSQL breaks, and there  *)
(* is always a request that goes on or waits for one that may.             *)
THEOREM NoRequestsStandStill == Spec => []NoStandstill
<1>1. Init => LockInv
  BY TypeInit, ConstantsAssumption DEF Init, LockInv, LocksHeld
<1>2. LockInv /\ [Next]_vars => LockInv'
  BY TypeStep, LocksHeldNext DEF LockInv
<1>3. Spec => []LockInv
  BY <1>1, <1>2, PTL DEF Spec
<1> QED BY <1>3, NoLongCircle, PTL

=============================================================================
