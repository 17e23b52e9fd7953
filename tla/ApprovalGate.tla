---------------------------- MODULE ApprovalGate ----------------------------
(***************************************************************************)
(* The human approval gate and the remediation behind it: the three        *)
(* handlers request, decide and execute of the API, run by several         *)
(* requests at once over one PostgreSQL database.                          *)
(*                                                                         *)
(* A request has a session of its own.  Between two awaits of a handler    *)
(* other requests run, so a handler is cut into actions at its database    *)
(* statements and at its calls of the demo service.  The isolation level   *)
(* is READ COMMITTED: a read sees what is committed, a write is seen by    *)
(* others once its session commits, and the row written stays locked       *)
(* until then.  What a session has read it keeps and never reads again:    *)
(* the fields of sess[s] are that stale copy.                              *)
(*                                                                         *)
(* A handler whose guard fails answers 400 and changes nothing, so its     *)
(* Begin action is not enabled.  The action digest is not modelled: no     *)
(* code rewrites the columns it covers, and both checks of it succeed.     *)
(***************************************************************************)
EXTENDS Naturals

CONSTANTS
    Recommendations,  \* rows of the table recommendations, immutable
    Incidents,
    Sessions,         \* requests that may be in flight together
    IncidentOf,       \* recommendation -> agent run -> incident
    ActionOf,         \* Recommendation.action_type
    TTL,              \* APPROVAL_TTL, in clock ticks
    MaxTime,          \* bound of the clock
    None

ALLOWED_ACTIONS == {"simulated_restart", "simulated_rollback",
                    "simulated_scale", "create_incident_note"}

ASSUME ConstantsAssumption ==
    /\ IncidentOf \in [Recommendations -> Incidents]
    /\ ActionOf \in [Recommendations -> STRING]
    /\ TTL \in Nat
    /\ MaxTime \in Nat
    /\ None \notin Sessions
    /\ None \notin Recommendations

VARIABLES
    approval,   \* committed rows of approvals, by their UNIQUE recommendation_id
    incident,   \* committed rows of incidents
    lockA,      \* the session that holds the row lock (or the key) of an approval
    lockI,      \* the session that holds the row lock of an incident
    sess,       \* what each session is doing and what it has read
    mode,       \* fault mode of the demo service
    now,        \* clock
    everApproved,  \* history: an approving decision has been committed
    performed,  \* history: how often the rollback took effect: 0, 1, 2 = more
    verified    \* history: a health check confirmed normal mode

dbVars == <<approval, incident, lockA, lockI>>
history == <<everApproved, performed, verified>>
vars == <<approval, incident, lockA, lockI, sess, mode, now, history>>

-----------------------------------------------------------------------------
ApprovalStatus == {"pending", "approved", "rejected"}

(* "analyzing" is where an investigation leaves the incident; "executing"  *)
(* is assigned by execute_approval but never reaches the database.         *)
IncidentStatus == {"analyzing", "needs_approval", "approved", "rejected",
                   "resolved", "failed"}

ApprovalRow == [status : ApprovalStatus \cup {"absent"},
                expires_at : Nat, decided_at : Nat,
                execution_status : {"none", "succeeded", "failed"}]

IncidentRow == [status : IncidentStatus, resolved : BOOLEAN]

NoRow == [status |-> "absent", expires_at |-> 0, decided_at |-> 0,
          execution_status |-> "none"]

SessionState ==
    [op : {"none", "request", "decide", "execute"},
     pc : {"idle", "insert", "update", "incident", "post", "health",
           "flush", "record", "commit", "rollback"},
     rec : Recommendations \cup {None},
     decision : {"none", "approved", "rejected"},
     at : Nat,                                \* expires_at or decided_at to write
     seen : IncidentStatus \cup {"none"},     \* Incident.status as it was read
     outcome : {"none", "succeeded", "failed"}]

Idle == [op |-> "none", pc |-> "idle", rec |-> None, decision |-> "none",
         at |-> 0, seen |-> "none", outcome |-> "none"]

IncidentIn(s) == IncidentOf[sess[s].rec]

(* The status that the session writes to its incident. *)
NewStatus(s) ==
    CASE sess[s].op = "request" -> "needs_approval"
      [] sess[s].op = "decide"  -> sess[s].decision
      [] OTHER -> IF sess[s].outcome = "succeeded" THEN "resolved" ELSE "failed"

(* SQLAlchemy emits no UPDATE of a column whose value is the one it read;  *)
(* resolved_at is a fresh timestamp and always written.                    *)
WritesStatusExceptDecide(s) ==     \* mutant: decide leaves the incident alone
    sess[s].op # "decide" /\ sess[s].seen # NewStatus(s)
WritesStatus(s) == sess[s].seen # NewStatus(s)
WritesIncident(s) ==
    WritesStatus(s) \/ (sess[s].op = "execute" /\ sess[s].outcome = "succeeded")

-----------------------------------------------------------------------------
(* Where the gate begins: incidents are analysed, their recommendations    *)
(* written, nothing is asked yet and the demo service still misbehaves.    *)
Init ==
    /\ approval = [r \in Recommendations |-> NoRow]
    /\ incident = [i \in Incidents |-> [status |-> "analyzing", resolved |-> FALSE]]
    /\ lockA = [r \in Recommendations |-> None]
    /\ lockI = [i \in Incidents |-> None]
    /\ sess = [s \in Sessions |-> Idle]
    /\ mode = "faulty"
    /\ now = 0
    /\ everApproved = {}
    /\ performed = [r \in Recommendations |-> 0]
    /\ verified = {}

-----------------------------------------------------------------------------
(* request_approval: the recommendation is allow-listed and the SELECT     *)
(* finds no approval of it (an existing one is returned unchanged).        *)
BeginRequest(s, r) ==
    /\ sess[s].pc = "idle"
    /\ ActionOf[r] \in ALLOWED_ACTIONS
    /\ approval[r].status = "absent"
    /\ sess' = [sess EXCEPT ![s] =
          [Idle EXCEPT !.op = "request", !.pc = "insert", !.rec = r, !.at = now + TTL]]
    /\ UNCHANGED <<dbVars, mode, now, history>>

InsertOrReplace(s) ==     \* mutant: an upsert in place of the unique key
    LET r == sess[s].rec IN
    /\ sess[s].pc = "insert"
    /\ lockA[r] = None
    /\ lockA' = [lockA EXCEPT ![r] = s]
    /\ sess' = [sess EXCEPT ![s].pc = "incident"]
    /\ UNCHANGED <<approval, incident, lockI, mode, now, history>>

(* The INSERT waits for another uncommitted one of the same key.  Once     *)
(* that is committed the key is taken: IntegrityError, the session ends.   *)
InsertApproval(s) ==
    LET r == sess[s].rec IN
    /\ sess[s].pc = "insert"
    /\ lockA[r] = None
    /\ \/ /\ approval[r].status = "absent"
          /\ lockA' = [lockA EXCEPT ![r] = s]
          /\ sess' = [sess EXCEPT ![s].pc = "incident"]
       \/ /\ approval[r].status # "absent"
          /\ sess' = [sess EXCEPT ![s] = Idle]
          /\ UNCHANGED lockA
    /\ UNCHANGED <<approval, incident, lockI, mode, now, history>>

DecideAnyStatus(s, r, d) ==     \* mutant: "pending" passes for a decision
    /\ sess[s].pc = "idle"
    /\ approval[r].status = "pending"
    /\ approval[r].expires_at >= now
    /\ \E any \in {d, "pending"} :
          sess' = [sess EXCEPT ![s] =
             [Idle EXCEPT !.op = "decide", !.pc = "update", !.rec = r,
                          !.decision = any, !.at = now]]
    /\ UNCHANGED <<dbVars, mode, now, history>>

DecideExpired(s, r, d) ==     \* mutant: expires_at is not looked at
    /\ sess[s].pc = "idle"
    /\ approval[r].status = "pending"
    /\ sess' = [sess EXCEPT ![s] =
          [Idle EXCEPT !.op = "decide", !.pc = "update", !.rec = r,
                       !.decision = d, !.at = now]]
    /\ UNCHANGED <<dbVars, mode, now, history>>

DecideApproved(s, r, d) ==     \* mutant: an approval may be decided once more
    /\ sess[s].pc = "idle"
    /\ approval[r].status \in {"pending", "approved"}
    /\ approval[r].expires_at >= now
    /\ sess' = [sess EXCEPT ![s] =
          [Idle EXCEPT !.op = "decide", !.pc = "update", !.rec = r,
                       !.decision = d, !.at = now]]
    /\ UNCHANGED <<dbVars, mode, now, history>>

(* decide_approval: the approval as read is pending and not expired. *)
BeginDecide(s, r, d) ==
    /\ sess[s].pc = "idle"
    /\ approval[r].status = "pending"
    /\ approval[r].expires_at >= now
    /\ sess' = [sess EXCEPT ![s] =
          [Idle EXCEPT !.op = "decide", !.pc = "update", !.rec = r,
                       !.decision = d, !.at = now]]
    /\ UNCHANGED <<dbVars, mode, now, history>>

(* The autoflush ahead of the next SELECT sends the UPDATE of the approval *)
(* WHERE id = ..., which locks the row whatever its status has become.     *)
UpdateApproval(s) ==
    LET r == sess[s].rec IN
    /\ sess[s].pc = "update"
    /\ lockA[r] = None
    /\ lockA' = [lockA EXCEPT ![r] = s]
    /\ sess' = [sess EXCEPT ![s].pc = "incident"]
    /\ UNCHANGED <<approval, incident, lockI, mode, now, history>>

ExecuteUnapproved(s, r) ==     \* mutant: any approval that exists will do
    /\ sess[s].pc = "idle"
    /\ approval[r].status # "absent"
    /\ approval[r].execution_status = "none"
    /\ ActionOf[r] = "simulated_rollback"
    /\ sess' = [sess EXCEPT ![s] =
          [Idle EXCEPT !.op = "execute", !.pc = "incident", !.rec = r]]
    /\ UNCHANGED <<dbVars, mode, now, history>>

ExecuteRepeatedly(s, r) ==     \* mutant: executed_at is not looked at
    /\ sess[s].pc = "idle"
    /\ approval[r].status = "approved"
    /\ ActionOf[r] = "simulated_rollback"
    /\ sess' = [sess EXCEPT ![s] =
          [Idle EXCEPT !.op = "execute", !.pc = "incident", !.rec = r]]
    /\ UNCHANGED <<dbVars, mode, now, history>>

(* execute_approval: the approval as read is approved, not executed, and   *)
(* for the one action that is implemented.                                 *)
BeginExecute(s, r) ==
    /\ sess[s].pc = "idle"
    /\ approval[r].status = "approved"
    /\ approval[r].execution_status = "none"
    /\ ActionOf[r] = "simulated_rollback"
    /\ sess' = [sess EXCEPT ![s] =
          [Idle EXCEPT !.op = "execute", !.pc = "incident", !.rec = r]]
    /\ UNCHANGED <<dbVars, mode, now, history>>

(* session.get(Incident): the status EXECUTING that execute_approval then  *)
(* assigns is overwritten before any flush and never reaches the database. *)
LoadIncident(s) ==
    /\ sess[s].pc = "incident"
    /\ sess' = [sess EXCEPT ![s].seen = incident[IncidentIn(s)].status,
                            ![s].pc = IF sess[s].op = "execute" THEN "post" ELSE "flush"]
    /\ UNCHANGED <<dbVars, mode, now, history>>

PostIgnoringErrors(s) ==     \* mutant: without raise_for_status
    LET r == sess[s].rec IN
    /\ sess[s].pc = "post"
    /\ sess' = [sess EXCEPT ![s].pc = "health"]
    /\ \/ /\ mode' = "normal"
          /\ performed' = [performed EXCEPT ![r] = IF @ = 0 THEN 1 ELSE 2]
       \/ UNCHANGED <<mode, performed>>
    /\ UNCHANGED <<dbVars, now, everApproved, verified>>

(* POST /internal/fault-mode: applied and answered, applied with the       *)
(* answer lost, or not applied.                                            *)
PostFaultMode(s) ==
    LET r == sess[s].rec
        Applied == /\ mode' = "normal"
                   /\ performed' = [performed EXCEPT ![r] = IF @ = 0 THEN 1 ELSE 2]
        Failed == sess' = [sess EXCEPT ![s].pc = "flush", ![s].outcome = "failed"]
    IN
    /\ sess[s].pc = "post"
    /\ \/ Applied /\ sess' = [sess EXCEPT ![s].pc = "health"]
       \/ Applied /\ Failed
       \/ Failed /\ UNCHANGED <<mode, performed>>
    /\ UNCHANGED <<dbVars, now, everApproved, verified>>

(* GET /health confirms the normal mode, or it reports another mode or     *)
(* does not answer.                                                        *)
CheckHealth(s) ==
    /\ sess[s].pc = "health"
    /\ \/ /\ mode = "normal"
          /\ sess' = [sess EXCEPT ![s].pc = "flush", ![s].outcome = "succeeded"]
          /\ verified' = verified \cup {sess[s].rec}
       \/ /\ sess' = [sess EXCEPT ![s].pc = "flush", ![s].outcome = "failed"]
          /\ UNCHANGED verified
    /\ UNCHANGED <<dbVars, mode, now, everApproved, performed>>

(* The flush updates the incident, if a column of it changed; the one of   *)
(* execute_approval goes on to the approval (mappers in order of name).    *)
FlushIncident(s) ==
    LET i == IncidentIn(s) IN
    /\ sess[s].pc = "flush"
    /\ \/ /\ WritesIncident(s)
          /\ lockI[i] = None
          /\ lockI' = [lockI EXCEPT ![i] = s]
       \/ /\ ~WritesIncident(s)
          /\ UNCHANGED lockI
    /\ sess' = [sess EXCEPT ![s].pc = IF sess[s].op = "execute" THEN "record" ELSE "commit"]
    /\ UNCHANGED <<approval, incident, lockA, mode, now, history>>

RecordExecution(s) ==
    LET r == sess[s].rec IN
    /\ sess[s].pc = "record"
    /\ lockA[r] = None
    /\ lockA' = [lockA EXCEPT ![r] = s]
    /\ sess' = [sess EXCEPT ![s].pc =
          IF sess[s].outcome = "succeeded" THEN "commit" ELSE "rollback"]
    /\ UNCHANGED <<approval, incident, lockI, mode, now, history>>

-----------------------------------------------------------------------------
(* The row an approval becomes when session s commits: each operation      *)
(* writes its own columns and keeps the others as they are by then.        *)
CommittedRow(s) ==
    LET row == approval[sess[s].rec] IN
    CASE sess[s].op = "request" ->
            [NoRow EXCEPT !.status = "pending", !.expires_at = sess[s].at]
      [] sess[s].op = "decide" ->
            [row EXCEPT !.status = sess[s].decision, !.decided_at = sess[s].at]
      [] OTHER -> [row EXCEPT !.execution_status = sess[s].outcome]

LeakIncidentLock(s) ==     \* mutant: the transaction is left open on the incident
    /\ sess' = [sess EXCEPT ![s] = Idle]
    /\ lockA' = [r \in Recommendations |-> IF lockA[r] = s THEN None ELSE lockA[r]]
    /\ UNCHANGED lockI

(* The end of a session, committed or not: its locks are released. *)
EndSession(s) ==
    /\ sess' = [sess EXCEPT ![s] = Idle]
    /\ lockA' = [r \in Recommendations |-> IF lockA[r] = s THEN None ELSE lockA[r]]
    /\ lockI' = [i \in Incidents |-> IF lockI[i] = s THEN None ELSE lockI[i]]

Commit(s) ==
    LET r == sess[s].rec
        i == IncidentIn(s)
    IN
    /\ sess[s].pc = "commit"
    /\ approval' = [approval EXCEPT ![r] = CommittedRow(s)]
    /\ incident' = [incident EXCEPT
          ![i].status = IF WritesStatus(s) THEN NewStatus(s) ELSE @,
          ![i].resolved = @ \/ sess[s].op = "execute"]
    /\ everApproved' = everApproved \cup
          (IF sess[s].op = "decide" /\ sess[s].decision = "approved" THEN {r} ELSE {})
    /\ EndSession(s)
    /\ UNCHANGED <<mode, now, performed, verified>>

(* RemediationError leaves the route before its commit: what the failed    *)
(* execution flushed is rolled back.                                       *)
RollBackFailure(s) ==
    /\ sess[s].pc = "rollback"
    /\ EndSession(s)
    /\ UNCHANGED <<approval, incident, mode, now, history>>

(* The process dies, the client goes away or the database fails: the       *)
(* session ends without a commit.  What the demo service did stays done.   *)
Abort(s) ==
    /\ sess[s].pc # "idle"
    /\ EndSession(s)
    /\ UNCHANGED <<approval, incident, mode, now, history>>

(* s waits for a row that t has locked. *)
WaitsFor(s, t) ==
    \/ sess[s].pc \in {"insert", "update", "record"} /\ lockA[sess[s].rec] = t
    \/ sess[s].pc = "flush" /\ WritesIncident(s) /\ lockI[IncidentIn(s)] = t

(* PostgreSQL ends one of two transactions that wait for each other. *)
BreakDeadlock(s) ==
    /\ \E t \in Sessions : WaitsFor(s, t) /\ WaitsFor(t, s)
    /\ EndSession(s)
    /\ UNCHANGED <<approval, incident, mode, now, history>>

-----------------------------------------------------------------------------
(* _apply_fault_mode: a scenario of the simulator, or its recover          *)
(* endpoint, sets the mode of the demo service behind the gate's back.     *)
ApplyFaultMode ==
    /\ mode' \in {"normal", "faulty"} \ {mode}
    /\ UNCHANGED <<dbVars, sess, now, history>>

Tick ==
    /\ now < MaxTime
    /\ now' = now + 1
    /\ UNCHANGED <<dbVars, sess, mode, history>>

Begin(s) ==
    \E r \in Recommendations :
        \/ BeginRequest(s, r)
        \/ \E d \in {"approved", "rejected"} : BeginDecide(s, r, d)
        \/ BeginExecute(s, r)

(* The steps at which a session may have to wait for a row lock. *)
LockStep(s) ==
    InsertApproval(s) \/ UpdateApproval(s) \/ FlushIncident(s) \/ RecordExecution(s)

(* The other steps of a session that has begun. *)
FreeStep(s) ==
    \/ LoadIncident(s) \/ PostFaultMode(s) \/ CheckHealth(s)
    \/ Commit(s) \/ RollBackFailure(s) \/ BreakDeadlock(s)

Next ==
    \/ \E s \in Sessions : Begin(s) \/ LockStep(s) \/ FreeStep(s) \/ Abort(s)
    \/ ApplyFaultMode
    \/ Tick

Spec == Init /\ [][Next]_vars

(* A handler that has begun goes on: a call of the demo service ends by    *)
(* its timeout (connector_timeout_seconds), PostgreSQL hands a released    *)
(* row to the waiters in turn and breaks deadlocks after deadlock_timeout. *)
Fairness == \A s \in Sessions : WF_vars(FreeStep(s)) /\ SF_vars(LockStep(s))

FairSpec == Spec /\ Fairness

-----------------------------------------------------------------------------
TypeOK ==
    /\ approval \in [Recommendations -> ApprovalRow]
    /\ incident \in [Incidents -> IncidentRow]
    /\ lockA \in [Recommendations -> Sessions \cup {None}]
    /\ lockI \in [Incidents -> Sessions \cup {None}]
    /\ sess \in [Sessions -> SessionState]
    /\ mode \in {"normal", "faulty"}
    /\ now \in Nat
    /\ everApproved \in SUBSET Recommendations
    /\ performed \in [Recommendations -> 0..2]
    /\ verified \in SUBSET Recommendations

(* No rollback reaches the demo service unless a human approved that very  *)
(* recommendation and it is the one action execute_approval implements,    *)
(* whatever requests race, die or are repeated.                            *)
ApprovedBeforeAction ==
    \A r \in Recommendations :
        performed[r] > 0 => r \in everApproved /\ ActionOf[r] = "simulated_rollback"

(* A recorded success is a rollback that took effect and that a health     *)
(* check confirmed; a failed or interrupted execution records none.        *)
RecordedSuccessIsReal ==
    \A r \in Recommendations :
        approval[r].execution_status = "succeeded" => performed[r] > 0 /\ r \in verified

(* Incident and approval are written together: a status that an incident   *)
(* got from the gate is backed by an approval of it in the matching state, *)
(* and resolved_at by an execution, although each handler compares with a  *)
(* stale copy to decide whether it writes the incident at all.             *)
Backs(r, st) ==
    CASE st = "needs_approval" -> approval[r].status = "pending"
      [] st \in {"approved", "rejected"} -> approval[r].status = st
      [] st = "resolved" -> approval[r].execution_status = "succeeded"
      [] OTHER -> FALSE

IncidentStatusIsBacked ==
    \A i \in Incidents :
        /\ incident[i].status # "analyzing" =>
              \E r \in Recommendations :
                  IncidentOf[r] = i /\ Backs(r, incident[i].status)
        /\ incident[i].resolved =>
              \E r \in Recommendations : IncidentOf[r] = i /\ Backs(r, "resolved")

(* A decision that stands was taken before the approval expired, by the    *)
(* clock of the handler that took it.                                      *)
DecidedInTime ==
    \A r \in Recommendations :
        approval[r].status \in {"approved", "rejected"} =>
            approval[r].decided_at <= approval[r].expires_at

(* A repeated or racing approval request never replaces an approval that   *)
(* exists: a decided one never goes back to pending, and none disappears.  *)
RequestKeepsDecision ==
    [][\A r \in Recommendations :
          /\ approval[r].status # "absent" =>
                /\ approval'[r].status # "absent"
                /\ approval'[r].expires_at = approval[r].expires_at
          /\ approval[r].status \in {"approved", "rejected"} =>
                approval'[r].status # "pending"]_vars

InFlight == {s \in Sessions : sess[s].pc # "idle"}

(* However many requests lock rows of approvals and incidents crosswise,   *)
(* no set of them waits only within itself: one of them can go on, waits   *)
(* for a request outside of the set, or is one of two that wait for each   *)
(* other, which PostgreSQL breaks.  There is no longer circle of waits.    *)
NoStandstill ==
    \A S \in SUBSET InFlight :
        S # {} => \E s \in S :
            \/ \A t \in Sessions : ~WaitsFor(s, t)
            \/ \E t \in InFlight \ S : WaitsFor(s, t)
            \/ \E t \in S \ {s} : WaitsFor(s, t) /\ WaitsFor(t, s)

(* Every request ends: waits for row locks are resolved, even when decide  *)
(* and execute lock the approval and the incident in opposite orders.      *)
RequestsEnd ==
    \A s \in Sessions : (sess[s].pc # "idle") ~> (sess[s].pc = "idle")

-----------------------------------------------------------------------------
(* The four properties below are what the documentation, or the code's own *)
(* error messages, say of the gate and what the code does not ensure.      *)

(* SAFETY.md, before a mutating tool runs: the approval has not expired. *)
ExecutionStartsBeforeExpiry ==
    [][\A s \in Sessions, r \in Recommendations :
          BeginExecute(s, r) => now <= approval[r].expires_at]_vars

(* The lifecycle of ARCHITECTURE.md, EXECUTING then RESOLVED / FAILED: a   *)
(* failed execution leaves its failure in the database.                    *)
FailureIsRecorded ==
    [][\A s \in Sessions : RollBackFailure(s) =>
          approval'[sess[s].rec].execution_status = "failed"]_vars

(* "Approval has already been decided": a decision is never overwritten. *)
DecisionIsFinal ==
    [][\A r \in Recommendations :
          approval[r].status \in {"approved", "rejected"} =>
              approval'[r].status = approval[r].status]_vars

(* "Approval has already been executed": after a recorded success the      *)
(* rollback is not carried out again.                                      *)
NotExecutedAgain ==
    [][\A r \in Recommendations :
          performed'[r] # performed[r] => approval[r].execution_status = "none"]_vars

=============================================================================
