--------------------------- MODULE CaseFile_proofs ---------------------------
(***************************************************************************)
(* That Investigation is the file of CaseFile, for any number of requests  *)
(* and whatever the model answers.                                         *)
(*                                                                         *)
(* What a session enters at its commit it put together before, in part     *)
(* from rows that others may write.  Besides the invariant of              *)
(* Investigation_proofs this takes that a status it has put stays the one  *)
(* it has seen, so that an approval replaces ANALYZING, and that a row of  *)
(* a hypothesis is written as a whole.                                     *)
(***************************************************************************)
EXTENDS Investigation_proofs

PutOK(q) ==
    /\ req[q].pc \in {"ready", "create"} => req[q].put = "none"
    /\ req[q].put = "analyzing" => req[q].seen = "analyzing"
    /\ req[q].pc = "commit" /\ req[q].asks => req[q].put # "analyzing"

FileInv ==
    /\ IInv
    /\ \A q \in Requests : PutOK(q)
    /\ \A h \in Requests : found[h].run = None => found[h] = NoHypothesis

LEMMA FileInit == Init => FileInv
BY InitEstablishesIInv DEF Init, FileInv, PutOK, Ready, NoHypothesis

(* A session sees to what it puts. *)
LEMMA PutOKNext ==
    ASSUME FileInv, [Next]_vars, NEW p \in Requests
    PROVE  PutOK(p)'
<1>a. TypeOK /\ PutOK(p) /\ NothingYet(p) /\ req \in [Requests -> RequestState]
  BY DEF FileInv, IInv, SessionOK, TypeOK
<1>1. CASE req'[p] = req[p]
  BY <1>a, <1>1 DEF PutOK
<1>2. ASSUME NEW q \in Requests, q # p, Begin(q) \/ LockStep(q) \/ FreeStep(q) \/ Die(q)
      PROVE  req'[p] = req[p]
  <2>1. CASE RunGraph(q)
    BY <1>a, <1>2, <2>1, GraphStep
  <2>2. CASE ReadEvidence(q)
    <3>1. PICK E, cites :
             req' = [req EXCEPT ![q].pc = "lockincident", ![q].evidence = E, ![q].cites = cites]
      BY <2>2, Zenon DEF ReadEvidence
    <3> QED BY <1>a, <1>2, <3>1
  <2>3. CASE Begin(q) \/ LockStep(q)
    BY <1>a, <1>2, <2>3
       DEF Begin, LockStep, CreateRun, EndCollection, LockRun, LockIncident, Approve
  <2>4. CASE QuerySource(q) \/ PickRun(q) \/ Commit(q) \/ Die(q)
    BY <1>a, <1>2, <2>4 DEF QuerySource, PickRun, Commit, Die
  <2> QED BY <1>2, <2>1, <2>2, <2>3, <2>4 DEF FreeStep
<1>3. CASE Begin(p) \/ CreateRun(p)
  <2>1. req[p].put = "none" /\ ~req[p].asks
    BY <1>a, <1>3 DEF Begin, CreateRun, PutOK, NothingYet, RequestState
  <2>2. req'[p].put = req[p].put
    BY <1>a, <1>3 DEF Begin, CreateRun, RequestState
  <2>3. req'[p].pc # "commit"
    BY <1>a, <1>3 DEF Begin, CreateRun, RequestState
  <2> QED BY <2>1, <2>2, <2>3 DEF PutOK
<1>4. ASSUME req'[p].put = req[p].put, req'[p].seen = req[p].seen,
             req'[p].pc \notin {"ready", "create"},
             req'[p].pc = "commit" => ~req'[p].asks
      PROVE  PutOK(p)'
  BY <1>a, <1>4 DEF PutOK
<1>5. CASE EndCollection(p)
  <2>1. CASE req[p].op = "collect"
    BY <1>a, <1>5, <2>1 DEF EndCollection, Done, Ready, PutOK
  <2>2. CASE req[p].op # "collect"
    BY <1>a, <1>4, <1>5, <2>2 DEF EndCollection, RequestState
  <2> QED BY <2>1, <2>2
<1>6. CASE LockRun(p)
  <2>1. ~req[p].asks
    BY <1>a, <1>6 DEF LockRun, NothingYet, RequestState
  <2> QED BY <1>a, <1>4, <1>6, <2>1 DEF LockRun, RequestState
<1>7. CASE LockIncident(p)
  <2>1. \/ req'[p].put = "analyzing" /\ req'[p].seen = "analyzing"
        \/ req'[p].put = req[p].put /\ req'[p].seen = req[p].seen
    BY <1>a, <1>7 DEF LockIncident, RequestState
  <2>2. req'[p].pc = "lockrun"
    BY <1>a, <1>7 DEF LockIncident, RequestState
  <2> QED BY <1>a, <2>1, <2>2 DEF PutOK
<1>8. CASE Approve(p)
  <2>1. CASE req[p].seen = "needs_approval"
    <3>1. req'[p].put = req[p].put /\ req'[p].seen = req[p].seen /\ req'[p].pc = "commit"
      BY <1>a, <1>8, <2>1 DEF Approve, RequestState
    <3> QED BY <1>a, <2>1, <3>1 DEF PutOK
  <2>2. CASE req[p].seen # "needs_approval"
    BY <1>a, <1>8, <2>2 DEF Approve, RequestState, PutOK
  <2> QED BY <2>1, <2>2
<1>9. CASE QuerySource(p) \/ PickRun(p)
  <2>1. CASE QuerySource(p)
    <3>1. req'[p].put = req[p].put /\ req'[p].seen = req[p].seen /\ req'[p].pc \in {"query", "end"}
      BY <1>a, <2>1 DEF QuerySource, RequestState
    <3> QED BY <1>4, <3>1
  <2>2. CASE PickRun(p)
    <3>1. PICK r \in Requests :
             req' = [req EXCEPT ![p].pc = "read", ![p].run = r, ![p].status = run[r]]
      BY <2>2 DEF PickRun
    <3> QED BY <1>a, <1>4, <3>1 DEF RequestState
  <2> QED BY <1>9, <2>1, <2>2
<1>10. CASE ReadEvidence(p)
  <2>1. PICK E, cites :
           req' = [req EXCEPT ![p].pc = "lockincident", ![p].evidence = E, ![p].cites = cites]
    BY <1>10, Zenon DEF ReadEvidence
  <2> QED BY <1>a, <1>4, <2>1 DEF RequestState
<1>11. CASE RunGraph(p)
  <2>1. ~req[p].asks
    BY <1>a, <1>11, Zenon DEF RunGraph, NothingYet
  <2>2. PICK books \in {{}, {"runbook"}}, cites \in Answers :
        LET E == EvidenceOf(p) \cup books IN
        \/ /\ Grounded(cites, E)
           /\ \E asks \in BOOLEAN :
                 req' = [req EXCEPT ![p].evidence = E, ![p].cites = cites,
                                    ![p].asks = asks,
                                    ![p].pc = IF asks THEN "approve" ELSE "commit"]
        \/ req' = [req EXCEPT ![p].evidence = E, ![p].pc = "commit"]
    BY <1>11 DEF RunGraph
  <2>3. ASSUME NEW E, req' = [req EXCEPT ![p].evidence = E, ![p].pc = "commit"]
        PROVE  PutOK(p)'
    BY <1>a, <1>4, <2>1, <2>3 DEF RequestState
  <2>4. ASSUME NEW E, NEW asks \in BOOLEAN,
               req' = [req EXCEPT ![p].evidence = E, ![p].cites = cites, ![p].asks = asks,
                                  ![p].pc = IF asks THEN "approve" ELSE "commit"]
        PROVE  PutOK(p)'
    BY <1>a, <1>4, <2>4 DEF RequestState
  <2> QED BY <2>2, <2>3, <2>4
<1>12. CASE Commit(p) \/ Die(p)
  <2>1. req'[p] = Done
    BY <1>a, <1>12 DEF Commit, Die
  <2> QED BY <2>1 DEF PutOK, Done, Ready
<1>13. (\E h \in Requests : RequestApproval(h) \/ Decide(h) \/ Execute(h)) \/ UNCHANGED vars
          => req'[p] = req[p]
  BY DEF RequestApproval, Decide, Execute, Move, vars
<1> QED
  BY <1>1, <1>2, <1>3, <1>5, <1>6, <1>7, <1>8, <1>9, <1>10, <1>11, <1>12, <1>13
     DEF Next, LockStep, FreeStep

(* A hypothesis is written as a whole, by the commit of its session. *)
LEMMA FoundNext ==
    ASSUME FileInv, [Next]_vars, NEW h \in Requests, found'[h].run = None
    PROVE  found'[h] = NoHypothesis
<1>1. CASE UNCHANGED found
  BY <1>1 DEF FileInv
<1>2. ASSUME NEW q \in Requests, Commit(q) PROVE found'[h] = NoHypothesis
  <2>1. req[q].run # None
    BY <1>2 DEF FileInv, IInv, SessionOK, RunOK, Working, Commit
  <2>2. found \in [Requests -> [run : Requests \cup {None}, cites : SUBSET EvidenceKinds]]
    BY DEF FileInv, IInv, TypeOK
  <2>3. \/ UNCHANGED found
        \/ found' = [found EXCEPT ![q] = [run |-> req[q].run, cites |-> req[q].cites]]
    BY <1>2 DEF Commit
  <2> QED BY <2>1, <2>2, <2>3 DEF FileInv
<1> QED
  BY <1>1, <1>2, Zenon
     DEF Next, LockStep, FreeStep, Begin, CreateRun, EndCollection, LockRun, LockIncident,
         Approve, QuerySource, PickRun, ReadEvidence, RunGraph, Die, RequestApproval, Decide,
         Execute, Move, vars, records

LEMMA FileNext == FileInv /\ [Next]_vars => FileInv'
<1> SUFFICES ASSUME FileInv, [Next]_vars PROVE FileInv'
  OBVIOUS
<1>1. IInv'
  BY NextKeepsIInv DEF FileInv
<1>2. \A q \in Requests : PutOK(q)'
  BY PutOKNext
<1>3. \A h \in Requests : found'[h].run = None => found'[h] = NoHypothesis
  BY FoundNext
<1> QED BY <1>1, <1>2, <1>3 DEF FileInv, NoHypothesis

-----------------------------------------------------------------------------
Evidence == [r \in Requests |-> EvidenceOf(r)]

LEMMA EvidenceStays ==
    ASSUME UNCHANGED <<calls, runbooks>>
    PROVE  Evidence' = Evidence
BY DEF Evidence, EvidenceOf

LEMMA EvidenceAdded ==
    ASSUME NEW r \in Requests, NEW more,
           EvidenceOf(r)' = EvidenceOf(r) \cup more,
           \A x \in Requests \ {r} : EvidenceOf(x)' = EvidenceOf(x)
    PROVE  Evidence' = [Evidence EXCEPT ![r] = @ \cup more]
BY DEF Evidence

LEMMA CreateRunOpens ==
    ASSUME FileInv, NEW q \in Requests, CreateRun(q)
    PROVE  File!Open(q)
<1>1. run[q] = "absent" /\ run' = [run EXCEPT ![q] = "running"] /\ UNCHANGED <<found, gate>>
  BY DEF FileInv, IInv, SessionOK, RunOK, CreateRun, records
<1>2. incident' \in {incident, "collecting_evidence"}
  BY DEF CreateRun
<1>3. Evidence' = Evidence
  BY EvidenceStays DEF CreateRun, records
<1> QED BY <1>1, <1>2, <1>3 DEF File!Open, Evidence

LEMMA QuerySourceCollects ==
    ASSUME FileInv, NEW q \in Requests, QuerySource(q)
    PROVE  \/ \E k \in {"metric", "log", "deployment"} : File!Collect(q, k)
           \/ UNCHANGED File!fileVars
<1>0. PICK s \in Kinds : s = Sources[req[q].pos] /\ calls[q][s] = "none"
  <2>1. req[q].pos \in 1..3
    BY DEF FileInv, IInv, TypeOK, RequestState
  <2> QED BY <2>1, SourceFacts DEF FileInv, IInv, SessionOK, CallsAhead, QuerySource
<1>1. PICK outcome \in {"succeeded", "failed"} : calls' = [calls EXCEPT ![q][s] = outcome]
  BY <1>0 DEF QuerySource
<1>2. /\ UNCHANGED <<incident, run, runbooks, found, gate>>
      /\ calls \in [Requests -> [Kinds -> {"none", "succeeded", "failed"}]]
  BY DEF QuerySource, FileInv, IInv, TypeOK
<1>3. run[q] # "absent"
  BY RequestsAssumption DEF FileInv, IInv, SessionOK, RunOK, QuerySource
<1>4. \A x \in Requests \ {q} : EvidenceOf(x)' = EvidenceOf(x)
  BY <1>1, <1>2 DEF EvidenceOf
<1>5. CASE outcome = "succeeded"
  <2>1. EvidenceOf(q)' = EvidenceOf(q) \cup {s}
    BY <1>1, <1>2, <1>5 DEF EvidenceOf
  <2>2. Evidence' = [Evidence EXCEPT ![q] = @ \cup {s}]
    BY <1>4, <2>1, EvidenceAdded
  <2>3. File!Collect(q, s)
    BY <1>2, <1>3, <2>2 DEF File!Collect, Evidence
  <2> QED BY <2>3 DEF Kinds
<1>6. CASE outcome = "failed"
  <2>1. EvidenceOf(q)' = EvidenceOf(q)
    BY <1>0, <1>1, <1>2, <1>6 DEF EvidenceOf
  <2>2. Evidence' = Evidence
    BY <1>4, <2>1 DEF Evidence
  <2> QED BY <1>2, <2>2 DEF File!fileVars, Evidence
<1> QED BY <1>5, <1>6

LEMMA EndCollectionEnds ==
    ASSUME FileInv, NEW q \in Requests, EndCollection(q)
    PROVE  File!EndRun(q)
<1>1. /\ run' = [run EXCEPT ![q] = CollectionStatus(q)]
      /\ UNCHANGED <<incident, calls, runbooks, found, gate>>
  BY DEF EndCollection, records
<1>2. run[q] # "absent"
  BY RequestsAssumption DEF FileInv, IInv, SessionOK, RunOK, EndCollection
<1>3. EvidenceOf(q) \ {"runbook"} = {s \in Kinds : calls[q][s] = "succeeded"}
  BY DEF EvidenceOf, Kinds
<1>4. CollectionStatus(q) =
         IF EvidenceOf(q) \ {"runbook"} = {} THEN "insufficient_evidence" ELSE "completed"
  BY <1>3 DEF CollectionStatus
<1>5. Evidence[q] = EvidenceOf(q) /\ Evidence' = Evidence
  BY <1>1, EvidenceStays DEF Evidence
<1> QED BY <1>1, <1>2, <1>4, <1>5 DEF File!EndRun, Evidence

(* The commit of a session finds a hypothesis or nothing, and its runbook  *)
(* evidence goes with it.                                                  *)
LEMMA CommitFinds ==
    ASSUME FileInv, NEW q \in Requests, Commit(q)
    PROVE  \E r \in Requests : \E books \in {{}, {"runbook"}} :
              \/ File!FindNothing(r, books)
              \/ \E h \in Requests, asks \in BOOLEAN : File!Find(h, r, books, asks)
<1>1. /\ TypeOK /\ SessionOK(q) /\ PutOK(q) /\ req[q] \in RequestState /\ req[q].pc = "commit"
      /\ found[q].run = None => found[q] = NoHypothesis
  BY DEF FileInv, IInv, TypeOK, Commit
<1>2. PICK r \in Requests : r = req[q].run
  BY <1>1 DEF RequestState, SessionOK, RunOK, Working
<1>3. /\ run[r] # "absent" /\ found[q] = NoHypothesis /\ gate[q] = "proposed"
      /\ req[q].cites \subseteq req[q].evidence
      /\ req[q].evidence \subseteq EvidenceOf(r) \cup {"runbook"}
  BY <1>1, <1>2, RequestsAssumption DEF SessionOK, RunOK, EvidenceInHand, NothingYet
<1>4. PICK books \in {{}, {"runbook"}} :
         books = IF "runbook" \in req[q].evidence THEN {"runbook"} ELSE {}
  OBVIOUS
<1>5. /\ UNCHANGED calls
      /\ runbooks' = runbooks \cup (IF "runbook" \in req[q].evidence THEN {r} ELSE {})
  BY <1>2 DEF Commit
<1>6. /\ EvidenceOf(r)' = EvidenceOf(r) \cup books
      /\ \A x \in Requests \ {r} : EvidenceOf(x)' = EvidenceOf(x)
  BY <1>4, <1>5 DEF EvidenceOf
<1>7. Evidence' = [Evidence EXCEPT ![r] = @ \cup books]
  BY <1>6, EvidenceAdded
<1>8. /\ incident' = IF req[q].put # "none" THEN req[q].put ELSE incident
      /\ req[q].asks => req[q].put \in {"none", "needs_approval"}
      /\ ~req[q].asks => req[q].put \in {"none", "analyzing"}
  BY <1>1 DEF Commit, PutOK, SessionOK, NothingYet
<1>9. CASE req[q].cites = {}
  <2>1. ~req[q].asks
    BY <1>1, <1>9 DEF SessionOK, NothingYet
  <2>2. UNCHANGED <<found, gate>>
    BY <1>9, <2>1 DEF Commit
  <2>3. run' \in {run, [run EXCEPT ![r] = "insufficient_evidence"]}
    BY <1>2, <1>9 DEF Commit, FinalStatus
  <2>4. incident' \in {incident, "analyzing"}
    BY <1>8, <2>1
  <2>5. File!FindNothing(r, books)
    BY <1>3, <1>7, <2>2, <2>3, <2>4 DEF File!FindNothing, Evidence
  <2> QED BY <2>5
<1>10. CASE req[q].cites # {}
  <2>1. run' = [run EXCEPT ![r] = "completed"]
    BY <1>2, <1>10 DEF Commit, FinalStatus, WritesRun
  <2>2. found' = [found EXCEPT ![q] = [run |-> r, cites |-> req[q].cites]]
    BY <1>2, <1>10 DEF Commit
  <2>3. req[q].cites \in (SUBSET Evidence'[r]) \ {{}}
    <3>1. Evidence'[r] = EvidenceOf(r) \cup books
      BY <1>6 DEF Evidence
    <3> QED BY <1>3, <1>4, <1>10, <3>1
  <2>4. PICK asks \in BOOLEAN : asks = req[q].asks
    <3>1. req[q].asks \in BOOLEAN
      BY <1>1 DEF RequestState
    <3> QED BY <3>1, Zenon
  <2>5. \/ ~asks /\ UNCHANGED gate /\ incident' \in {incident, "analyzing"}
        \/ /\ asks
           /\ gate' = [gate EXCEPT ![q] = "pending"]
           /\ incident' \in {incident, "needs_approval"}
    BY <1>8, <2>4 DEF Commit
  <2>6. \E cites \in (SUBSET Evidence'[r]) \ {{}} :
           found' = [found EXCEPT ![q] = [run |-> r, cites |-> cites]]
    BY <2>2, <2>3
  <2>7. File!Find(q, r, books, asks)
    BY <1>3, <1>7, <2>1, <2>5, <2>6 DEF File!Find, File!NoHypothesis, NoHypothesis, Evidence
  <2> QED BY <2>7
<1> QED BY <1>9, <1>10

LEMMA MoveMoves ==
    ASSUME FileInv, NEW h \in Requests, NEW from, NEW to, NEW st, Move(h, from, to, st)
    PROVE  File!Move(h, from, to, st)
<1>1. found[h] # File!NoHypothesis
  BY DEF Move, File!NoHypothesis
<1>2. Evidence' = Evidence
  BY EvidenceStays DEF Move, records
<1> QED BY <1>1, <1>2 DEF Move, File!Move, Evidence, records

LEMMA StepOfFile ==
    ASSUME FileInv, [Next]_vars
    PROVE  [File!Next]_File!fileVars
<1>1. ASSUME NEW q \in Requests, CreateRun(q) PROVE File!Next
  BY <1>1, CreateRunOpens DEF File!Next
<1>2. ASSUME NEW q \in Requests, QuerySource(q) PROVE [File!Next]_File!fileVars
  BY <1>2, QuerySourceCollects DEF File!Next
<1>3. ASSUME NEW q \in Requests, EndCollection(q) PROVE File!Next
  BY <1>3, EndCollectionEnds DEF File!Next
<1>4. ASSUME NEW q \in Requests, Commit(q) PROVE File!Next
  BY <1>4, CommitFinds DEF File!Next
<1>5. ASSUME NEW h \in Requests, RequestApproval(h) \/ Decide(h) \/ Execute(h) PROVE File!Next
  <2>1. \/ Move(h, "proposed", "pending", "needs_approval")
        \/ Move(h, "pending", "approved", "approved")
        \/ Move(h, "pending", "rejected", "rejected")
        \/ Move(h, "approved", "executed", "resolved")
    BY <1>5 DEF RequestApproval, Decide, Execute
  <2> QED BY <2>1, MoveMoves DEF File!Next
<1>6. CASE UNCHANGED <<incident, run, records, gate>>
  <2>1. Evidence' = Evidence
    BY <1>6, EvidenceStays DEF records
  <2> QED BY <1>6, <2>1 DEF records, File!fileVars, Evidence
<1>7. ASSUME NEW q \in Requests,
             \/ Begin(q) \/ LockRun(q) \/ LockIncident(q) \/ Approve(q)
             \/ PickRun(q) \/ ReadEvidence(q) \/ RunGraph(q) \/ Die(q)
      PROVE  UNCHANGED <<incident, run, records, gate>>
  <2>1. CASE Begin(q) \/ LockRun(q) \/ LockIncident(q) \/ Approve(q)
    BY <2>1, Zenon DEF Begin, LockRun, LockIncident, Approve
  <2>2. CASE PickRun(q) \/ ReadEvidence(q)
    BY <2>2, Zenon DEF PickRun, ReadEvidence
  <2>3. CASE RunGraph(q) \/ Die(q)
    BY <2>3, Zenon DEF RunGraph, Die
  <2> QED BY <1>7, <2>1, <2>2, <2>3
<1>8. CASE UNCHANGED vars
  BY <1>6, <1>8 DEF vars
<1> QED BY <1>1, <1>2, <1>3, <1>4, <1>5, <1>6, <1>7, <1>8, Zenon DEF Next, LockStep, FreeStep

(* For any number of requests that collect, investigate, analyze and die   *)
(* at any point: the records of an incident are a case file, which each    *)
(* commit extends by all that belongs together or not at all.              *)
THEOREM InvestigationImplementsCaseFile == Spec => ImplementsCaseFile
<1>1. Init => File!Init
  <2> SUFFICES ASSUME Init PROVE File!Init
    OBVIOUS
  <2>1. \A r \in Requests : EvidenceOf(r) = {}
    BY DEF Init, EvidenceOf
  <2>2. [r \in Requests |-> EvidenceOf(r)] = [r \in Requests |-> {}]
    BY <2>1
  <2> QED BY <2>2 DEF Init, File!Init, NoHypothesis, File!NoHypothesis
<1>2. FileInv /\ [Next]_vars => [File!Next]_File!fileVars
  BY StepOfFile
<1> QED BY <1>1, <1>2, FileInit, FileNext, PTL DEF Spec, ImplementsCaseFile, File!Spec

=============================================================================
