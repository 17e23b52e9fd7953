------------------------ MODULE Investigation_proofs ------------------------
(***************************************************************************)
(* What Investigation keeps for any number of requests and whatever the    *)
(* model answers.                                                          *)
(*                                                                         *)
(* An investigation or analysis commits, at its end, citations it chose    *)
(* from evidence it read long before, about a run that others may have     *)
(* changed meanwhile.  The inductive invariant says that what is in hand   *)
(* stays evidence of the run, because evidence is only added and no tool   *)
(* call is recorded twice, and that a hypothesis makes its run finished.   *)
(* LockInv, at the end, says which rows a session holds at each step.      *)
(***************************************************************************)
EXTENDS Investigation, TLAPS

Working == {"lockincident", "lockrun", "graph", "approve", "commit"}

(* The run a session works on exists; a creator works on its own. *)
RunOK(q) ==
    /\ req[q].pc \in {"ready", "create"} => run[q] = "absent"
    /\ req[q].pc \in {"query", "end", "graph", "approve"} => req[q].run = q
    /\ req[q].pc \in {"query", "end", "read"} \cup Working => req[q].run # None
    /\ req[q].pc \in Working /\ req[q].op # "analyze" => req[q].run = q
    /\ req[q].pc \in {"create", "query", "end", "graph", "approve"} => req[q].op # "analyze"
    /\ req[q].pc \in {"ready", "create", "pick"} => req[q].run = None
    /\ req[q].pc \in {"pick", "read"} => req[q].op = "analyze"
    /\ req[q].run # None => run[req[q].run] # "absent"

(* The sources that are still to be queried have no tool call. *)
CallsAhead(q) ==
    /\ req[q].pc \in {"ready", "create"} =>
          req[q].pos = 1 /\ \A s \in Kinds : calls[q][s] = "none"
    /\ req[q].pc = "query" =>
          \A n \in 1..3 : n >= req[q].pos => calls[q][Sources[n]] = "none"

(* What a session has in hand is evidence of its run, or a runbook that it *)
(* is going to store.                                                      *)
EvidenceInHand(q) ==
    /\ req[q].run = None => req[q].evidence = {}
    /\ req[q].run # None => req[q].evidence \subseteq EvidenceOf(req[q].run) \cup {"runbook"}
    /\ req[q].cites \subseteq req[q].evidence
    /\ req[q].cites # {} => req[q].pc \in {"approve", "commit"} \/ req[q].op = "analyze"

(* An approval is asked only with a hypothesis, and nothing is recorded    *)
(* before the commit.                                                      *)
NothingYet(q) ==
    /\ req[q].pc = "approve" => req[q].asks
    /\ req[q].asks => req[q].cites # {} /\ req[q].pc \in {"approve", "commit"}
    /\ req[q].put \in {"none", "analyzing", "needs_approval"}
    /\ req[q].put = "needs_approval" => req[q].asks
    /\ req[q].pc # "done" => found[q].run = None /\ gate[q] = "proposed"

SessionOK(q) == RunOK(q) /\ CallsAhead(q) /\ EvidenceInHand(q) /\ NothingYet(q)

HypothesisOK(h) ==
    /\ found[h].run # None =>
          /\ run[found[h].run] \in Finished
          /\ found[h].cites # {}
          /\ found[h].cites \subseteq EvidenceOf(found[h].run)
    /\ gate[h] # "proposed" => found[h].run # None

IInv ==
    /\ TypeOK
    /\ \A q \in Requests : SessionOK(q) /\ HypothesisOK(q)
    /\ GateStatusIsBacked

-----------------------------------------------------------------------------
(* Runs only get further, and evidence is only added. *)
Grows ==
    \A r \in Requests :
        /\ EvidenceOf(r) \subseteq EvidenceOf(r)'
        /\ run[r] # "absent" => run'[r] # "absent"
        /\ run[r] \in Finished => run'[r] \in Finished

(* What a step of another request leaves to p. *)
Keeps(p) ==
    /\ req'[p] = req[p]
    /\ calls'[p] = calls[p]
    /\ run[p] = "absent" => run'[p] = "absent"
    /\ req[p].pc # "done" => found'[p] = found[p] /\ gate'[p] = gate[p]

LEMMA SourceFacts ==
    /\ \A n \in 1..3 : Sources[n] \in Kinds
    /\ \A m, n \in 1..3 : Sources[m] = Sources[n] => m = n
BY DEF Sources, Kinds

(* A request keeps its type when a step edits it, one lemma per edit. *)
LEMMA EditPosition ==
    ASSUME NEW s \in RequestState, NEW pc \in {"query", "end"}, NEW pos \in 1..3
    PROVE  [s EXCEPT !.pc = pc, !.pos = pos] \in RequestState
BY DEF RequestState

LEMMA EditStatus ==
    ASSUME NEW s \in RequestState, NEW st \in AgentRunStatus
    PROVE  [s EXCEPT !.pc = "lockincident", !.status = st] \in RequestState
BY DEF RequestState

LEMMA EditReading ==
    ASSUME NEW s \in RequestState,
           NEW E \in SUBSET EvidenceKinds, NEW cites \in SUBSET EvidenceKinds
    PROVE  [s EXCEPT !.pc = "lockincident", !.evidence = E, !.cites = cites]
              \in RequestState
BY DEF RequestState

LEMMA EditResult ==
    ASSUME NEW s \in RequestState, NEW pc \in {"approve", "commit"}, NEW asks \in BOOLEAN,
           NEW E \in SUBSET EvidenceKinds, NEW cites \in SUBSET EvidenceKinds
    PROVE  [s EXCEPT !.evidence = E, !.cites = cites, !.asks = asks, !.pc = pc]
              \in RequestState
BY DEF RequestState

LEMMA SessionStays ==
    ASSUME TypeOK, NEW p \in Requests, SessionOK(p), Grows, Keeps(p)
    PROVE  SessionOK(p)'
<1>1. RunOK(p)'
  BY DEF SessionOK, RunOK, Grows, Keeps, TypeOK, RequestState
<1>2. CallsAhead(p)'
  BY DEF SessionOK, CallsAhead, Keeps
<1>3. EvidenceInHand(p)'
  <2>1. req[p].run \in Requests \cup {None}
    BY DEF TypeOK, RequestState
  <2>2. CASE req[p].run = None
    BY <2>2 DEF SessionOK, EvidenceInHand, Keeps
  <2>3. CASE req[p].run \in Requests
    BY <2>3, RequestsAssumption DEF SessionOK, EvidenceInHand, Keeps, Grows
  <2> QED BY <2>1, <2>2, <2>3
<1>4. NothingYet(p)'
  BY DEF SessionOK, NothingYet, Keeps
<1> QED BY <1>1, <1>2, <1>3, <1>4 DEF SessionOK

LEMMA HypothesisStays ==
    ASSUME TypeOK, NEW h \in Requests, HypothesisOK(h), Grows, found'[h] = found[h],
           gate'[h] # gate[h] => found[h].run # None
    PROVE  HypothesisOK(h)'
<1>1. found[h].run \in Requests \cup {None}
  BY DEF TypeOK
<1>2. CASE found[h].run = None
  BY <1>2 DEF HypothesisOK
<1>3. CASE found[h].run \in Requests
  BY <1>3, RequestsAssumption DEF HypothesisOK, Grows
<1> QED BY <1>1, <1>2, <1>3

(* A step that commits nothing needs a look at its own session only. *)
LEMMA QuietStep ==
    ASSUME IInv, NEW q \in Requests, UNCHANGED <<incident, run, records, gate>>,
           TypeOK', \A p \in Requests \ {q} : req'[p] = req[p], SessionOK(q)'
    PROVE  IInv'
<1>1. Grows
  BY DEF Grows, EvidenceOf, records
<1>2. ASSUME NEW p \in Requests PROVE SessionOK(p)' /\ HypothesisOK(p)'
  <2>1. CASE p = q
    BY <1>1, <2>1, HypothesisStays DEF IInv, records
  <2>2. CASE p # q
    <3>1. Keeps(p)
      BY <2>2 DEF Keeps, records
    <3> QED BY <1>1, <3>1, SessionStays, HypothesisStays DEF IInv, records
  <2> QED BY <2>1, <2>2
<1>3. GateStatusIsBacked'
  BY DEF IInv, GateStatusIsBacked
<1> QED BY <1>2, <1>3 DEF IInv

-----------------------------------------------------------------------------
LEMMA BeginStep ==
    ASSUME IInv, NEW q \in Requests, Begin(q)
    PROVE  IInv'
<1> USE DEF IInv
<1>1. /\ req \in [Requests -> RequestState] /\ incident \in IncidentStatus
      /\ req[q].pc = "ready" /\ SessionOK(q)
      /\ UNCHANGED <<incident, run, records, gate, locks, died>>
  BY DEF TypeOK, Begin
<1>2. PICK op \in {"collect", "investigate", "analyze"},
           pc \in {"create", "pick"} :
        /\ pc = "create" <=> op # "analyze"
        /\ req' = [req EXCEPT ![q].op = op, ![q].pc = pc, ![q].seen = incident]
  BY DEF Begin
<1>3. TypeOK'
  BY <1>1, <1>2 DEF TypeOK, RequestState, records, locks
<1>4. /\ req'[q].pc = pc /\ req'[q].op = op /\ req'[q].run = req[q].run
      /\ req'[q].pos = req[q].pos /\ req'[q].evidence = req[q].evidence
      /\ req'[q].cites = req[q].cites /\ req'[q].asks = req[q].asks
      /\ req'[q].put = req[q].put
  BY <1>1, <1>2 DEF RequestState
<1>5. SessionOK(q)'
  BY <1>1, <1>2, <1>4 DEF SessionOK, RunOK, CallsAhead, EvidenceInHand, EvidenceOf,
     NothingYet, Working, records
<1>6. \A p \in Requests \ {q} : req'[p] = req[p]
  BY <1>1, <1>2
<1> QED BY <1>1, <1>3, <1>5, <1>6, QuietStep

LEMMA PickRunStep ==
    ASSUME IInv, NEW q \in Requests, PickRun(q)
    PROVE  IInv'
<1> USE DEF IInv
<1>1. /\ req \in [Requests -> RequestState] /\ run \in [Requests -> AgentRunStatus \cup {"absent"}]
      /\ req[q].pc = "pick" /\ SessionOK(q)
      /\ UNCHANGED <<incident, run, records, gate, locks, died>>
  BY DEF TypeOK, PickRun
<1>2. PICK r \in Requests :
        /\ run[r] # "absent"
        /\ req' = [req EXCEPT ![q].pc = "read", ![q].run = r, ![q].status = run[r]]
  BY DEF PickRun
<1>3. TypeOK'
  <2>1. run[r] \in AgentRunStatus /\ req[q] \in RequestState
    BY <1>1, <1>2
  <2>2. [req[q] EXCEPT !.pc = "read", !.run = r, !.status = run[r]] \in RequestState
    BY <2>1 DEF RequestState
  <2>3. req' \in [Requests -> RequestState]
    BY <1>1, <1>2, <2>2
  <2> QED BY <1>1, <2>3 DEF TypeOK, records, locks
<1>4. /\ req'[q].pc = "read" /\ req'[q].run = r /\ req'[q].evidence = req[q].evidence
      /\ req'[q].cites = req[q].cites /\ req'[q].asks = req[q].asks
      /\ req'[q].put = req[q].put
  BY <1>1, <1>2 DEF RequestState
<1>5. SessionOK(q)'
  <2>1. RunOK(q)' /\ CallsAhead(q)' /\ NothingYet(q)'
    BY <1>1, <1>2, <1>4, RequestsAssumption
       DEF SessionOK, RunOK, CallsAhead, NothingYet, Working, records
  <2>2. req[q].evidence = {} /\ req[q].cites = {}
    BY <1>1 DEF SessionOK, RunOK, EvidenceInHand
  <2>3. EvidenceInHand(q)'
    BY <1>2, <1>4, <2>2, RequestsAssumption DEF EvidenceInHand
  <2> QED BY <2>1, <2>3 DEF SessionOK
<1>6. \A p \in Requests \ {q} : req'[p] = req[p]
  BY <1>1, <1>2
<1> QED BY <1>1, <1>3, <1>5, <1>6, QuietStep

LEMMA ReadEvidenceStep ==
    ASSUME IInv, NEW q \in Requests, ReadEvidence(q)
    PROVE  IInv'
<1> USE DEF IInv
<1> DEFINE E == EvidenceOf(req[q].run)
<1>1. /\ req \in [Requests -> RequestState]
      /\ req[q].pc = "read" /\ SessionOK(q)
      /\ UNCHANGED <<incident, run, records, gate, locks, died>>
  BY DEF TypeOK, ReadEvidence
<1>2. PICK cites \in {{}, E \ {"runbook"}} :
        req' = [req EXCEPT ![q].pc = "lockincident", ![q].evidence = E, ![q].cites = cites]
  BY DEF ReadEvidence
<1>3. TypeOK'
  <2>1. E \subseteq EvidenceKinds /\ cites \subseteq E
    BY <1>2 DEF EvidenceOf, EvidenceKinds, Kinds
  <2>2. [req[q] EXCEPT !.pc = "lockincident", !.evidence = E, !.cites = cites]
           \in RequestState
    <3>1. req[q] \in RequestState
      BY <1>1
    <3>2. E \in SUBSET EvidenceKinds /\ cites \in SUBSET EvidenceKinds
      BY <2>1
    <3> QED BY <3>1, <3>2, EditReading
  <2>3. req' \in [Requests -> RequestState]
    BY <1>1, <1>2, <2>2
  <2> QED BY <1>1, <2>3 DEF TypeOK, records, locks
<1>4. /\ req'[q].pc = "lockincident" /\ req'[q].run = req[q].run
      /\ req'[q].op = req[q].op /\ req'[q].evidence = E /\ req'[q].cites = cites
      /\ req'[q].asks = req[q].asks /\ req'[q].put = req[q].put
  BY <1>1, <1>2 DEF RequestState
<1>5. SessionOK(q)'
  <2>1. RunOK(q)' /\ CallsAhead(q)' 
    BY <1>1, <1>4, RequestsAssumption
       DEF SessionOK, RunOK, CallsAhead, Working, records
  <2>2. cites \subseteq E
    BY <1>2
  <2>3. EvidenceInHand(q)'
    <3>1. E' = E /\ req'[q].run # None /\ req'[q].op = "analyze"
      BY <1>1, <1>4 DEF EvidenceOf, records, SessionOK, RunOK
    <3> QED BY <1>4, <2>2, <3>1 DEF EvidenceInHand
  <2>4. NothingYet(q)'
    BY <1>1, <1>4 DEF SessionOK, NothingYet, records
  <2> QED BY <2>1, <2>3, <2>4 DEF SessionOK
<1>6. \A p \in Requests \ {q} : req'[p] = req[p]
  BY <1>1, <1>2
<1> QED BY <1>1, <1>3, <1>5, <1>6, QuietStep

LEMMA LockIncidentStep ==
    ASSUME IInv, NEW q \in Requests, LockIncident(q)
    PROVE  IInv'
<1> USE DEF IInv
<1>1. /\ req \in [Requests -> RequestState]
      /\ req[q].pc = "lockincident" /\ SessionOK(q)
      /\ UNCHANGED <<incident, run, records, gate, lockR, died>>
      /\ lockI' \in {lockI, q}
  BY DEF TypeOK, LockIncident
<1>2. PICK seen \in {req[q].seen, "analyzing"}, put \in {req[q].put, "analyzing"} :
        req' = [req EXCEPT ![q].pc = "lockrun", ![q].seen = seen, ![q].put = put]
  <2>1. CASE MovesIncident(q)
    BY <2>1 DEF LockIncident
  <2>2. CASE ~MovesIncident(q)
    <3>1. req' = [req EXCEPT ![q].pc = "lockrun"]
      BY <2>2 DEF LockIncident
    <3>2. req' = [req EXCEPT ![q].pc = "lockrun", ![q].seen = req[q].seen,
                             ![q].put = req[q].put]
      BY <1>1, <3>1 DEF RequestState
    <3> QED BY <3>2
  <2> QED BY <2>1, <2>2
<1>3. TypeOK'
  <2>1. [req[q] EXCEPT !.pc = "lockrun", !.seen = seen, !.put = put] \in RequestState
    <3>1. seen \in IncidentStatus /\ put \in IncidentStatus \cup {"none"}
      BY <1>1 DEF RequestState, IncidentStatus
    <3>2. req[q] \in RequestState
      BY <1>1
    <3> QED BY <3>1, <3>2 DEF RequestState
  <2>2. req' \in [Requests -> RequestState]
    BY <1>1, <1>2, <2>1
  <2> QED BY <1>1, <2>2 DEF TypeOK, records
<1>4. /\ req'[q].pc = "lockrun" /\ req'[q].run = req[q].run /\ req'[q].op = req[q].op
      /\ req'[q].evidence = req[q].evidence /\ req'[q].cites = req[q].cites
      /\ req'[q].asks = req[q].asks /\ req'[q].put = put
  BY <1>1, <1>2 DEF RequestState
<1>5. SessionOK(q)'
  <2>1. RunOK(q)' /\ CallsAhead(q)' 
    BY <1>1, <1>4, RequestsAssumption
       DEF SessionOK, RunOK, CallsAhead, Working, records
  <2>2. EvidenceInHand(q)'
    BY <1>1, <1>4 DEF EvidenceInHand, EvidenceOf, SessionOK, records
  <2>3. NothingYet(q)'
    BY <1>1, <1>4 DEF SessionOK, NothingYet, records
  <2> QED BY <2>1, <2>2, <2>3 DEF SessionOK
<1>6. \A p \in Requests \ {q} : req'[p] = req[p]
  BY <1>1, <1>2
<1> QED BY <1>1, <1>3, <1>5, <1>6, QuietStep

LEMMA LockRunStep ==
    ASSUME IInv, NEW q \in Requests, LockRun(q)
    PROVE  IInv'
<1> USE DEF IInv
<1>1. /\ req \in [Requests -> RequestState] /\ lockR \in [Requests -> Requests \cup {None}]
      /\ req[q].pc = "lockrun" /\ SessionOK(q)
      /\ UNCHANGED <<incident, run, records, gate, lockI, died>>
      /\ lockR' = [lockR EXCEPT ![req[q].run] = q]
  BY DEF TypeOK, LockRun
<1>2. PICK pc \in {"commit", "graph"} :
        /\ req' = [req EXCEPT ![q].pc = pc]
        /\ pc = "graph" => req[q].op # "analyze"
  BY DEF LockRun
<1>3. TypeOK'
  <2>1. [req[q] EXCEPT !.pc = pc] \in RequestState
    BY <1>1 DEF RequestState
  <2>2. req' \in [Requests -> RequestState]
    BY <1>1, <1>2, <2>1
  <2>3. lockR' \in [Requests -> Requests \cup {None}]
    BY <1>1
  <2> QED BY <1>1, <2>2, <2>3 DEF TypeOK, records
<1>4. /\ req'[q].pc = pc /\ req'[q].run = req[q].run /\ req'[q].op = req[q].op
      /\ req'[q].evidence = req[q].evidence /\ req'[q].cites = req[q].cites
      /\ req'[q].asks = req[q].asks /\ req'[q].put = req[q].put
  BY <1>1, <1>2 DEF RequestState
<1>5. SessionOK(q)'
  <2>1. RunOK(q)' /\ CallsAhead(q)' 
    BY <1>1, <1>2, <1>4, RequestsAssumption
       DEF SessionOK, RunOK, CallsAhead, Working, records
  <2>2. EvidenceInHand(q)'
    BY <1>1, <1>4 DEF EvidenceInHand, EvidenceOf, SessionOK, records
  <2>3. NothingYet(q)'
    BY <1>1, <1>4 DEF SessionOK, NothingYet, records
  <2> QED BY <2>1, <2>2, <2>3 DEF SessionOK
<1>6. \A p \in Requests \ {q} : req'[p] = req[p]
  BY <1>1, <1>2
<1> QED BY <1>1, <1>3, <1>5, <1>6, QuietStep

LEMMA RunGraphStep ==
    ASSUME IInv, NEW q \in Requests, RunGraph(q)
    PROVE  IInv'
<1> USE DEF IInv
<1>1. /\ req \in [Requests -> RequestState]
      /\ req[q].pc = "graph" /\ SessionOK(q)
      /\ UNCHANGED <<incident, run, records, gate, locks, died>>
  BY DEF TypeOK, RunGraph
<1>2. req[q].run = q /\ ~req[q].asks /\ req[q].put # "needs_approval"
  BY <1>1 DEF SessionOK, RunOK, NothingYet, RequestState
<1>3. PICK books \in {{}, {"runbook"}}, answer \in Answers :
        LET E == EvidenceOf(q) \cup books IN
        \/ /\ Grounded(answer, E)
           /\ \E asks \in BOOLEAN :
                 req' = [req EXCEPT ![q].evidence = E, ![q].cites = answer,
                                    ![q].asks = asks,
                                    ![q].pc = IF asks THEN "approve" ELSE "commit"]
        \/ req' = [req EXCEPT ![q].evidence = E, ![q].pc = "commit"]
  BY DEF RunGraph
<1> DEFINE E == EvidenceOf(q) \cup books
<1>4. PICK cites \in SUBSET EvidenceKinds, asks \in BOOLEAN, pc \in {"approve", "commit"} :
        /\ req' = [req EXCEPT ![q].evidence = E, ![q].cites = cites,
                              ![q].asks = asks, ![q].pc = pc]
        /\ cites \subseteq E
        /\ pc = "approve" => asks
        /\ asks => cites # {}
  <2>1. CASE /\ Grounded(answer, E)
             /\ \E asks \in BOOLEAN :
                   req' = [req EXCEPT ![q].evidence = E, ![q].cites = answer,
                                      ![q].asks = asks,
                                      ![q].pc = IF asks THEN "approve" ELSE "commit"]
    BY <2>1, RequestsAssumption DEF Grounded
  <2>2. CASE req' = [req EXCEPT ![q].evidence = E, ![q].pc = "commit"]
    <3>1. req' = [req EXCEPT ![q].evidence = E, ![q].cites = req[q].cites,
                             ![q].asks = req[q].asks, ![q].pc = "commit"]
      BY <1>1, <2>2 DEF RequestState
    <3>2. req[q].cites \in SUBSET EvidenceKinds /\ req[q].asks \in BOOLEAN
      BY <1>1 DEF RequestState
    <3>3. req[q].cites = {}
      BY <1>1 DEF SessionOK, RunOK, EvidenceInHand
    <3> QED BY <1>2, <3>1, <3>2, <3>3
  <2> QED BY <1>3, <2>1, <2>2
<1>5. TypeOK'
  <2>1. E \subseteq EvidenceKinds
    BY DEF EvidenceOf, EvidenceKinds, Kinds
  <2>2. [req[q] EXCEPT !.evidence = E, !.cites = cites, !.asks = asks, !.pc = pc]
           \in RequestState
    <3>1. req[q] \in RequestState
      BY <1>1
    <3>2. E \in SUBSET EvidenceKinds
      BY <2>1
    <3> HIDE DEF E
    <3> QED BY <3>1, <3>2, EditResult
  <2>3. req' \in [Requests -> RequestState]
    BY <1>1, <1>4, <2>2
  <2> QED BY <1>1, <2>3 DEF TypeOK, records, locks
<1>6. /\ req'[q].pc = pc /\ req'[q].run = req[q].run /\ req'[q].op = req[q].op
      /\ req'[q].evidence = E /\ req'[q].cites = cites
      /\ req'[q].asks = asks /\ req'[q].put = req[q].put
  BY <1>1, <1>4 DEF RequestState
<1>7. SessionOK(q)'
  <2>1. RunOK(q)' /\ CallsAhead(q)'
    BY <1>1, <1>2, <1>6, RequestsAssumption
       DEF SessionOK, RunOK, CallsAhead, Working, records
  <2>2. EvidenceInHand(q)'
    <3>1. EvidenceOf(q)' = EvidenceOf(q)
      BY <1>1 DEF EvidenceOf, records
    <3>2. E \subseteq EvidenceOf(q)' \cup {"runbook"}
      BY <3>1
    <3>3. req'[q].run = q /\ q # None
      BY <1>1, <1>6, RequestsAssumption DEF SessionOK, RunOK
    <3>4. cites \subseteq E /\ (cites # {} => pc \in {"approve", "commit"})
      BY <1>2, <1>4
    <3> HIDE DEF E
    <3> QED BY <1>6, <3>2, <3>3, <3>4 DEF EvidenceInHand
  <2>3. NothingYet(q)'
    BY <1>1, <1>2, <1>4, <1>6 DEF SessionOK, NothingYet, records
  <2> QED BY <2>1, <2>2, <2>3 DEF SessionOK
<1>8. \A p \in Requests \ {q} : req'[p] = req[p]
  BY <1>1, <1>4
<1> QED BY <1>1, <1>5, <1>7, <1>8, QuietStep

LEMMA ApproveStep ==
    ASSUME IInv, NEW q \in Requests, Approve(q)
    PROVE  IInv'
<1> USE DEF IInv
<1>1. /\ req \in [Requests -> RequestState]
      /\ req[q].pc = "approve" /\ SessionOK(q)
      /\ UNCHANGED <<incident, run, records, gate, lockR, died>>
      /\ lockI' \in {lockI, q}
  BY DEF TypeOK, Approve
<1>2. PICK seen \in {req[q].seen, "needs_approval"}, put \in {req[q].put, "needs_approval"} :
        req' = [req EXCEPT ![q].pc = "commit", ![q].seen = seen, ![q].put = put]
  <2>1. CASE req[q].seen # "needs_approval"
    BY <2>1 DEF Approve
  <2>2. CASE req[q].seen = "needs_approval"
    <3>1. req' = [req EXCEPT ![q].pc = "commit"]
      BY <2>2 DEF Approve
    <3>2. req' = [req EXCEPT ![q].pc = "commit", ![q].seen = req[q].seen,
                             ![q].put = req[q].put]
      BY <1>1, <3>1 DEF RequestState
    <3> QED BY <3>2
  <2> QED BY <2>1, <2>2
<1>3. TypeOK'
  <2>1. seen \in IncidentStatus /\ put \in IncidentStatus \cup {"none"}
    BY <1>1 DEF RequestState, IncidentStatus
  <2>2. req[q] \in RequestState
    BY <1>1
  <2>3. [req[q] EXCEPT !.pc = "commit", !.seen = seen, !.put = put] \in RequestState
    BY <2>1, <2>2 DEF RequestState
  <2>4. req' \in [Requests -> RequestState]
    BY <1>1, <1>2, <2>3
  <2> QED BY <1>1, <2>4 DEF TypeOK, records
<1>4. /\ req'[q].pc = "commit" /\ req'[q].run = req[q].run /\ req'[q].op = req[q].op
      /\ req'[q].evidence = req[q].evidence /\ req'[q].cites = req[q].cites
      /\ req'[q].asks = req[q].asks /\ req'[q].put = put
  BY <1>1, <1>2 DEF RequestState
<1>5. SessionOK(q)'
  <2>1. RunOK(q)' /\ CallsAhead(q)'
    BY <1>1, <1>4, RequestsAssumption
       DEF SessionOK, RunOK, CallsAhead, Working, records
  <2>2. EvidenceInHand(q)'
    BY <1>1, <1>4 DEF EvidenceInHand, EvidenceOf, SessionOK, records
  <2>3. NothingYet(q)'
    BY <1>1, <1>4 DEF SessionOK, NothingYet, records
  <2> QED BY <2>1, <2>2, <2>3 DEF SessionOK
<1>6. \A p \in Requests \ {q} : req'[p] = req[p]
  BY <1>1, <1>2
<1> QED BY <1>1, <1>3, <1>5, <1>6, QuietStep

(* A session that is done has nothing left to lose. *)
LEMMA DoneIsOK ==
    ASSUME NEW q \in Requests, req'[q] = Done
    PROVE  SessionOK(q)' /\ Done \in RequestState
<1>1. /\ Done.op = "none" /\ Done.pc = "done" /\ Done.pos = 1 /\ Done.run = None
      /\ Done.evidence = {} /\ Done.cites = {} /\ Done.asks = FALSE
      /\ Done.put = "none"
  BY DEF Done, Ready
<1>2. SessionOK(q)'
  BY <1>1 DEF SessionOK, RunOK, CallsAhead, EvidenceInHand, NothingYet, Working
<1>3. Done \in RequestState
  <2>1. Done = [op |-> "none", pc |-> "done", pos |-> 1, run |-> None, status |-> "none",
                seen |-> "new", put |-> "none", evidence |-> {}, cites |-> {},
                asks |-> FALSE]
    BY DEF Done, Ready
  <2>2. {} \in SUBSET EvidenceKinds /\ "new" \in IncidentStatus
    BY DEF IncidentStatus
  <2> QED BY <2>1, <2>2 DEF RequestState
<1> QED BY <1>2, <1>3

LEMMA LocksAreReleased ==
    ASSUME TypeOK, NEW q \in Requests, ReleaseLocks(q)
    PROVE  lockR' \in [Requests -> Requests \cup {None}] /\ lockI' \in Requests \cup {None}
BY DEF TypeOK, ReleaseLocks

LEMMA DieStep ==
    ASSUME IInv, NEW q \in Requests, Die(q)
    PROVE  IInv'
<1> USE DEF IInv
<1>1. /\ req \in [Requests -> RequestState] /\ req' = [req EXCEPT ![q] = Done]
      /\ UNCHANGED <<incident, run, records, gate>>
      /\ died' = died \cup {q} /\ ReleaseLocks(q)
  BY DEF TypeOK, Die
<1>2. req'[q] = Done /\ \A p \in Requests \ {q} : req'[p] = req[p]
  BY <1>1
<1>3. SessionOK(q)' /\ Done \in RequestState
  BY <1>2, DoneIsOK
<1>4. TypeOK'
  <2>1. req' \in [Requests -> RequestState] /\ died' \in SUBSET Requests
    BY <1>1, <1>3 DEF TypeOK
  <2> QED BY <1>1, <2>1, LocksAreReleased DEF TypeOK, records
<1> QED BY <1>1, <1>2, <1>3, <1>4, QuietStep

-----------------------------------------------------------------------------
(* A step that commits needs a look at its own session and hypothesis. *)
LEMMA CommittingStep ==
    ASSUME IInv, NEW q \in Requests, TypeOK', Grows, SessionOK(q)', HypothesisOK(q)',
           GateStatusIsBacked',
           \A p \in Requests \ {q} :
              Keeps(p) /\ found'[p] = found[p] /\ gate'[p] = gate[p]
    PROVE  IInv'
<1>1. ASSUME NEW p \in Requests PROVE SessionOK(p)' /\ HypothesisOK(p)'
  <2>1. CASE p = q
    BY <2>1
  <2>2. CASE p # q
    BY <2>2, SessionStays, HypothesisStays DEF IInv
  <2> QED BY <2>1, <2>2
<1> QED BY <1>1 DEF IInv

LEMMA CreateRunStep ==
    ASSUME IInv, NEW q \in Requests, CreateRun(q)
    PROVE  IInv'
<1> USE DEF IInv
<1>1. /\ req \in [Requests -> RequestState] /\ run \in [Requests -> AgentRunStatus \cup {"absent"}]
      /\ req[q].pc = "create" /\ SessionOK(q) /\ HypothesisOK(q) /\ GateStatusIsBacked
      /\ run' = [run EXCEPT ![q] = "running"]
      /\ incident' \in {incident, "collecting_evidence"}
      /\ UNCHANGED <<records, gate, locks, died>>
  BY DEF TypeOK, CreateRun
<1>2. /\ req[q].run = None /\ req[q].evidence = {} /\ req[q].cites = {} /\ req[q].op # "analyze"
      /\ run[q] = "absent" /\ req[q].pos = 1 /\ \A s \in Kinds : calls[q][s] = "none"
  BY <1>1 DEF SessionOK, RunOK, CallsAhead, EvidenceInHand
<1>3. PICK seen \in {req[q].seen, "collecting_evidence"} :
        req' = [req EXCEPT ![q].pc = "query", ![q].run = q,
                           ![q].status = "running", ![q].seen = seen]
  <2>1. CASE req[q].seen = "new"
    BY <2>1 DEF CreateRun
  <2>2. CASE req[q].seen # "new"
    <3>1. req' = [req EXCEPT ![q].pc = "query", ![q].run = q, ![q].status = "running"]
      BY <2>2 DEF CreateRun
    <3>2. req' = [req EXCEPT ![q].pc = "query", ![q].run = q,
                             ![q].status = "running", ![q].seen = req[q].seen]
      BY <1>1, <3>1 DEF RequestState
    <3> QED BY <3>2
  <2> QED BY <2>1, <2>2
<1>4. TypeOK'
  <2>1. seen \in IncidentStatus /\ req[q] \in RequestState
    BY <1>1 DEF RequestState, IncidentStatus
  <2>2. [req[q] EXCEPT !.pc = "query", !.run = q, !.status = "running", !.seen = seen]
           \in RequestState
    BY <2>1 DEF RequestState, AgentRunStatus
  <2>3. req' \in [Requests -> RequestState]
    BY <1>1, <1>3, <2>2
  <2>4. run' \in [Requests -> AgentRunStatus \cup {"absent"}]
    BY <1>1 DEF AgentRunStatus
  <2>5. incident' \in IncidentStatus
    BY <1>1 DEF TypeOK, IncidentStatus
  <2> QED BY <1>1, <2>3, <2>4, <2>5 DEF TypeOK, records, locks
<1>5. /\ req'[q].pc = "query" /\ req'[q].run = q /\ req'[q].op = req[q].op
      /\ req'[q].pos = req[q].pos
      /\ req'[q].evidence = req[q].evidence /\ req'[q].cites = req[q].cites
      /\ req'[q].asks = req[q].asks /\ req'[q].put = req[q].put
  BY <1>1, <1>3 DEF RequestState
<1>6. Grows
  BY <1>1, <1>2 DEF Grows, EvidenceOf, records, Finished
<1>7. SessionOK(q)'
  <2>1. RunOK(q)'
    <3>1. run'[q] = "running" /\ q # None
      BY <1>1, RequestsAssumption
    <3> QED BY <1>2, <1>5, <3>1 DEF RunOK, Working
  <2>2. CallsAhead(q)'
    BY <1>1, <1>2, <1>5, SourceFacts DEF CallsAhead, records
  <2>3. EvidenceInHand(q)'
    BY <1>2, <1>5 DEF EvidenceInHand
  <2>4. NothingYet(q)'
    BY <1>1, <1>5 DEF SessionOK, NothingYet, records
  <2> QED BY <2>1, <2>2, <2>3, <2>4 DEF SessionOK
<1>8. HypothesisOK(q)'
  BY <1>1, <1>6, HypothesisStays DEF records
<1>9. GateStatusIsBacked'
  BY <1>1 DEF GateStatusIsBacked
<1>10. \A p \in Requests \ {q} :
          Keeps(p) /\ found'[p] = found[p] /\ gate'[p] = gate[p]
  BY <1>1, <1>3 DEF Keeps, records
<1> QED BY <1>4, <1>6, <1>7, <1>8, <1>9, <1>10, CommittingStep

LEMMA NextPosition ==
    ASSUME NEW q \in Requests, req \in [Requests -> RequestState], QuerySource(q)
    PROVE  \E pc \in {"query", "end"}, pos \in 1..3 :
              /\ req' = [req EXCEPT ![q].pc = pc, ![q].pos = pos]
              /\ pc = "query" => pos = req[q].pos + 1
<1> DEFINE n == req[q].pos
<1>1. n \in 1..3 /\ req[q].pc = "query"
  BY DEF RequestState, QuerySource
<1>2. CASE n < 3
  <2>1. req' = [req EXCEPT ![q].pos = n + 1] /\ n + 1 \in 1..3
    BY <1>1, <1>2 DEF QuerySource
  <2>2. req' = [req EXCEPT ![q].pc = "query", ![q].pos = n + 1]
    BY <1>1, <2>1 DEF RequestState
  <2> QED BY <2>1, <2>2
<1>3. CASE ~(n < 3)
  <2>1. req' = [req EXCEPT ![q].pc = "end"]
    BY <1>3 DEF QuerySource
  <2>2. req' = [req EXCEPT ![q].pc = "end", ![q].pos = n]
    BY <2>1 DEF RequestState
  <2> QED BY <1>1, <2>2
<1> QED BY <1>2, <1>3

LEMMA QuerySourceStep ==
    ASSUME IInv, NEW q \in Requests, QuerySource(q)
    PROVE  IInv'
<1> USE DEF IInv
<1> DEFINE n == req[q].pos
<1>1. /\ req \in [Requests -> RequestState] /\ run \in [Requests -> AgentRunStatus \cup {"absent"}]
      /\ calls \in [Requests -> [Kinds -> {"none", "succeeded", "failed"}]]
      /\ req[q].pc = "query" /\ SessionOK(q) /\ HypothesisOK(q) /\ GateStatusIsBacked
      /\ UNCHANGED <<incident, run, runbooks, found, gate, locks, died>>
      /\ n \in 1..3
  BY DEF TypeOK, QuerySource, RequestState
<1>2. PICK outcome \in {"succeeded", "failed"} :
        calls' = [calls EXCEPT ![q][Sources[n]] = outcome]
  BY DEF QuerySource
<1>3. PICK pc \in {"query", "end"}, pos \in 1..3 :
        /\ req' = [req EXCEPT ![q].pc = pc, ![q].pos = pos]
        /\ pc = "query" => pos = n + 1
  BY <1>1, NextPosition
<1>4. Sources[n] \in Kinds /\ calls[q][Sources[n]] = "none"
  BY <1>1, SourceFacts DEF SessionOK, CallsAhead
<1>5. TypeOK'
  <2>1. [req[q] EXCEPT !.pc = pc, !.pos = pos] \in RequestState
    <3>1. req[q] \in RequestState
      BY <1>1
    <3> QED BY <3>1, EditPosition
  <2>2. req' \in [Requests -> RequestState]
    BY <1>1, <1>3, <2>1
  <2>3. calls' \in [Requests -> [Kinds -> {"none", "succeeded", "failed"}]]
    BY <1>1, <1>2, <1>4
  <2> QED BY <1>1, <2>2, <2>3 DEF TypeOK, locks
<1>6. /\ req'[q].pc = pc /\ req'[q].run = req[q].run /\ req'[q].op = req[q].op
      /\ req'[q].pos = pos
      /\ req'[q].evidence = req[q].evidence /\ req'[q].cites = req[q].cites
      /\ req'[q].asks = req[q].asks /\ req'[q].put = req[q].put
  BY <1>1, <1>3 DEF RequestState
<1>7. Grows
  <2>1. \A r \in Requests, s \in Kinds :
           calls[r][s] = "succeeded" => calls'[r][s] = "succeeded"
    BY <1>1, <1>2, <1>4
  <2> QED BY <1>1, <2>1 DEF Grows, EvidenceOf
<1>8. SessionOK(q)'
  <2>1. RunOK(q)'
    <3>1. /\ req[q].run = q /\ q # None /\ run[q] # "absent" /\ req[q].op # "analyze"
          /\ run' = run
      BY <1>1, RequestsAssumption DEF SessionOK, RunOK
    <3> QED BY <1>6, <3>1 DEF RunOK, Working
  <2>2. CallsAhead(q)'
    <3>1. ASSUME pc = "query", NEW m \in 1..3, m >= pos
          PROVE  calls'[q][Sources[m]] = "none"
      <4>1. m >= n /\ m # n
        BY <1>1, <1>3, <3>1
      <4>2. Sources[m] # Sources[n] /\ calls[q][Sources[m]] = "none" /\ Sources[m] \in Kinds
        BY <1>1, <4>1, SourceFacts DEF SessionOK, CallsAhead
      <4> QED BY <1>1, <1>2, <1>4, <4>2
    <3> QED BY <1>6, <3>1 DEF CallsAhead
  <2>3. EvidenceInHand(q)'
    <3>1. req[q].run = q /\ q # None
      BY <1>1, RequestsAssumption DEF SessionOK, RunOK
    <3>2. EvidenceOf(q) \subseteq EvidenceOf(q)'
      BY <1>7 DEF Grows
    <3>3. /\ req[q].evidence \subseteq EvidenceOf(q) \cup {"runbook"}
          /\ req[q].cites = {}
      BY <1>1, <3>1 DEF SessionOK, RunOK, EvidenceInHand
    <3> QED BY <1>6, <3>1, <3>2, <3>3 DEF EvidenceInHand
  <2>4. NothingYet(q)'
    BY <1>1, <1>6 DEF SessionOK, NothingYet
  <2> QED BY <2>1, <2>2, <2>3, <2>4 DEF SessionOK
<1>9. HypothesisOK(q)'
  BY <1>1, <1>7, HypothesisStays
<1>10. GateStatusIsBacked'
  BY <1>1 DEF GateStatusIsBacked
<1>11. \A p \in Requests \ {q} :
          Keeps(p) /\ found'[p] = found[p] /\ gate'[p] = gate[p]
  BY <1>1, <1>2, <1>3 DEF Keeps
<1> QED BY <1>5, <1>7, <1>8, <1>9, <1>10, <1>11, CommittingStep

LEMMA EndCollectionStep ==
    ASSUME IInv, NEW q \in Requests, EndCollection(q)
    PROVE  IInv'
<1> USE DEF IInv
<1> DEFINE st == CollectionStatus(q)
<1>1. /\ req \in [Requests -> RequestState] /\ run \in [Requests -> AgentRunStatus \cup {"absent"}]
      /\ req[q].pc = "end" /\ SessionOK(q) /\ HypothesisOK(q) /\ GateStatusIsBacked
      /\ run' = [run EXCEPT ![q] = st]
      /\ UNCHANGED <<incident, records, gate, locks, died>>
  BY DEF TypeOK, EndCollection
<1>2. st \in Finished /\ Finished \subseteq AgentRunStatus /\ "absent" \notin Finished
  BY DEF CollectionStatus, Finished, AgentRunStatus
<1>3. /\ req[q].run = q /\ q # None /\ run[q] # "absent" /\ req[q].op # "analyze"
      /\ req[q].cites = {}
  BY <1>1, RequestsAssumption DEF SessionOK, RunOK, EvidenceInHand
<1>4. Grows
  BY <1>1, <1>2 DEF Grows, EvidenceOf, records
<1>5. req' \in [Requests -> RequestState] /\ SessionOK(q)'
      /\ \A p \in Requests \ {q} : req'[p] = req[p]
  <2>1. CASE req[q].op = "collect"
    <3>1. req' = [req EXCEPT ![q] = Done]
      BY <2>1 DEF EndCollection
    <3>2. req'[q] = Done /\ \A p \in Requests \ {q} : req'[p] = req[p]
      BY <1>1, <3>1
    <3>3. SessionOK(q)' /\ Done \in RequestState
      BY <3>2, DoneIsOK
    <3> QED BY <1>1, <3>1, <3>2, <3>3
  <2>2. CASE req[q].op # "collect"
    <3>1. req' = [req EXCEPT ![q].pc = "lockincident", ![q].status = st]
      BY <2>2 DEF EndCollection
    <3>2. [req[q] EXCEPT !.pc = "lockincident", !.status = st] \in RequestState
      <4>1. req[q] \in RequestState /\ st \in AgentRunStatus
        BY <1>1, <1>2 DEF AgentRunStatus
      <4> QED BY <4>1, EditStatus
    <3>3. /\ req'[q].pc = "lockincident" /\ req'[q].run = req[q].run
          /\ req'[q].op = req[q].op /\ req'[q].evidence = req[q].evidence
          /\ req'[q].cites = req[q].cites
          /\ req'[q].asks = req[q].asks /\ req'[q].put = req[q].put
      BY <1>1, <3>1 DEF RequestState
    <3>4. run'[q] # "absent" /\ EvidenceOf(q)' = EvidenceOf(q)
      BY <1>1, <1>2 DEF EvidenceOf, records
    <3>5. RunOK(q)' /\ CallsAhead(q)'
      BY <1>3, <3>3, <3>4 DEF RunOK, CallsAhead, Working
    <3>6. EvidenceInHand(q)'
      BY <1>1, <1>3, <3>3, <3>4 DEF SessionOK, EvidenceInHand
    <3>7. NothingYet(q)'
      BY <1>1, <3>3 DEF SessionOK, NothingYet, records
    <3>8. SessionOK(q)'
      BY <3>5, <3>6, <3>7 DEF SessionOK
    <3> QED BY <1>1, <3>1, <3>2, <3>8
  <2> QED BY <2>1, <2>2
<1>6. TypeOK'
  <2>1. run' \in [Requests -> AgentRunStatus \cup {"absent"}]
    BY <1>1, <1>2
  <2> QED BY <1>1, <1>5, <2>1 DEF TypeOK, records, locks
<1>7. HypothesisOK(q)'
  BY <1>1, <1>4, HypothesisStays DEF records
<1>8. GateStatusIsBacked'
  BY <1>1 DEF GateStatusIsBacked
<1>9. \A p \in Requests \ {q} :
          Keeps(p) /\ found'[p] = found[p] /\ gate'[p] = gate[p]
  BY <1>1, <1>5 DEF Keeps, records
<1> QED BY <1>4, <1>5, <1>6, <1>7, <1>8, <1>9, CommittingStep

(* A commit makes what the session had in hand evidence of the run, ends   *)
(* the run, and moves the incident to NEEDS_APPROVAL only with an approval.*)
LEMMA CommitStep ==
    ASSUME IInv, NEW q \in Requests, Commit(q)
    PROVE  IInv'
<1> USE DEF IInv
<1>0. PICK r \in Requests \cup {None} : r = req[q].run
  BY DEF TypeOK, RequestState
<1>1. /\ req \in [Requests -> RequestState] /\ run \in [Requests -> AgentRunStatus \cup {"absent"}]
      /\ found \in [Requests -> [run : Requests \cup {None}, cites : SUBSET EvidenceKinds]]
      /\ gate \in [Requests -> Stage]
      /\ req[q].pc = "commit" /\ SessionOK(q) /\ HypothesisOK(q) /\ GateStatusIsBacked
      /\ req' = [req EXCEPT ![q] = Done]
      /\ ReleaseLocks(q) /\ UNCHANGED <<calls, died>>
  BY DEF TypeOK, Commit
<1>2. /\ r \in Requests /\ run[r] # "absent"
      /\ req[q].cites \in SUBSET EvidenceKinds
      /\ req[q].cites \subseteq req[q].evidence
      /\ req[q].evidence \subseteq EvidenceOf(r) \cup {"runbook"}
      /\ found[q].run = None /\ gate[q] = "proposed"
      /\ req[q].asks => req[q].cites # {}
      /\ req[q].put \in {"none", "analyzing", "needs_approval"}
      /\ req[q].put = "needs_approval" => req[q].asks
  <2>1. req[q] \in RequestState
    BY <1>1
  <2> QED BY <1>0, <1>1, <2>1 DEF SessionOK, RunOK, EvidenceInHand, NothingYet, Working, RequestState
<1>3. /\ run' = IF WritesRun(q) THEN [run EXCEPT ![r] = FinalStatus(q)] ELSE run
      /\ incident' = IF req[q].put # "none" THEN req[q].put ELSE incident
      /\ runbooks' = runbooks \cup (IF "runbook" \in req[q].evidence THEN {r} ELSE {})
      /\ found' = IF req[q].cites # {}
                  THEN [found EXCEPT ![q] = [run |-> r, cites |-> req[q].cites]]
                  ELSE found
      /\ gate' = IF req[q].asks THEN [gate EXCEPT ![q] = "pending"] ELSE gate
  BY <1>0 DEF Commit
<1>4. req'[q] = Done /\ \A p \in Requests \ {q} : req'[p] = req[p]
  BY <1>1
<1>5. SessionOK(q)' /\ Done \in RequestState
  BY <1>4, DoneIsOK
<1>6. FinalStatus(q) \in Finished /\ Finished \subseteq AgentRunStatus /\ "absent" \notin Finished
  BY DEF FinalStatus, Finished, AgentRunStatus
<1>7. TypeOK'
  <2>1. run' \in [Requests -> AgentRunStatus \cup {"absent"}]
    BY <1>1, <1>2, <1>3, <1>6
  <2>2. incident' \in IncidentStatus
    BY <1>2, <1>3 DEF TypeOK, IncidentStatus
  <2>3. runbooks' \in SUBSET Requests
    BY <1>2, <1>3 DEF TypeOK
  <2>4. found' \in [Requests -> [run : Requests \cup {None}, cites : SUBSET EvidenceKinds]]
    BY <1>1, <1>2, <1>3
  <2>5. gate' \in [Requests -> Stage]
    BY <1>1, <1>3 DEF Stage
  <2>6. req' \in [Requests -> RequestState]
    BY <1>1, <1>5
  <2> QED BY <1>1, <2>1, <2>2, <2>3, <2>4, <2>5, <2>6, LocksAreReleased DEF TypeOK
<1>8. Grows
  <2>1. runbooks \subseteq runbooks'
    BY <1>3
  <2>2. \A p \in Requests : EvidenceOf(p) \subseteq EvidenceOf(p)'
    BY <1>1, <2>1 DEF EvidenceOf
  <2> QED BY <1>1, <1>2, <1>3, <1>6, <2>2 DEF Grows
<1>9. HypothesisOK(q)'
  <2>1. CASE req[q].cites = {}
    BY <1>2, <1>3, <2>1 DEF HypothesisOK
  <2>2. CASE req[q].cites # {}
    <3>1. found'[q] = [run |-> r, cites |-> req[q].cites]
      BY <1>1, <1>3, <2>2
    <3>2. run'[r] \in Finished
      BY <1>1, <1>2, <1>3, <1>6, <2>2 DEF WritesRun
    <3>3. EvidenceOf(r) \subseteq EvidenceOf(r)'
      BY <1>2, <1>8 DEF Grows
    <3>4. "runbook" \in req[q].evidence => "runbook" \in EvidenceOf(r)'
      BY <1>3 DEF EvidenceOf
    <3>5. req[q].cites \subseteq EvidenceOf(r)'
      BY <1>2, <3>3, <3>4
    <3> QED BY <1>2, <2>2, <3>1, <3>2, <3>5, RequestsAssumption DEF HypothesisOK
  <2> QED BY <2>1, <2>2
<1>10. GateStatusIsBacked'
  <2>1. CASE req[q].put = "needs_approval"
    <3>1. gate'[q] = "pending" /\ incident' = "needs_approval"
      BY <1>1, <1>2, <1>3, <2>1
    <3> QED BY <3>1 DEF GateStatusIsBacked
  <2>2. CASE req[q].put = "analyzing"
    BY <1>3, <2>2 DEF GateStatusIsBacked
  <2>3. CASE req[q].put = "none"
    <3>1. incident' = incident /\ \A h \in Requests : gate[h] # "proposed" => gate'[h] = gate[h]
      BY <1>1, <1>2, <1>3, <2>3
    <3> QED BY <1>1, <3>1 DEF GateStatusIsBacked
  <2> QED BY <1>2, <2>1, <2>2, <2>3
<1>11. \A p \in Requests \ {q} :
          Keeps(p) /\ found'[p] = found[p] /\ gate'[p] = gate[p]
  <2>1. \A p \in Requests : run[p] = "absent" => run'[p] = "absent"
    BY <1>1, <1>2, <1>3
  <2> QED BY <1>1, <1>3, <1>4, <2>1 DEF Keeps
<1> QED BY <1>5, <1>7, <1>8, <1>9, <1>10, <1>11, CommittingStep

LEMMA MoveStep ==
    ASSUME IInv, NEW h \in Requests, NEW from, NEW to \in Stage \ {"proposed"},
           NEW st \in IncidentStatus,
           Move(h, from, to, st),
           \/ st = "needs_approval" /\ to = "pending"
           \/ st \in {"approved", "rejected"} /\ to = st
           \/ st = "resolved" /\ to = "executed"
    PROVE  IInv'
<1> USE DEF IInv
<1>1. /\ gate \in [Requests -> Stage]
      /\ found[h].run # None /\ gate' = [gate EXCEPT ![h] = to] /\ incident' = st
      /\ UNCHANGED <<run, records, locks, req, died>>
  BY DEF TypeOK, Move
<1>2. TypeOK'
  BY <1>1 DEF TypeOK, records, locks
<1>3. Grows
  BY <1>1 DEF Grows, EvidenceOf, records
<1>4. \A p \in Requests : Keeps(p)
  BY <1>1 DEF Keeps, records, SessionOK, NothingYet
<1>5. ASSUME NEW p \in Requests PROVE SessionOK(p)' /\ HypothesisOK(p)'
  <2>1. found'[p] = found[p] /\ (gate'[p] # gate[p] => found[p].run # None)
    BY <1>1 DEF records
  <2> QED BY <1>3, <1>4, <2>1, SessionStays, HypothesisStays
<1>6. GateStatusIsBacked'
  <2>1. gate'[h] = to
    BY <1>1
  <2> QED BY <1>1, <2>1 DEF GateStatusIsBacked
<1> QED BY <1>2, <1>5, <1>6

LEMMA InitEstablishesIInv == Init => IInv
<1> SUFFICES ASSUME Init PROVE IInv
  OBVIOUS
<1>1. Ready = [op |-> "none", pc |-> "ready", pos |-> 1, run |-> None, status |-> "none",
               seen |-> "new", put |-> "none", evidence |-> {}, cites |-> {},
               asks |-> FALSE]
  BY DEF Ready
<1>2. TypeOK
  <2>1. Ready \in RequestState
    <3>1. {} \in SUBSET EvidenceKinds /\ "new" \in IncidentStatus
      BY DEF IncidentStatus
    <3> QED BY <1>1, <3>1 DEF RequestState
  <2>2. NoHypothesis \in [run : Requests \cup {None}, cites : SUBSET EvidenceKinds]
    BY DEF NoHypothesis
  <2> QED BY <2>1, <2>2 DEF Init, TypeOK, IncidentStatus, Stage
<1>3. ASSUME NEW q \in Requests PROVE SessionOK(q) /\ HypothesisOK(q)
  <2>1. /\ req[q] = Ready /\ run[q] = "absent" /\ found[q].run = None /\ gate[q] = "proposed"
        /\ \A s \in Kinds : calls[q][s] = "none"
    BY DEF Init, NoHypothesis
  <2>2. SessionOK(q)
    BY <1>1, <2>1 DEF SessionOK, RunOK, CallsAhead, EvidenceInHand, NothingYet, Working
  <2> QED BY <2>1, <2>2 DEF HypothesisOK
<1>4. GateStatusIsBacked
  BY DEF Init, GateStatusIsBacked
<1> QED BY <1>2, <1>3, <1>4 DEF IInv

LEMMA NextKeepsIInv == IInv /\ [Next]_vars => IInv'
<1> SUFFICES ASSUME IInv, [Next]_vars PROVE IInv'
  OBVIOUS
<1>1. ASSUME NEW q \in Requests, Begin(q) PROVE IInv'
  BY <1>1, BeginStep
<1>2. ASSUME NEW q \in Requests, LockStep(q) PROVE IInv'
  BY <1>2, CreateRunStep, EndCollectionStep, LockRunStep, LockIncidentStep, ApproveStep
     DEF LockStep
<1>3. ASSUME NEW q \in Requests, FreeStep(q) PROVE IInv'
  BY <1>3, QuerySourceStep, PickRunStep, ReadEvidenceStep, RunGraphStep, CommitStep
     DEF FreeStep
<1>4. ASSUME NEW q \in Requests, Die(q) PROVE IInv'
  BY <1>4, DieStep
<1>5. ASSUME NEW h \in Requests, RequestApproval(h) \/ Decide(h) \/ Execute(h) PROVE IInv'
  <2>1. {"pending", "approved", "rejected", "executed"} \subseteq Stage \ {"proposed"}
    BY DEF Stage
  <2>2. {"needs_approval", "approved", "rejected", "resolved"} \subseteq IncidentStatus
    BY DEF IncidentStatus
  <2>3. CASE RequestApproval(h)
    BY <2>1, <2>2, <2>3, MoveStep DEF RequestApproval
  <2>4. CASE Decide(h)
    BY <2>1, <2>2, <2>4, MoveStep DEF Decide
  <2>5. CASE Execute(h)
    BY <2>1, <2>2, <2>5, MoveStep DEF Execute
  <2> QED BY <1>5, <2>3, <2>4, <2>5
<1>6. CASE UNCHANGED vars
  <2>1. /\ UNCHANGED <<incident, run, calls, runbooks, found, gate, req>>
        /\ UNCHANGED <<lockR, lockI, died>>
    BY <1>6 DEF vars, records, locks
  <2>2. TypeOK'
    BY <2>1 DEF IInv, TypeOK
  <2>3. Grows /\ \A p \in Requests : Keeps(p)
    BY <2>1 DEF Grows, Keeps, EvidenceOf
  <2>4. \A p \in Requests : SessionOK(p)' /\ HypothesisOK(p)'
    BY <2>1, <2>3, SessionStays, HypothesisStays DEF IInv
  <2>5. GateStatusIsBacked'
    BY <2>1 DEF IInv, GateStatusIsBacked
  <2> QED BY <2>2, <2>4, <2>5 DEF IInv
<1> QED BY <1>1, <1>2, <1>3, <1>4, <1>5, <1>6 DEF Next

(* The inductive invariant holds however many requests run at once. *)
THEOREM IInvHolds == Spec => []IInv
<1>1. Init => IInv
  BY InitEstablishesIInv
<1>2. IInv /\ [Next]_vars => IInv'
  BY NextKeepsIInv
<1> QED BY <1>1, <1>2, PTL DEF Spec

-----------------------------------------------------------------------------
(* The state of the database and of every session stays within its types.  *)
THEOREM InvestigationTypes == Spec => []TypeOK
<1>1. IInv => TypeOK
  BY DEF IInv
<1> QED BY <1>1, IInvHolds, PTL

(* Every recorded hypothesis cites something, and only evidence of its own *)
(* run, whatever the model answers and whoever else writes to that run.    *)
THEOREM HypothesesAreGrounded == Spec => []HypothesisIsGrounded
<1>1. IInv => HypothesisIsGrounded
  BY DEF IInv, HypothesisOK, HypothesisIsGrounded
<1> QED BY <1>1, IInvHolds, PTL

(* What a human is asked to approve has its hypothesis on record, and the  *)
(* run it comes from has finished.                                         *)
THEOREM ApprovalsAreBacked == Spec => []ApprovalIsBacked
<1>1. IInv => ApprovalIsBacked
  BY DEF IInv, HypothesisOK, ApprovalIsBacked
<1> QED BY <1>1, IInvHolds, PTL

(* The incident shows a status of the gate only while an approval of it is *)
(* in that state, although sessions write a status they computed earlier.  *)
THEOREM GateStatusesAreBacked == Spec => []GateStatusIsBacked
<1>1. IInv => GateStatusIsBacked
  BY DEF IInv
<1> QED BY <1>1, IInvHolds, PTL

(* A run that has ended is never seen running again: only its creation and *)
(* the end of a transaction write a status, and the latter ends the run.   *)
THEOREM RunsStayFinishedAlways == Spec => RunsStayFinished
<1> DEFINE Stay == \A r \in Requests : run[r] \in Finished => run'[r] \in Finished
<1>1. ASSUME IInv, Next PROVE Stay
  <2>1. TypeOK /\ \A q \in Requests : SessionOK(q)
    BY <1>1 DEF IInv
  <2>2. ASSUME NEW q \in Requests, CreateRun(q) PROVE Stay
    <3>1. run[q] = "absent" /\ run' = [run EXCEPT ![q] = "running"]
      BY <2>1, <2>2 DEF CreateRun, SessionOK, RunOK
    <3> QED BY <2>1, <3>1 DEF TypeOK, Finished
  <2>3. ASSUME NEW q \in Requests, EndCollection(q) PROVE Stay
    <3>1. CollectionStatus(q) \in Finished /\ run' = [run EXCEPT ![q] = CollectionStatus(q)]
      BY <2>3 DEF EndCollection, CollectionStatus, Finished
    <3> QED BY <2>1, <3>1 DEF TypeOK
  <2>4. ASSUME NEW q \in Requests, Commit(q) PROVE Stay
    <3>1. PICK r \in Requests \cup {None} : r = req[q].run
      BY <2>1 DEF TypeOK, RequestState
    <3>2. FinalStatus(q) \in Finished
      BY DEF FinalStatus, Finished
    <3>3. run' = run \/ run' = [run EXCEPT ![r] = FinalStatus(q)]
      BY <2>4, <3>1 DEF Commit
    <3> QED BY <2>1, <3>2, <3>3 DEF TypeOK
  <2>5. CASE UNCHANGED run
    BY <2>5
  <2> QED
    BY <1>1, <2>2, <2>3, <2>4, <2>5
       DEF Next, LockStep, FreeStep, Begin, LockRun, LockIncident, Approve, QuerySource,
           PickRun, ReadEvidence, RunGraph, Die, RequestApproval, Decide, Execute, Move
<1>2. ASSUME UNCHANGED vars PROVE Stay
  BY <1>2 DEF vars
<1>3. IInv /\ [Next]_vars => [Stay]_vars
  BY <1>1, <1>2
<1> QED BY <1>3, IInvHolds, PTL DEF Spec, RunsStayFinished

-----------------------------------------------------------------------------
(* A session holds the incident from its flush on, and a run once it has   *)
(* the incident, if it locks both at the flush; all ends with the          *)
(* transaction.                                                            *)
LocksHeld(q) ==
    /\ lockI = q => req[q].pc \in {"lockrun", "graph", "approve", "commit"}
    /\ \A r \in Requests : lockR[r] = q =>
          req[q].pc \in {"graph", "approve", "commit"} /\ req[q].run = r

LockInv == IInv /\ \A q \in Requests : LocksHeld(q)

LEMMA OthersHeld ==
    ASSUME LockInv, NEW q \in Requests, NEW p \in Requests \ {q}, req'[p] = req[p],
           lockI' = p => lockI = p,
           \A r \in Requests : lockR'[r] = p => lockR[r] = p
    PROVE  LocksHeld(p)'
BY DEF LockInv, LocksHeld

(* How a session of a graph goes on, whatever the model answers. *)
LEMMA GraphStep ==
    ASSUME TypeOK, NEW q \in Requests, RunGraph(q)
    PROVE  /\ req'[q].pc \in {"approve", "commit"} /\ req'[q].run = req[q].run
           /\ \A p \in Requests \ {q} : req'[p] = req[p]
<1>1. req \in [Requests -> RequestState]
  BY DEF TypeOK
<1>2. PICK books \in {{}, {"runbook"}}, cites \in Answers :
        LET E == EvidenceOf(q) \cup books IN
        \/ /\ Grounded(cites, E)
           /\ \E asks \in BOOLEAN :
                 req' = [req EXCEPT ![q].evidence = E, ![q].cites = cites,
                                    ![q].asks = asks,
                                    ![q].pc = IF asks THEN "approve" ELSE "commit"]
        \/ req' = [req EXCEPT ![q].evidence = E, ![q].pc = "commit"]
  BY DEF RunGraph
<1>3. CASE \E E : req' = [req EXCEPT ![q].evidence = E, ![q].pc = "commit"]
  BY <1>1, <1>3 DEF RequestState
<1>4. ASSUME NEW E, NEW asks \in BOOLEAN,
             req' = [req EXCEPT ![q].evidence = E, ![q].cites = cites, ![q].asks = asks,
                                ![q].pc = IF asks THEN "approve" ELSE "commit"]
      PROVE  /\ req'[q].pc \in {"approve", "commit"} /\ req'[q].run = req[q].run
             /\ \A p \in Requests \ {q} : req'[p] = req[p]
  BY <1>1, <1>4 DEF RequestState
<1> QED BY <1>2, <1>3, <1>4

LEMMA LocksHeldNext ==
    ASSUME LockInv, [Next]_vars
    PROVE  \A p \in Requests : LocksHeld(p)'
<1>a. /\ TypeOK /\ \A q \in Requests : LocksHeld(q) /\ RunOK(q)
      /\ req \in [Requests -> RequestState]
      /\ lockR \in [Requests -> Requests \cup {None}]
  BY DEF LockInv, IInv, SessionOK, TypeOK
<1>1. ASSUME NEW q \in Requests, UNCHANGED locks, \A p \in Requests \ {q} : req'[p] = req[p],
             \/ req[q].pc \notin {"lockrun", "graph", "approve", "commit"}
             \/ /\ req[q].pc \in {"graph", "approve"} /\ req'[q].run = req[q].run
                /\ req'[q].pc \in {"approve", "commit"}
      PROVE  \A p \in Requests : LocksHeld(p)'
  <2>1. UNCHANGED <<lockR, lockI>>
    BY <1>1 DEF locks
  <2>2. ASSUME NEW p \in Requests \ {q} PROVE LocksHeld(p)'
    BY <1>1, <2>1, OthersHeld
  <2>3. LocksHeld(q)'
    BY <1>1, <1>a, <2>1 DEF LocksHeld
  <2> QED BY <2>2, <2>3
<1>2. ASSUME NEW q \in Requests,
             Begin(q) \/ CreateRun(q) \/ QuerySource(q) \/ EndCollection(q) \/ PickRun(q)
                \/ ReadEvidence(q)
      PROVE  \A p \in Requests : LocksHeld(p)'
  <2>1. /\ UNCHANGED locks
        /\ req[q].pc \in {"ready", "create", "query", "end", "pick", "read"}
    BY <1>2, Zenon DEF Begin, CreateRun, QuerySource, EndCollection, PickRun, ReadEvidence, locks
  <2>2. \A p \in Requests \ {q} : req'[p] = req[p]
    BY <1>2, <1>a DEF Begin, CreateRun, QuerySource, EndCollection, PickRun, ReadEvidence
  <2> QED BY <1>1, <2>1, <2>2
<1>3. ASSUME NEW q \in Requests, RunGraph(q) PROVE \A p \in Requests : LocksHeld(p)'
  <2>1. UNCHANGED locks /\ req[q].pc = "graph"
    BY <1>3, Zenon DEF RunGraph
  <2> QED BY <1>1, <1>3, <1>a, <2>1, GraphStep
<1>4. ASSUME NEW q \in Requests, LockIncident(q) PROVE \A p \in Requests : LocksHeld(p)'
  <2>1. /\ req[q].pc = "lockincident" /\ req'[q].pc = "lockrun"
        /\ UNCHANGED lockR /\ lockI' \in {lockI, q}
        /\ \A p \in Requests \ {q} : req'[p] = req[p]
    BY <1>4, <1>a DEF LockIncident, RequestState
  <2>2. ASSUME NEW p \in Requests \ {q} PROVE LocksHeld(p)'
    BY <2>1, OthersHeld
  <2>3. LocksHeld(q)'
    BY <1>a, <2>1 DEF LocksHeld
  <2> QED BY <2>2, <2>3
<1>5. ASSUME NEW q \in Requests, LockRun(q) PROVE \A p \in Requests : LocksHeld(p)'
  <2>1. /\ req[q].pc = "lockrun" /\ req'[q].pc \in {"graph", "commit"}
        /\ req'[q].run = req[q].run /\ UNCHANGED lockI
        /\ \A p \in Requests \ {q} : req'[p] = req[p]
    BY <1>5, <1>a DEF LockRun, RequestState
  <2>2. \A r \in Requests : lockR'[r] = IF r = req[q].run THEN q ELSE lockR[r]
    BY <1>5, <1>a DEF LockRun
  <2>3. ASSUME NEW p \in Requests \ {q} PROVE LocksHeld(p)'
    BY <2>1, <2>2, OthersHeld
  <2>4. LocksHeld(q)'
    BY <1>a, <2>1, <2>2 DEF LocksHeld
  <2> QED BY <2>3, <2>4
<1>6. ASSUME NEW q \in Requests, Approve(q) PROVE \A p \in Requests : LocksHeld(p)'
  <2>1. /\ req[q].pc = "approve" /\ req'[q].pc = "commit" /\ req'[q].run = req[q].run
        /\ UNCHANGED lockR /\ lockI' \in {lockI, q}
        /\ \A p \in Requests \ {q} : req'[p] = req[p]
    BY <1>6, <1>a DEF Approve, RequestState
  <2>2. ASSUME NEW p \in Requests \ {q} PROVE LocksHeld(p)'
    BY <2>1, OthersHeld
  <2>3. LocksHeld(q)'
    BY <1>a, <2>1 DEF LocksHeld
  <2> QED BY <2>2, <2>3
<1>7. ASSUME NEW q \in Requests, Commit(q) \/ Die(q) PROVE \A p \in Requests : LocksHeld(p)'
  <2>1. ReleaseLocks(q) /\ \A p \in Requests \ {q} : req'[p] = req[p]
    BY <1>7, <1>a DEF Commit, Die
  <2>2. /\ \A r \in Requests : lockR'[r] = IF lockR[r] = q THEN None ELSE lockR[r]
        /\ lockI' = IF lockI = q THEN None ELSE lockI
    BY <2>1 DEF ReleaseLocks
  <2>3. ASSUME NEW p \in Requests \ {q} PROVE LocksHeld(p)'
    BY <2>1, <2>2, OthersHeld, RequestsAssumption
  <2>4. LocksHeld(q)'
    BY <2>2, RequestsAssumption DEF LocksHeld
  <2> QED BY <2>3, <2>4
<1>8. CASE UNCHANGED <<lockR, lockI, req>>
  BY <1>8, <1>a DEF LocksHeld
<1>9. (\E h \in Requests : RequestApproval(h) \/ Decide(h) \/ Execute(h)) \/ UNCHANGED vars
         => UNCHANGED <<lockR, lockI, req>>
  BY DEF RequestApproval, Decide, Execute, Move, vars, locks
<1> QED
  BY <1>2, <1>3, <1>4, <1>5, <1>6, <1>7, <1>8, <1>9 DEF Next, LockStep, FreeStep

(* Who is waited for holds the row; only a flush that has the incident and *)
(* an approval that has a run may wait themselves.                         *)
LEMMA WaitsForHolder ==
    ASSUME LockInv, NEW q \in Requests, NEW p \in Requests, WaitsFor(q, p)
    PROVE  \/ /\ req[q].pc \in {"create", "lockincident", "approve"} /\ lockI = p
              /\ req[p].pc \in {"lockrun", "graph", "approve", "commit"}
           \/ /\ req[q].pc \in {"end", "lockrun"}
              /\ req[p].pc \in {"graph", "approve", "commit"}
<1>1. req[q].pc = "lockrun" => req[q].run \in Requests
  BY RequestsAssumption DEF LockInv, IInv, TypeOK, RequestState, SessionOK, RunOK, Working
<1> QED BY <1>1 DEF LockInv, LocksHeld, WaitsFor

LEMMA NoLongCircle == LockInv => NoStandstill
<1> SUFFICES ASSUME LockInv, NEW S \in SUBSET InFlight, S # {},
                    \A q \in S : /\ \E p \in Requests : WaitsFor(q, p)
                                 /\ \A p \in InFlight \ S : ~WaitsFor(q, p)
             PROVE  \E q \in S : \E p \in S \ {q} : WaitsFor(q, p) /\ WaitsFor(p, q)
  BY DEF NoStandstill
<1>0. S \subseteq Requests
  BY DEF InFlight
<1>1. \A q \in S : \E p \in S : WaitsFor(q, p)
  <2> SUFFICES ASSUME NEW q \in S, NEW p \in Requests, WaitsFor(q, p)
               PROVE  p \in InFlight
    OBVIOUS
  <2> QED BY <1>0, WaitsForHolder DEF InFlight
<1>2. \E p \in S : lockI = p
  <2>1. PICK q \in S, p \in S : WaitsFor(q, p)
    BY <1>1
  <2>2. PICK x \in S : WaitsFor(p, x)
    BY <1>1
  <2> QED BY <1>0, <2>1, <2>2, WaitsForHolder
<1>3. PICK p \in S : lockI = p
  BY <1>2
<1>4. PICK x \in S : WaitsFor(p, x)
  BY <1>1
<1>5. req[p].pc = "lockrun"
  <2>1. req[p].pc \in {"lockrun", "graph", "approve", "commit"}
    BY <1>0, <1>3 DEF LockInv, LocksHeld
  <2> QED BY <1>3, <1>4, <2>1 DEF WaitsFor
<1>6. req[x].pc \in {"graph", "approve", "commit"}
  BY <1>0, <1>4, <1>5, WaitsForHolder
<1>7. WaitsFor(x, p) /\ x # p
  <2>1. PICK y \in S : WaitsFor(x, y)
    BY <1>1
  <2>2. req[x].pc = "approve" /\ req[x].seen # "needs_approval"
    BY <1>6, <2>1 DEF WaitsFor
  <2> QED BY <1>3, <1>5, <2>2 DEF WaitsFor
<1> QED BY <1>4, <1>7

(* For any number of requests: a deadlock of investigations and analyses   *)
(* is one of two, which PostgreSQL breaks, and there is always a request   *)
(* that goes on or waits for one that may.                                 *)
THEOREM NoInvestigationsStandStill == Spec => []NoStandstill
<1>1. Init => LockInv
  BY InitEstablishesIInv, RequestsAssumption DEF Init, LockInv, LocksHeld
<1>2. LockInv /\ [Next]_vars => LockInv'
  BY NextKeepsIInv, LocksHeldNext DEF LockInv
<1>3. Spec => []LockInv
  BY <1>1, <1>2, PTL DEF Spec
<1> QED BY <1>3, NoLongCircle, PTL

=============================================================================
