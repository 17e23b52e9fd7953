------------------------------ MODULE AlertRaces ------------------------------
(***************************************************************************)
(* Alert ingestion with a record of its races: the pairs of alerts that    *)
(* had both chosen to open an incident before either committed, those that *)
(* had both looked for one, and the incidents that were closed at some     *)
(* time.  With it, ingestion by many requests in several steps is shown to *)
(* be the ledger of IncidentLedger.                                        *)
(***************************************************************************)
EXTENDS AlertIngestion

VARIABLES
    together,     \* pairs of alerts about to open an incident each
    overlapping,  \* pairs of like alerts between their correlation and their commit
    everClosed    \* incidents

racesVars == <<vars, together, overlapping, everClosed>>

Opening ==
    {Current(q) : q \in {p \in Requests :
        req[p].pc = "commit" /\ req[p].target = Current(p)}}

Ingesting ==
    {Current(q) : q \in {p \in Requests : req[p].pc \in {"escalate", "commit"}}}

Like(a, b) ==
    a # b /\ ServiceOf[a] = ServiceOf[b] /\ TypeOf[a] = TypeOf[b] /\ Near(a, b)

LikePairs(S) == UNION {{{a, b} : b \in {c \in S : Like(a, c)}} : a \in S}

PairsOf(S) == UNION {{{a, b} : b \in S \ {a}} : a \in S}

RacesInit == Init /\ together = {} /\ overlapping = {} /\ everClosed = {}

RacesNext ==
    /\ Next
    /\ together' = together \cup PairsOf(Opening')
    /\ overlapping' = overlapping \cup LikePairs(Ingesting')
    /\ everClosed' = everClosed \cup closed'

RacesSpec == RacesInit /\ [][RacesNext]_racesVars

FairRacesSpec == RacesSpec /\ Fairness

-----------------------------------------------------------------------------
(* Alerts of one service and type within the window, in whatever order     *)
(* they arrive, open one incident; a second one only if both were about to *)
(* open theirs at the same time, or if the first was closed.               *)
SecondIncidentIsExcused ==
    \A a, b \in Stored :
        Like(a, b) /\ incidentOf[a] = a /\ incidentOf[b] = b
        => {a, b} \in together \/ {a, b} \cap everClosed # {}

(* Each alert is ingested as if at one instant, that of its commit,        *)
(* however many requests overlap, fail and repeat: what an overlap may     *)
(* disturb is named in the ledger, and confined to what it met.            *)
Ledger == INSTANCE IncidentLedger WITH shut <- everClosed, contested <- raced

ImplementsLedger == Ledger!Spec

=============================================================================
