----------------------------- MODULE MCDiagnosis -----------------------------
(***************************************************************************)
(* The two runbooks of the repository, for checkout-api, of which only one *)
(* names the database, and answers of a model that are right, ungrounded,  *)
(* unsure, malformed, or reach for an action outside the allow-list.  The  *)
(* incident starts at 2 at the latest for a request at 2 that looks back   *)
(* 1; one that starts at 3 makes the range of the query invalid.           *)
(***************************************************************************)
EXTENDS Diagnosis

CONSTANTS q1, q2

MCBooks == {"exhaustion", "latency"}

MCBookSays == [b \in MCBooks |->
    IF b = "exhaustion" THEN {"database connection timeout", "error rate"} ELSE {"error rate"}]

Right == [outcome |-> "cause", confidence |-> 80, cites |-> {"log", "exhaustion"},
          action |-> "simulated_scale", valid |-> TRUE]

MCReplies == {
    Right,
    [Right EXCEPT !.cites = {"log", "stranger"}],
    [Right EXCEPT !.cites = {}],
    [Right EXCEPT !.confidence = 10],
    [Right EXCEPT !.valid = FALSE],
    [Right EXCEPT !.action = "arbitrary_shell", !.cites = {"deployment"}],
    [Right EXCEPT !.action = "none", !.cites = {"metric", "latency"}],
    [Nothing EXCEPT !.outcome = "raises"],
    Nothing}

MCAnswers == SUBSET EvidenceKinds

=============================================================================
