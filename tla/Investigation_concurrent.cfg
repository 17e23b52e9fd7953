SPECIFICATION FairSpec
CONSTANTS
    q1 = q1
    q2 = q2
    None = None
    Requests = {q1, q2}
    Answers <- MCAnswers
INVARIANTS
    TypeOK
    
    HypothesisIsGrounded
    ApprovalIsBacked
    GateStatusIsBacked
PROPERTIES
    ImplementsCaseFile
    RunsStayFinished
    RunEnds
CHECK_DEADLOCK FALSE
