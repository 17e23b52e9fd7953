SPECIFICATION Spec
CONSTANTS
    q1 = q1
    q2 = q2
    None = None
    Requests = {q1, q2}
    Answers <- MCAnswers
PROPERTY
    AnalyzingIsEarly
CHECK_DEADLOCK FALSE
