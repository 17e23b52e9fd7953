SPECIFICATION DiagnosisSpec
CONSTANTS
    q1 = q1
    q2 = q2
    None = None
    Requests = {q1}
    Focus = q1
    Answers <- MCAnswers
    MaxRetries = 2
    Lookback = 1
    End = 2
    Times = {0, 1, 2, 3}
    Books <- MCBooks
    OwnBooks <- MCBooks
    BookSays <- MCBookSays
    Replies <- MCReplies
    Thresholds = {50, 90}
INVARIANT
    RegressionIsFound
CHECK_DEADLOCK FALSE
