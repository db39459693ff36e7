SPECIFICATION ServedSpec
CONSTANTS
    a = a  b = b  d = d
    Client <- MCClient
    QueueLimit = 2
    BatchLimit = 2
CHECK_DEADLOCK FALSE
INVARIANTS TypeOK AnswersAreTrue
PROPERTIES ExpiredIsNotTaken EveryRequestAnswered
