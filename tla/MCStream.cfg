SPECIFICATION StreamSpec
CONSTANTS
    Client = {c1, c2}
    Question = {q1, q2}
    None = None
    MAX_SESSION_CLIENTS = 1
    SUBSCRIBER_BUFFER = 1
    BusCapacity = 2
    MaxMessages = 2
    MaxActivity = 2
    MaxJoins = 2
    MaxFailures = 1
INVARIANTS MissesNothing AnswerReaches
PROPERTIES StreamsEnd
