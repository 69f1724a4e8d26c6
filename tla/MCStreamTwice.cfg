\* One message, one client that joins; the code against its comment.
SPECIFICATION StreamSpec
CONSTANTS
    Client = {c1}
    Question = {q1}
    None = None
    MAX_SESSION_CLIENTS = 1
    SUBSCRIBER_BUFFER = 1
    BusCapacity = 1
    MaxMessages = 1
    MaxActivity = 1
    MaxJoins = 1
    MaxFailures = 0
INVARIANT NeverBoth
