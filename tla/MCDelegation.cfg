\* Turns that delegate twice, canceled and closed, or three times, closed;
\* queues that fill.
SPECIFICATION ChosenSpec
CONSTANTS
    Replies <- InPairsOrThrees
    MaxRequests = 3
    MayFail = {1}
    MaxUser = 1
    MaxCancels = 1
    EngineCap = 2
    InboxCap = 1
    MailboxCap = 1
INVARIANTS AnswersReach SidecarsEnd
PROPERTIES CallsEnd
CHECK_DEADLOCK FALSE
