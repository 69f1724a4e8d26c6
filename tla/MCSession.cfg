SPECIFICATION FairSpec
CONSTANTS
    Mixes <- TurnsAndHistory
    Resumed = FALSE
    MaxMessages = 2
    MaxToolReplies = 1
    MaxCalls = 2
    MaxCancels = 1
    MaxCompactions = 2
    MaxBranches = 1
    BusCap = 2
    MailboxCap = 1
    Retention = 1
INVARIANTS Answerable ApprovedOnly ContinuesHead
PROPERTIES SentIsCommitted CloseReturns
CHECK_DEADLOCK FALSE
