\* Downloads that fail, resume, are canceled and cut off, of a repository that changes.
SPECIFICATION FairSpec
CONSTANTS
    File = {"weights", "projector"}
    Hashed = {"weights"}
    Size <- Sizes
    Required <- OnlyWeights
    Optional <- OnlyProjector
    Workers = 2
    MaxRetries = 2
    MaxDownloads = 2
    MaxFaults = 1
    MaxChanges = 1
    MaxRestarts = 1
INVARIANTS PublishedExact OutcomeTrue
PROPERTIES DownloadEnds
CHECK_DEADLOCK FALSE
