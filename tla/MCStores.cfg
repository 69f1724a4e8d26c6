\* Up to three faults of any kinds on a new session; three files in two folders.
SPECIFICATION StoresSpec
CONSTANTS
    MaxEvents = 3
    MaxFaults = 3
    ChunkLines = 2
    Faults = {"kill", "power", "ioerror"}
    Preloaded = 0
    r1 = r1
    r2 = r2
    f1 = f1
    f2 = f2
    f3 = f3
    e1 = e1
    Root = {r1, r2}
    File = {f1, f2, f3}
    Folder <- TwoFolders
    Engine = {e1}
    Name = {"n"}
    Repo = {"repo"}
    Kind <- FileKinds
    Sync = {"s1", "s2"}
    MaxModels = 5
    MaxProfiles = 2
    Mixes <- MCMixes
    None = None
INVARIANTS AckedKept BlobsDurable Reopens
PROPERTIES Refines RowsKept SyncReflectsDisk
CHECK_DEADLOCK FALSE
