SPECIFICATION EditorSpec
CONSTANTS
    Automatic = Automatic
    Bad = Bad
    None = None
    K = 16
    Library <- TestLibrary
    Saved <- TestSaved
    Engines <- TestEngines
    EngineKind <- TestKind
    Hardware <- TestHardware
    Overhead = 60
    Typed <- TestTyped
    Mixes <- TestMixes
INVARIANTS ProfilesHold BestContext
CHECK_DEADLOCK FALSE
